-------------------------- MODULE MCDesktopSession --------------------------
(* Instances of DesktopSession for TLC.                                     *)
EXTENDS DesktopSession, TLC

CONSTANTS p, q, r

\* The callers are alike.
Callers == Permutations({p, r})

ThreeNodes == {p, q, r}

\* Two devices call the same third one, which calls nobody.
OneHost == {<<p, q>>, <<r, q>>}

\* One device calls another.
OneCaller == {<<p, q>>}
TwoNodes == {p, q}

\* The device in the middle calls and is called.
Middle == {<<q, p>>, <<r, q>>}
=============================================================================
