--------------------------- MODULE MCDesktopVideo ---------------------------
(* Instances of DesktopVideo for TLC.                                       *)
EXTENDS DesktopVideo

\* Two sizes that can be encoded, one that cannot.
ThreeSizes == {<<8, 4>>, <<4, 4>>, <<5, 4>>}

\* The first of them is reduced, to <<4, 2>>.
Small == <<4, 4>>
=============================================================================
