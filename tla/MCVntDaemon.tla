----------------------------- MODULE MCVntDaemon -----------------------------
(* Instances of VntDaemon for TLC.                                          *)
EXTENDS VntDaemon

CONSTANTS c1, c2

OneClient  == {c1}
TwoClients == {c1, c2}
==============================================================================
