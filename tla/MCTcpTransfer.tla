---------------------------- MODULE MCTcpTransfer ----------------------------
(* Instances of TcpTransfer for TLC.                                       *)
EXTENDS TcpDelivery

CONSTANTS a, b, x

OneFile  == {<<a, b>>}
TwoFiles == {<<a, b>>, <<x>>}
Edited   == {<<a, b>>, <<x, a>>}
Versions == {<<a, b>>, <<x, a>>, <<a>>}
ABlocks  == {a, b, x}
=============================================================================
