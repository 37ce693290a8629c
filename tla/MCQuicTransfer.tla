--------------------------- MODULE MCQuicTransfer ---------------------------
(* Instances of QuicTransfer for TLC.                                      *)
EXTENDS QuicDelivery

CONSTANTS a, b, x

OneFile    == {<<a, b>>}
TwoFiles   == {<<a, b>>, <<x>>}
Edited     == {<<a, b>>, <<x, a>>}
Versions   == {<<a, b>>, <<x, a>>, <<a>>, <<>>}
ABlocks    == {a, b, x}
AnyPath    == 1..3
NoChoice   == {}
=============================================================================
