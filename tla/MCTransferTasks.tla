--------------------------- MODULE MCTransferTasks ---------------------------
(* Instances of TransferTasks for TLC.                                      *)
EXTENDS TransferTasks

CONSTANTS o1, o2

OneOffer  == {o1}
TwoOffers == {o1, o2}
==============================================================================
