--------------------------- MODULE MCHistoryStore ---------------------------
(* An instance of HistoryStore for TLC.                                     *)
EXTENDS HistoryStore, TLC

TaskSymmetry == Permutations(Tasks)
=============================================================================
