--------------------------- MODULE TransferStatus ---------------------------
(* The states of a transfer task and how the result of a transfer becomes  *)
(* one of them: protocol.rs TransferStatus, finish_send, finish_receive.   *)

\* "Active" stands for Pending and Transferring, "Removed" for a task that is
\* no longer in the list.
Final  == {"Completed", "Cancelled", "Failed", "Rejected"}
Status == Final \union {"none", "Active", "Paused", "Removed"}

\* What a coroutine returns: success, an error whose text says cancelled, any
\* other error.
Results == {"none", "ok", "cancel", "fail"}

\* Wrong: the text of an error is stored as the status.
WrongOutcome(r) == IF r = "ok" THEN "Completed" ELSE r

\* finish_send.
Outcome(r) == CASE r = "ok" -> "Completed"
                [] r = "cancel" -> "Cancelled"
                [] OTHER -> "Failed"

\* finish_receive; kind is what the text of the error tells apart.
ErrorStatus(kind) == CASE kind = "paused" -> "Paused"
                       [] kind = "cancel" -> "Cancelled"
                       [] OTHER -> "Failed"

\* finish_receive again: a paused receive leaves no history record.
ErrorRecord(kind) == IF kind = "paused" THEN "none" ELSE ErrorStatus(kind)
=============================================================================
