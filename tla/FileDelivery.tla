---------------------------- MODULE FileDelivery ----------------------------
(***************************************************************************)
(* What a file transfer promises to the receiving user, whatever the       *)
(* channel and whatever happens to it: the files that stand under a final  *)
(* name, and the contents that the history calls received.                 *)
(*                                                                         *)
(* QuicTransfer and TcpTransfer implement this specification: their runs   *)
(* check it as a property, under the mapping that each of them names       *)
(* Delivery.                                                               *)
(***************************************************************************)
CONSTANTS
    Names,       \* the names a received file may get
    Contents,    \* the contents the source file may have
    Nothing      \* stands for no file

VARIABLES
    shelf,       \* name -> the content under it
    received     \* the contents that are recorded as received

deliveryVars == <<shelf, received>>

Init == shelf \in [Names -> Contents \union {Nothing}] /\ received = {}

\* A whole file appears under a name that was free, and is recorded at once or not.
Deliver(n, f) ==
    /\ shelf[n] = Nothing
    /\ shelf' = [shelf EXCEPT ![n] = f]
    /\ received' \in {received, received \union {f}}

\* A file that is there is recorded.
Record(f) ==
    /\ \E n \in Names : shelf[n] = f
    /\ received' = received \union {f}
    /\ UNCHANGED shelf

Next == \E f \in Contents : Record(f) \/ \E n \in Names : Deliver(n, f)

Spec == Init /\ [][Next]_deliveryVars

-----------------------------------------------------------------------------

\* Under every name there is a whole content of the source file or nothing, never
\* a mixture; what is recorded as received is such a content.
Whole == /\ shelf \in [Names -> Contents \union {Nothing}]
         /\ received \subseteq Contents

\* What is recorded as received is on the disk, under some name.
Kept == \A f \in received : \E n \in Names : shelf[n] = f

\* No file that is there is ever overwritten or removed.
Untouched == [][\A n \in Names : shelf[n] # Nothing => shelf'[n] = shelf[n]]_deliveryVars
=============================================================================
