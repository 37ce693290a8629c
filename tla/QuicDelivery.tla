---------------------------- MODULE QuicDelivery ----------------------------
(* The QUIC channel implements FileDelivery.                             *)
EXTENDS QuicTransfer

\* The contents the receiving device has recorded as received.
Received == {snd[c].file : c \in {d \in Conns : rcv[d].hist = "Completed"}}

\* What the receiving user is promised: a file appears under its final name whole
\* and under a free name only, is never overwritten or removed, and a receive is
\* recorded as completed only when the offered content is there.  The partial
\* files, the offsets and the messages are hidden.
Delivery == INSTANCE FileDelivery WITH
    Names <- Paths, Nothing <- <<Hole>>, shelf <- Shelf, received <- Received

Delivers == Delivery!Spec
=============================================================================
