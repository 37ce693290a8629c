---------------------------- MODULE QuicTransfer ----------------------------
(***************************************************************************)
(* The QUIC file channel of the file-transfer component: one file name on  *)
(* the sending device, sent in up to N attempts (first send, "continue"    *)
(* after a pause, "resend" after a failure), and the save directory of the *)
(* receiving device.                                                       *)
(*                                                                         *)
(* An attempt c is one run_send coroutine, one QUIC connection and one     *)
(* handle_offer coroutine.  A block is what one Chunk message carries.     *)
(*                                                                         *)
(* Definitions named Wrong... are never used by the specification.  Each   *)
(* is the definition that follows it with a plausible mistake in it, kept  *)
(* to show that some property notices.                                     *)
(***************************************************************************)
EXTENDS SaveDirectory, TransferStatus

CONSTANTS
    N,            \* attempts: connections made to send this file name
    UserPaths,    \* names the user may pick in the save dialog
    AutoAccept,   \* the receiver accepts without asking
    Overlap,      \* an attempt may start while an earlier one still runs
    SlowLink,     \* a chunk may take longer than one poll tick to arrive
    Moves,        \* bound: the interventions of the users, of AllMoves
    MaxEdits,     \* bound: times the source file is changed
    MaxLost       \* bound: connections that break

AllMoves == {"pause", "cancelSend", "remove", "reject", "cancelRecv",
             "removeRecv"}

ASSUME ConstantsOK ==
    /\ N \in Nat \ {0}
    /\ MaxEdits \in Nat /\ MaxLost \in Nat
    /\ UserPaths \subseteq 1..MaxPath
    /\ Moves \subseteq AllMoves
    /\ {AutoAccept, Overlap, SlowLink} \subseteq BOOLEAN

Conns  == 1..N
Inodes == 0..N                    \* inode c is the one created by attempt c

VARIABLES
    snd,      \* per attempt, the sending coroutine and its task
    rcv,      \* per attempt, the receiving coroutine and its task
    toR, toS, \* per attempt, the messages on their way in each direction
    lost,     \* attempts whose connection broke
    stopped,  \* attempts whose chunk stream the receiver abandoned half read
    src,      \* the content of the source file now
    edits     \* how often it was changed

vars    == <<snd, rcv, toR, toS, lost, stopped, src, edits, data, partial, final>>
netVars == <<lost, stopped>>
srcVars == <<src, edits>>

-----------------------------------------------------------------------------
(* Messages (protocol.rs FileMsg; ids are implied by the connection).      *)

OfferMsg == [type |-> "Offer"]
CompleteMsg == [type |-> "Complete"]
ChunkMsg(o, b) == [type |-> "Chunk", off |-> o, blk |-> b]
AcceptMsg(o) == [type |-> "Accept", off |-> o]
VerifyMsg(ok) == [type |-> "Verify", ok |-> ok]
RejectMsg(r) == [type |-> "Reject", reason |-> r]
CancelMsg(r) == [type |-> "Cancel", reason |-> r]

ToReceiver == {OfferMsg, CompleteMsg, CancelMsg("paused")}
                \union [type : {"Chunk"}, off : Nat, blk : Blocks]
ToSender == [type : {"Accept"}, off : Nat]
                \union [type : {"Verify"}, ok : BOOLEAN]
                \union [type : {"Reject"}, reason : {"refused", "cancel"}]
                \union [type : {"Cancel"}, reason : {"ack", "receiver"}]

SendPC  == {"idle", "accept", "send", "chunk", "verify", "end", "finish",
            "ack", "done"}
RecvPC  == {"idle", "confirm", "open", "recv", "hash", "rename", "done"}

NewSend == [pc |-> "idle", file |-> <<>>, off |-> 0, flag |-> FALSE,
            res |-> "none", task |-> "none", hist |-> "none"]
NewRecv == [pc |-> "idle", pend |-> "none", path |-> 1, handle |-> NoFile,
            off |-> 0, flag |-> FALSE, task |-> "none", hist |-> "none"]

Init ==
    /\ snd = [c \in Conns |-> NewSend]
    /\ rcv = [c \in Conns |-> NewRecv]
    /\ toR = [c \in Conns |-> <<>>]
    /\ toS = [c \in Conns |-> <<>>]
    /\ lost = {} /\ stopped = {}
    /\ src \in Contents /\ edits = 0
    /\ InitDirectory(Inodes)

-----------------------------------------------------------------------------
(* Connection: an ordered, reliable stream of messages each way.  A side   *)
(* that ends drops the connection: what is still on its way to that side   *)
(* is discarded, what it sent before can still be read by the other.       *)

ReceiverGone(c) == c \in lost \/ rcv[c].pc = "done"
SenderGone(c)   == c \in lost \/ snd[c].pc = "done"

TellReceiver(c, m) ==
    toR' = IF ReceiverGone(c) THEN toR ELSE [toR EXCEPT ![c] = Append(@, m)]
TellSender(c, m) ==
    toS' = IF SenderGone(c) THEN toS ELSE [toS EXCEPT ![c] = Append(@, m)]

SenderGets(c, t)   == toS[c] # <<>> /\ Head(toS[c]).type = t
ReceiverGets(c, t) == toR[c] # <<>> /\ Head(toR[c]).type = t

Taken(q, c)   == [q EXCEPT ![c] = Tail(@)]
Dropped(q, c) == [q EXCEPT ![c] = <<>>]

\* The connection breaks.  A message still travelling may be lost with it.
WithoutLast(q, c) == [q EXCEPT ![c] = SubSeq(@, 1, Len(@) - 1)]

Lose(c) ==
    /\ c \notin lost /\ Cardinality(lost) < MaxLost
    /\ snd[c].pc \notin {"idle", "done"} \/ rcv[c].pc \notin {"idle", "done"}
    /\ lost' = lost \union {c}
    /\ toR' \in {toR, WithoutLast(toR, c)}
    /\ toS' \in {toS, WithoutLast(toS, c)}
    /\ UNCHANGED <<snd, rcv, stopped, srcVars, dirVars>>

-----------------------------------------------------------------------------
(* The sending device.                                                     *)

Quiet(c) == /\ snd[c].pc \in {"idle", "done"}
            /\ snd[c].pc = "done" => rcv[c].pc = "done"

MayStart(c) == /\ snd[c].pc = "idle"
               /\ \A d \in Conns : d < c => snd[d].pc # "idle"
               /\ Overlap \/ \A d \in Conns : Quiet(d)

\* file_send and run_send up to the Offer: the task is queued, the connection
\* made, the file hashed.
StartSend(c) ==
    /\ MayStart(c)
    /\ snd' = [snd EXCEPT ![c].pc = "accept", ![c].file = src, ![c].task = "Active"]
    /\ TellReceiver(c, OfferMsg)
    /\ UNCHANGED <<rcv, toS, netVars, srcVars, dirVars>>

\* send_file returned a result; run_send looks at the task next.
Returned(c, r) == snd' = [snd EXCEPT ![c].pc = "end", ![c].res = r]

\* Wrong: the resume offset of the Accept is forgotten.
WrongRecvAccept(c) ==
    /\ snd[c].pc = "accept" /\ SenderGets(c, "Accept")
    /\ snd' = [snd EXCEPT ![c].pc = "send"]
    /\ toS' = Taken(toS, c)
    /\ UNCHANGED <<rcv, toR, netVars, srcVars, dirVars>>

\* wait_for_accept: Accept fixes the offset to send from.
RecvAccept(c) ==
    /\ snd[c].pc = "accept" /\ SenderGets(c, "Accept")
    /\ LET o == Head(toS[c]).off
           size == Len(snd[c].file)
       IN  snd' = [snd EXCEPT ![c].pc = "send", ![c].off = IF o > size THEN size ELSE o]
    /\ toS' = Taken(toS, c)
    /\ UNCHANGED <<rcv, toR, netVars, srcVars, dirVars>>

\* A Reject or a Cancel of the receiver ends the attempt, wherever the sender
\* reads it.  The task is Cancelled when the error text says so: the user
\* cancelled over there.  wait_for_verify does not know Reject.
RecvStop(c) ==
    /\ \/ /\ snd[c].pc \in {"accept", "chunk", "verify"}
          /\ SenderGets(c, "Cancel")
          /\ Returned(c, "cancel")
       \/ /\ snd[c].pc \in {"accept", "chunk"}
          /\ SenderGets(c, "Reject")
          /\ Returned(c, IF Head(toS[c]).reason = "cancel" THEN "cancel" ELSE "fail")
    /\ toS' = Taken(toS, c)
    /\ UNCHANGED <<rcv, toR, netVars, srcVars, dirVars>>

\* A poll tick of a wait, or the top of the chunk loop, finds the flag.
SeeCancel(c) ==
    /\ snd[c].flag
    /\ \/ snd[c].pc \in {"accept", "verify"}
       \/ snd[c].pc = "send" /\ snd[c].off < Len(snd[c].file)
    /\ Returned(c, "cancel")
    /\ UNCHANGED <<rcv, toR, toS, netVars, srcVars, dirVars>>

\* One chunk: the source file is read again, at the offset.
SendChunk(c) ==
    /\ snd[c].pc = "send" /\ ~snd[c].flag
    /\ snd[c].off < Len(snd[c].file) /\ snd[c].off < Len(src)
    /\ snd' = [snd EXCEPT ![c].pc = "chunk"]
    /\ TellReceiver(c, ChunkMsg(snd[c].off, src[snd[c].off + 1]))
    /\ UNCHANGED <<rcv, toS, netVars, srcVars, dirVars>>

\* finish() returned: the peer's transport has the whole chunk.
ChunkSent(c) ==
    /\ snd[c].pc = "chunk" /\ ~ReceiverGone(c) /\ c \notin stopped
    /\ snd' = [snd EXCEPT ![c].pc = "send", ![c].off = @ + 1]
    /\ UNCHANGED <<rcv, toR, toS, netVars, srcVars, dirVars>>

\* Wrong: the send is done with its last message, nobody waits for Verify.
WrongSendComplete(c) ==
    /\ snd[c].pc = "send" /\ ~ReceiverGone(c)
    /\ \/ snd[c].off >= Len(snd[c].file)
       \/ snd[c].off >= Len(src) /\ ~snd[c].flag
    /\ Returned(c, "ok")
    /\ TellReceiver(c, CompleteMsg)
    /\ UNCHANGED <<rcv, toS, netVars, srcVars, dirVars>>

\* Everything is sent, or the source file got shorter (a read of 0 bytes).
SendComplete(c) ==
    /\ snd[c].pc = "send" /\ ~ReceiverGone(c)
    /\ \/ snd[c].off >= Len(snd[c].file)
       \/ snd[c].off >= Len(src) /\ ~snd[c].flag
    /\ snd' = [snd EXCEPT ![c].pc = "verify"]
    /\ TellReceiver(c, CompleteMsg)
    /\ UNCHANGED <<rcv, toS, netVars, srcVars, dirVars>>

RecvVerify(c) ==
    /\ snd[c].pc = "verify" /\ SenderGets(c, "Verify")
    /\ Returned(c, IF Head(toS[c]).ok THEN "ok" ELSE "fail")
    /\ toS' = Taken(toS, c)
    /\ UNCHANGED <<rcv, toR, netVars, srcVars, dirVars>>

\* Wrong: the waits for Accept and Verify have no timeout.
WrongSendFails(c) ==
    /\ \/ snd[c].pc \in {"send", "chunk"} /\ ReceiverGone(c)
       \/ snd[c].pc = "chunk" /\ c \in stopped
    /\ Returned(c, "fail")
    /\ UNCHANGED <<rcv, toR, toS, netVars, srcVars, dirVars>>

\* Sending to a peer that is gone; a stream the peer stopped; the end of the
\* connection or the 30 s timeout of the two waits.
SendFails(c) ==
    /\ \/ snd[c].pc \in {"send", "chunk"} /\ ReceiverGone(c)
       \/ snd[c].pc = "chunk" /\ c \in stopped
       \/ snd[c].pc \in {"accept", "verify"}
    /\ Returned(c, "fail")
    /\ UNCHANGED <<rcv, toR, toS, netVars, srcVars, dirVars>>

\* Wrong: a paused send just drops the connection.
WrongAfterSend(c) ==
    /\ snd[c].pc = "end"
    /\ snd' = [snd EXCEPT ![c].pc = IF snd[c].task = "Paused" THEN "ack" ELSE "finish"]
    /\ UNCHANGED <<rcv, toR, toS, netVars, srcVars, dirVars>>

\* run_send: a task that was paused tells the receiver so, any other one is
\* finished.
AfterSend(c) ==
    /\ snd[c].pc = "end"
    /\ IF snd[c].task = "Paused"
       THEN /\ snd' = [snd EXCEPT ![c].pc = "ack"]
            /\ TellReceiver(c, CancelMsg("paused"))
       ELSE /\ snd' = [snd EXCEPT ![c].pc = "finish"]
            /\ UNCHANGED toR
    /\ UNCHANGED <<rcv, toS, netVars, srcVars, dirVars>>

\* The coroutine ends: its flag is removed, the connection dropped, what it
\* knew is gone.
SendEnds(c, task, hist) ==
    /\ snd' = [snd EXCEPT ![c] = [NewSend EXCEPT !.pc = "done", !.file = snd[c].file,
                                                 !.task = task, !.hist = hist]]
    /\ toS' = Dropped(toS, c)

\* wait_pause_ack: any Cancel, the end of the connection or 2 s.
PauseAcked(c) ==
    /\ snd[c].pc = "ack"
    /\ SendEnds(c, snd[c].task, "none")
    /\ UNCHANGED <<rcv, toR, netVars, srcVars, dirVars>>

\* finish_send: status and history record, unless the task was removed.
FinishSend(c) ==
    /\ snd[c].pc = "finish"
    /\ IF snd[c].task = "Removed"
       THEN SendEnds(c, "Removed", "none")
       ELSE SendEnds(c, Outcome(snd[c].res), Outcome(snd[c].res))
    /\ UNCHANGED <<rcv, toR, netVars, srcVars, dirVars>>

SenderStep(c) ==
    \/ RecvAccept(c)   \/ RecvStop(c)   \/ SeeCancel(c)
    \/ SendChunk(c)    \/ ChunkSent(c)  \/ SendComplete(c)
    \/ RecvVerify(c)   \/ SendFails(c)  \/ AfterSend(c)
    \/ PauseAcked(c)   \/ FinishSend(c)

\* file_pause and file_cancel, offered while the task is pending or running:
\* the status is set, the flag raised.
Stop(c, move, st) ==
    /\ move \in Moves
    /\ snd[c].task = "Active"
    /\ snd' = [snd EXCEPT ![c].task = st, ![c].flag = TRUE]
    /\ UNCHANGED <<rcv, toR, toS, netVars, srcVars, dirVars>>

PauseSend(c)  == Stop(c, "pause", "Paused")
CancelSend(c) == Stop(c, "cancelSend", "Cancelled")

\* file_remove_task while the coroutine still runs: the first half of
\* "continue" on a paused task, the "remove" button of a cancelled one.  The
\* flag is forgotten by the table, not lowered.
RemoveSend(c) ==
    /\ "remove" \in Moves
    /\ snd[c].pc # "done" /\ snd[c].task \in {"Paused", "Cancelled"}
    /\ snd' = [snd EXCEPT ![c].task = "Removed"]
    /\ UNCHANGED <<rcv, toR, toS, netVars, srcVars, dirVars>>

\* Somebody saves another content under the source file's name.
EditSource ==
    /\ edits < MaxEdits
    /\ src' \in Contents \ {src}
    /\ edits' = edits + 1
    /\ UNCHANGED <<snd, rcv, toR, toS, netVars, dirVars>>

-----------------------------------------------------------------------------
(* The receiving device.                                                   *)

GotOffer(c) == rcv[c].pc = "idle" /\ ReceiverGets(c, "Offer")

\* The coroutine ends: the connection is dropped, what it knew is gone.
RecvEnds(c, task, hist) ==
    /\ rcv' = [rcv EXCEPT ![c] = [NewRecv EXCEPT !.pc = "done", !.task = task,
                                                 !.hist = hist]]
    /\ toR' = Dropped(toR, c)

\* Updates of a task that was removed from the list do nothing, and
\* finish_receive then writes no history record.
Kept(c, st)     == IF rcv[c].task = "Removed" THEN "Removed" ELSE st
Recorded(c, st) == IF rcv[c].task = "Removed" THEN "none" ELSE st

\* handle_offer, the file type is refused by the user's filter.
OfferFiltered(c) ==
    /\ GotOffer(c)
    /\ RecvEnds(c, "none", "none")
    /\ TellSender(c, RejectMsg("refused"))
    /\ UNCHANGED <<snd, netVars, srcVars, dirVars>>

\* handle_offer, the file is there already ("second transfer"): both answers
\* are sent at once.
OfferDuplicate(c) ==
    /\ GotOffer(c) /\ Duplicate(snd[c].file)
    /\ RecvEnds(c, "Completed", "Completed")
    /\ toS' = IF SenderGone(c) THEN toS
              ELSE [toS EXCEPT ![c] = @ \o <<AcceptMsg(Len(snd[c].file)), VerifyMsg(TRUE)>>]
    /\ UNCHANGED <<snd, netVars, srcVars, dirVars>>

\* handle_offer, a new file: the save path is resolved, the resume offset
\* computed; with auto-accept the answer follows at once, otherwise the
\* request waits for the user.
OfferPlanned(c) ==
    /\ GotOffer(c) /\ ~Duplicate(snd[c].file) /\ FreeFrom(1) # {}
    /\ LET p == ResolveSavePath(1)
           o == ResumeOffset(p, snd[c].file)
       IN  /\ partial' = AfterValidate(p, snd[c].file)
           /\ rcv' = [rcv EXCEPT ![c].pc = IF AutoAccept THEN "open" ELSE "confirm",
                                 ![c].pend = IF AutoAccept THEN "none" ELSE "wait",
                                 ![c].path = p, ![c].off = o, ![c].task = "Active"]
           /\ IF AutoAccept THEN TellSender(c, AcceptMsg(o)) ELSE UNCHANGED toS
    /\ toR' = Taken(toR, c)
    /\ UNCHANGED <<snd, netVars, srcVars, data, final>>

\* handle_quic_connection: the connection ends, or 30 s pass, before the Offer
\* is there.
OfferLost(c) ==
    /\ rcv[c].pc = "idle" /\ snd[c].pc # "idle"
    /\ RecvEnds(c, "none", "none")
    /\ UNCHANGED <<snd, toS, netVars, srcVars, dirVars>>

\* file_accept and file_reject: the decision is handed to the coroutine.  The
\* "default" button answers with the plain name, the save dialog starts from
\* the planned one; closing the popup refuses with "user cancelled".
UserAccept(c) ==
    /\ rcv[c].pend = "wait"
    /\ \E p \in UserPaths \union {1, rcv[c].path} :
          rcv' = [rcv EXCEPT ![c].pend = "accept", ![c].path = p]
    /\ UNCHANGED <<snd, toR, toS, netVars, srcVars, dirVars>>

UserReject(c) ==
    /\ "reject" \in Moves
    /\ rcv[c].pend = "wait"
    /\ \E r \in {"refused", "cancel"} : rcv' = [rcv EXCEPT ![c].pend = r]
    /\ UNCHANGED <<snd, toR, toS, netVars, srcVars, dirVars>>

\* The coroutine wakes with an acceptance: the path is settled and the offset
\* computed again, for the path the user chose.
Accepted(c) ==
    /\ rcv[c].pc = "confirm" /\ rcv[c].pend = "accept" /\ FreeFrom(rcv[c].path) # {}
    /\ LET p == ResolveConflict(rcv[c].path, snd[c].file)
           o == ResumeOffset(p, snd[c].file)
       IN  /\ partial' = AfterValidate(p, snd[c].file)
           /\ rcv' = [rcv EXCEPT ![c].pc = "open", ![c].pend = "none",
                                 ![c].path = p, ![c].off = o]
           /\ TellSender(c, AcceptMsg(o))
    /\ UNCHANGED <<snd, toR, netVars, srcVars, data, final>>

\* A refusal, a cancellation before the answer, or 30 s without one.
Refused(c) ==
    /\ rcv[c].pc = "confirm" /\ rcv[c].pend \in {"wait", "refused", "cancel"}
    /\ RecvEnds(c, Kept(c, "Rejected"), "none")
    /\ TellSender(c, RejectMsg(IF rcv[c].pend = "cancel" THEN "cancel" ELSE "refused"))
    /\ UNCHANGED <<snd, netVars, srcVars, dirVars>>

\* execute_receive up to open_partial: a fresh cancel flag, the status, and
\* the partial file opened or created.
OpenPartial(c) ==
    /\ rcv[c].pc = "open"
    /\ LET p == rcv[c].path
           i == IF partial[p] = NoFile THEN c ELSE partial[p]
       IN  /\ rcv' = [rcv EXCEPT ![c].pc = "recv", ![c].handle = i,
                                 ![c].task = Kept(c, "Active")]
           /\ partial' = [partial EXCEPT ![p] = i]
    /\ UNCHANGED <<snd, toR, toS, netVars, srcVars, data, final>>

\* receive_quic writes a chunk at the offset it expects, skips an earlier one.
Receiving(c) == rcv[c].pc = "recv" /\ ~rcv[c].flag
NextIsGap(c) == ReceiverGets(c, "Chunk") /\ Head(toR[c]).off > rcv[c].off

RecvChunk(c) ==
    /\ Receiving(c) /\ ReceiverGets(c, "Chunk") /\ ~NextIsGap(c)
    /\ LET m == Head(toR[c])
           fresh == m.off = rcv[c].off
       IN  /\ data' = IF fresh THEN [data EXCEPT ![rcv[c].handle] = WriteAt(@, m.off, m.blk)]
                               ELSE data
           /\ rcv' = IF fresh THEN [rcv EXCEPT ![c].off = @ + 1] ELSE rcv
    /\ toR' = Taken(toR, c)
    /\ UNCHANGED <<snd, toS, netVars, srcVars, partial, final>>

RecvComplete(c) ==
    /\ Receiving(c) /\ ReceiverGets(c, "Complete")
    /\ rcv' = [rcv EXCEPT ![c].pc = "hash"]
    /\ toR' = Taken(toR, c)
    /\ UNCHANGED <<snd, toS, netVars, srcVars, dirVars>>

\* The poll tick comes while a chunk is still arriving: recv_msg is dropped
\* half way, the chunk with it, and its stream is stopped.
PollDropsChunk(c) ==
    /\ SlowLink
    /\ Receiving(c) /\ snd[c].pc = "chunk" /\ c \notin lost
    /\ Len(toR[c]) = 1 /\ ReceiverGets(c, "Chunk")
    /\ toR' = Taken(toR, c)
    /\ stopped' = stopped \union {c}
    /\ UNCHANGED <<snd, rcv, toS, lost, srcVars, dirVars>>

\* finish_receive after an error: status, record, what becomes of the partial
\* file.
RecvError(c, kind) ==
    /\ RecvEnds(c, Kept(c, ErrorStatus(kind)), Recorded(c, ErrorRecord(kind)))
    /\ CleanUp(rcv[c].path, kind)
    /\ UNCHANGED <<snd, netVars, srcVars, data, final>>

\* The sender paused: acknowledged, and the receive ends paused.
RecvPause(c) ==
    /\ Receiving(c) /\ ReceiverGets(c, "Cancel")
    /\ TellSender(c, CancelMsg("ack"))
    /\ RecvError(c, "paused")

\* The receiving user cancelled: the sender is told.
RecvSeesCancel(c) ==
    /\ rcv[c].pc = "recv" /\ rcv[c].flag
    /\ TellSender(c, CancelMsg("receiver"))
    /\ RecvError(c, "cancel")

\* The connection ends under the receiver, or a chunk lies beyond the offset it
\* expects.
RecvBroken(c) ==
    /\ Receiving(c)
    /\ NextIsGap(c) \/ (toR[c] = <<>> /\ SenderGone(c))
    /\ RecvError(c, "broken")
    /\ UNCHANGED toS

\* After Complete the file under the partial name is hashed from the start
\* and the verdict is sent, before anything else is done.
HashOf(c) == data[partial[rcv[c].path]]

\* Wrong: only the size is compared.
WrongHashOK(c) ==
    /\ rcv[c].pc = "hash" /\ partial[rcv[c].path] # NoFile
    /\ Len(HashOf(c)) = Len(snd[c].file)
    /\ rcv' = [rcv EXCEPT ![c].pc = "rename"]
    /\ TellSender(c, VerifyMsg(TRUE))
    /\ UNCHANGED <<snd, toR, netVars, srcVars, dirVars>>

HashOK(c) ==
    /\ rcv[c].pc = "hash" /\ partial[rcv[c].path] # NoFile
    /\ HashOf(c) = snd[c].file
    /\ rcv' = [rcv EXCEPT ![c].pc = "rename"]
    /\ TellSender(c, VerifyMsg(TRUE))
    /\ UNCHANGED <<snd, toR, netVars, srcVars, dirVars>>

HashDiffers(c) ==
    /\ rcv[c].pc = "hash" /\ partial[rcv[c].path] # NoFile
    /\ HashOf(c) # snd[c].file
    /\ TellSender(c, VerifyMsg(FALSE))
    /\ RecvError(c, "verify")

HashFails(c) ==
    /\ rcv[c].pc = "hash" /\ Unreadable(rcv[c].path)
    /\ RecvError(c, "gone")
    /\ UNCHANGED toS

\* finalize and finish_receive.
Finalize(c) ==
    /\ rcv[c].pc = "rename" /\ FinalizeFile(rcv[c].path)
    /\ RecvEnds(c, Kept(c, "Completed"), Recorded(c, "Completed"))
    /\ UNCHANGED <<snd, toS, netVars, srcVars, data>>

FinalizeFails(c) ==
    /\ rcv[c].pc = "rename" /\ FinalizeLost(rcv[c].path)
    /\ RecvEnds(c, Kept(c, "Failed"), Recorded(c, "Failed"))
    /\ UNCHANGED <<snd, toS, netVars, srcVars, data>>

ReceiverStep(c) ==
    \/ OfferFiltered(c) \/ OfferDuplicate(c) \/ OfferPlanned(c) \/ OfferLost(c)
    \/ Accepted(c)      \/ Refused(c)        \/ OpenPartial(c)
    \/ RecvChunk(c)     \/ RecvComplete(c)   \/ PollDropsChunk(c)
    \/ RecvPause(c)     \/ RecvSeesCancel(c) \/ RecvBroken(c)
    \/ HashOK(c)        \/ HashDiffers(c)    \/ HashFails(c)
    \/ Finalize(c)      \/ FinalizeFails(c)

\* file_cancel on the receiving side: the flag of a running receive, the
\* pending request of a waiting one, and the status in any case.  Between the
\* answer and execute_receive there is neither flag nor request.
CancelRecv(c) ==
    /\ "cancelRecv" \in Moves
    /\ rcv[c].pc # "done" /\ rcv[c].task = "Active"
    /\ rcv' = [rcv EXCEPT ![c].flag = rcv[c].pc \in {"recv", "hash", "rename"},
                          ![c].pend = IF @ = "wait" THEN "cancel" ELSE @,
                          ![c].task = "Cancelled"]
    /\ UNCHANGED <<snd, toR, toS, netVars, srcVars, dirVars>>

\* file_remove_task on a receive that is cancelled but still runs.
RemoveRecv(c) ==
    /\ "removeRecv" \in Moves
    /\ rcv[c].pc # "done" /\ rcv[c].task = "Cancelled"
    /\ rcv' = [rcv EXCEPT ![c].task = "Removed"]
    /\ UNCHANGED <<snd, toR, toS, netVars, srcVars, dirVars>>

-----------------------------------------------------------------------------
UserStep(c) ==
    \/ StartSend(c)  \/ PauseSend(c)  \/ CancelSend(c) \/ RemoveSend(c)
    \/ UserAccept(c) \/ UserReject(c) \/ CancelRecv(c) \/ RemoveRecv(c)

Next ==
    \/ EditSource
    \/ \E c \in Conns : UserStep(c) \/ SenderStep(c) \/ ReceiverStep(c) \/ Lose(c)

Spec == Init /\ [][Next]_vars

\* The runtime polls every coroutine, and every wait has a timer or notices
\* that the peer is gone; users and the network promise nothing.
Fairness == \A c \in Conns : WF_vars(SenderStep(c)) /\ WF_vars(ReceiverStep(c))

FairSpec == Spec /\ Fairness

-----------------------------------------------------------------------------
(* Properties.                                                             *)

\* Every variable keeps its type; logs only hold messages of their direction,
\* cursors stay within them, names refer to inodes.
SendRec == [pc : SendPC, file : Contents \union {<<>>}, off : Nat,
            flag : BOOLEAN, res : Results, task : Status, hist : Status]
RecvRec == [pc : RecvPC, pend : {"none", "wait", "accept", "refused", "cancel"},
            path : Paths, handle : Inodes \union {NoFile}, off : Nat,
            flag : BOOLEAN, task : Status, hist : Status]

TypeOK ==
    /\ snd \in [Conns -> SendRec]
    /\ rcv \in [Conns -> RecvRec]
    /\ toR \in [Conns -> Seq(ToReceiver)]
    /\ toS \in [Conns -> Seq(ToSender)]
    /\ lost \in SUBSET Conns /\ stopped \in SUBSET Conns
    /\ src \in Contents /\ edits \in 0..MaxEdits
    /\ data \in [Inodes -> Seq(Blocks \union {Hole})]
    /\ partial \in [Paths -> Inodes \union {NoFile}]
    /\ final \in [Paths -> Inodes \union {NoFile}]

\* Both sides resume from the same offset: whatever was paused, saved under
\* another name or resumed before, the next chunk a receiver reads is the one
\* it expects ("the sender resumes at the old offset while the receiver starts
\* from zero" is what handle_offer plans twice to avoid).
OffsetsAgree ==
    \A c \in Conns :
        Receiving(c) /\ ReceiverGets(c, "Chunk") => Head(toR[c]).off = rcv[c].off

\* Why they agree: the chunks on their way continue at the offset the receiver
\* expects, nothing else travels between two chunks, and a sender that may
\* still send stands exactly behind the last of them.
AllChunks(c) == \A k \in 1..Len(toR[c]) : toR[c][k].type = "Chunk"

ChunksInOrder(c) ==
    \A k \in 1..Len(toR[c]) : toR[c][k].type = "Chunk" =>
        /\ rcv[c].pc \in {"open", "recv"}
        /\ toR[c][k].off = rcv[c].off + k - 1
        /\ \A j \in 1..k : toR[c][j].type = "Chunk"

OfferOnItsWay(c) == rcv[c].pc = "idle" /\ toR[c] = <<OfferMsg>> /\ toS[c] = <<>>
UserIsAsked(c)   == rcv[c].pc = "confirm" /\ toR[c] = <<>> /\ toS[c] = <<>>
AcceptOnItsWay(c) ==
    /\ rcv[c].pc \in {"open", "recv"}
    /\ toR[c] = <<>> /\ toS[c] = <<AcceptMsg(rcv[c].off)>>
    /\ rcv[c].off <= Len(snd[c].file)
Behind(c, o) ==
    rcv[c].pc \in {"open", "recv"} /\ AllChunks(c) /\ o = rcv[c].off + Len(toR[c])

SenderAligned(c) ==
    ~ReceiverGone(c) =>
        /\ snd[c].pc = "idle" => rcv[c].pc = "idle" /\ toR[c] = <<>> /\ toS[c] = <<>>
        /\ snd[c].pc = "accept" => OfferOnItsWay(c) \/ UserIsAsked(c) \/ AcceptOnItsWay(c)
        /\ snd[c].pc = "send" => Behind(c, snd[c].off)
        /\ snd[c].pc = "chunk" /\ c \notin stopped => Behind(c, snd[c].off + 1)

InStep == \A c \in Conns : ChunksInOrder(c) /\ SenderAligned(c)

AboutToSave(c) == /\ rcv[c].pc = "rename" /\ partial[rcv[c].path] # NoFile
                  /\ data[partial[rcv[c].path]] = snd[c].file

\* A send shown as completed, in the list or the history, was delivered: the
\* receiver has a file with exactly the content that was offered, or has
\* verified it and is about to rename it.
SentMeansDelivered ==
    \A c \in Conns :
        "Completed" \in {snd[c].task, snd[c].hist}
            => Saved(snd[c].file) \/ AboutToSave(c)

\* Received data that are still a prefix of the file being sent are thrown away
\* by nothing but a cancellation of the receiving user: a pause, a broken
\* connection, a timeout or a refusal keep the partial file to resume from.
PartialSurvives ==
    [][\A p \in Paths : partial[p] # NoFile /\ partial'[p] = NoFile =>
          \/ final'[p] = partial[p]
          \/ \E c \in Conns :
                /\ rcv'[c].pc # rcv[c].pc
                /\ LET d == data[partial[p]]
                       f == snd[c].file
                   IN  rcv[c].flag \/ Len(d) > Len(f) \/ SubSeq(f, 1, Len(d)) # d]_vars

\* A pause that was carried out leaves no failure record on the receiver
\* while the connection holds.
PauseLeavesNoFailure ==
    \A c \in Conns :
        (snd[c].task = "Paused" /\ snd[c].pc = "done" /\ c \notin lost)
            => rcv[c].hist # "Failed"

\* An attempt that no user, no timeout and no failing network touches is not
\* failed by the polling for a cancellation ("while data keep arriving the
\* sleep branch is starved", says the receive loop).
UntouchedNeverFails ==
    \A c \in Conns : (snd[c].pc = "end" /\ c \in stopped) => snd[c].res # "fail"

\* A receive the user cancelled never runs on: the sender is told to stop
\* ("cancelling on the receiving side notifies the sender at once").
CancelSticks ==
    [][\A c \in Conns : rcv[c].task = "Cancelled" => rcv'[c].task # "Active"]_vars

\* No attempt stays half way: once started, both coroutines end.
AttemptsEnd ==
    \A c \in Conns :
        snd[c].pc # "idle" ~> (snd[c].pc = "done" /\ rcv[c].pc = "done")
=============================================================================
