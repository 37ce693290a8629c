----------------------------- MODULE TcpTransfer -----------------------------
(***************************************************************************)
(* The TCP file channel: the attempts to send one large file, each one     *)
(* run_send coroutine, one TCP connection and one handle_tcp_connection    *)
(* coroutine.  A connection carries a line each way (the offer, the        *)
(* answer), then the bytes of the file from the resume offset and a hash   *)
(* of the whole file.  Unlike the QUIC channel there is no message after   *)
(* the answer: a side learns of a pause, a cancellation or a verdict by    *)
(* the end of the stream, or not at all.                                   *)
(*                                                                         *)
(* A block is what one send_data carries.                                  *)
(***************************************************************************)
EXTENDS SaveDirectory, TransferStatus

CONSTANTS
    N,            \* attempts to send this file name
    AutoAccept,   \* the receiver accepts without asking
    Overlap,      \* an attempt may start while an earlier one still runs
    Moves,        \* bound: the interventions of the users, of AllMoves
    MaxMoves,     \* bound: interventions of the users, all told
    MaxEdits,     \* bound: times the source file is changed
    MaxLost       \* bound: connections that break

AllMoves == {"pause", "cancelSend", "remove", "reject", "cancelRecv",
             "removeRecv"}

ASSUME ConstantsOK ==
    /\ N \in Nat \ {0}
    /\ {MaxEdits, MaxLost, MaxMoves} \subseteq Nat
    /\ Moves \subseteq AllMoves
    /\ {AutoAccept, Overlap} \subseteq BOOLEAN

Conns  == 1..N
Inodes == 0..N                    \* inode c is the one created by attempt c

VARIABLES
    snd,      \* per attempt, the sending coroutine and its task
    rcv,      \* per attempt, the receiving coroutine and its task
    toR, toS, \* per attempt, what is on its way in each direction
    lost,     \* attempts whose connection broke
    src,      \* the content of the source file now
    edits,    \* how often it was changed
    moves     \* how often a user intervened

vars    == <<snd, rcv, toR, toS, lost, src, edits, moves, data, partial, final>>
srcVars == <<src, edits, moves>>

-----------------------------------------------------------------------------
(* What travels: lines, blocks of the file, the trailing hash.             *)

OfferLine     == [type |-> "offer"]
AcceptLine(o) == [type |-> "accept", off |-> o]
RejectLine(r) == [type |-> "reject", reason |-> r]
DataItem(b)   == [type |-> "data", blk |-> b]
HashItem(f)   == [type |-> "hash", file |-> f]

ToReceiver == {OfferLine} \union [type : {"data"}, blk : Blocks]
                \union [type : {"hash"}, file : Contents]
ToSender == [type : {"accept"}, off : Nat]
                \union [type : {"reject"}, reason : {"refused", "cancel"}]

SendPC == {"idle", "reply", "send", "end", "done"}
RecvPC == {"idle", "confirm", "open", "recv", "rename", "done"}

NewSend == [pc |-> "idle", file |-> <<>>, off |-> 0, flag |-> FALSE, quick |-> FALSE,
            res |-> "none", task |-> "none", hist |-> "none"]
NewRecv == [pc |-> "idle", pend |-> "none", path |-> 1, handle |-> NoFile,
            pos |-> 0, left |-> 0, from |-> 0, flag |-> FALSE,
            task |-> "none", hist |-> "none"]

Init ==
    /\ snd = [c \in Conns |-> NewSend]
    /\ rcv = [c \in Conns |-> NewRecv]
    /\ toR = [c \in Conns |-> <<>>]
    /\ toS = [c \in Conns |-> <<>>]
    /\ lost = {}
    /\ src \in Contents /\ edits = 0 /\ moves = 0
    /\ InitDirectory(Inodes)

-----------------------------------------------------------------------------
(* The connection.  What a side wrote before it ended can still be read.   *)

ReceiverGone(c) == c \in lost \/ rcv[c].pc = "done"
SenderGone(c)   == c \in lost \/ snd[c].pc = "done"

TellReceiver(c, m) ==
    toR' = IF ReceiverGone(c) THEN toR ELSE [toR EXCEPT ![c] = Append(@, m)]
TellSender(c, m) ==
    toS' = IF SenderGone(c) THEN toS ELSE [toS EXCEPT ![c] = Append(@, m)]

Gets(q, c, t) == q[c] # <<>> /\ Head(q[c]).type = t
Taken(q, c)   == [q EXCEPT ![c] = Tail(@)]
Dropped(q, c) == [q EXCEPT ![c] = <<>>]

\* The connection breaks, with or without the last thing sent.
WithoutLast(q, c) == [q EXCEPT ![c] = SubSeq(@, 1, Len(@) - 1)]

Lose(c) ==
    /\ c \notin lost /\ Cardinality(lost) < MaxLost
    /\ snd[c].pc \notin {"idle", "done"} \/ rcv[c].pc \notin {"idle", "done"}
    /\ lost' = lost \union {c}
    /\ toR' \in {toR, WithoutLast(toR, c)}
    /\ toS' \in {toS, WithoutLast(toS, c)}
    /\ UNCHANGED <<snd, rcv, srcVars, dirVars>>

-----------------------------------------------------------------------------
(* The sending device.                                                     *)

Quiet(c) == /\ snd[c].pc \in {"idle", "done"}
            /\ snd[c].pc = "done" => rcv[c].pc = "done"

MayStart(c) == /\ snd[c].pc = "idle"
               /\ \A d \in Conns : d < c => snd[d].pc # "idle"
               /\ Overlap \/ \A d \in Conns : Quiet(d)

StartSend(c) ==
    /\ MayStart(c)
    /\ snd' = [snd EXCEPT ![c].pc = "reply", ![c].file = src, ![c].task = "Active"]
    /\ TellReceiver(c, OfferLine)
    /\ UNCHANGED <<rcv, toS, lost, srcVars, dirVars>>

Returned(c, r) == snd' = [snd EXCEPT ![c].pc = "end", ![c].res = r]

\* The answer.  "The peer has the whole file" ends the send at once.
RecvAccept(c) ==
    /\ snd[c].pc = "reply" /\ Gets(toS, c, "accept")
    /\ LET o == Head(toS[c]).off
           size == Len(snd[c].file)
       IN  snd' = IF o >= size
                  THEN [snd EXCEPT ![c].pc = "end", ![c].res = "ok", ![c].quick = TRUE]
                  ELSE [snd EXCEPT ![c].pc = "send", ![c].off = o]
    /\ toS' = Taken(toS, c)
    /\ UNCHANGED <<rcv, toR, lost, srcVars, dirVars>>

RecvReject(c) ==
    /\ snd[c].pc = "reply" /\ Gets(toS, c, "reject")
    /\ Returned(c, IF Head(toS[c]).reason = "cancel" THEN "cancel" ELSE "fail")
    /\ toS' = Taken(toS, c)
    /\ UNCHANGED <<rcv, toR, lost, srcVars, dirVars>>

\* A poll tick of the wait, or the top of the data loop, finds the flag.
SeeCancel(c) ==
    /\ snd[c].flag
    /\ \/ snd[c].pc = "reply"
       \/ snd[c].pc = "send" /\ snd[c].off < Len(snd[c].file)
    /\ Returned(c, "cancel")
    /\ UNCHANGED <<rcv, toR, toS, lost, srcVars, dirVars>>

\* Into the socket, whether or not anybody reads it at the other end.
SendData(c) ==
    /\ snd[c].pc = "send" /\ ~snd[c].flag
    /\ snd[c].off < Len(snd[c].file) /\ snd[c].off < Len(src)
    /\ snd' = [snd EXCEPT ![c].off = @ + 1]
    /\ TellReceiver(c, DataItem(src[snd[c].off + 1]))
    /\ UNCHANGED <<rcv, toS, lost, srcVars, dirVars>>

\* Everything is sent, or the source file got shorter: the hash follows, and
\* that is all the sender waits for.
SendHash(c) ==
    /\ snd[c].pc = "send"
    /\ \/ snd[c].off >= Len(snd[c].file)
       \/ snd[c].off >= Len(src) /\ ~snd[c].flag
    /\ Returned(c, "ok")
    /\ TellReceiver(c, HashItem(snd[c].file))
    /\ UNCHANGED <<rcv, toS, lost, srcVars, dirVars>>

\* The peer has closed the stream or reset it.  The wait for the answer has no
\* timeout of its own.
SendFails(c) ==
    /\ snd[c].pc \in {"reply", "send"} /\ ReceiverGone(c)
    /\ snd[c].pc = "reply" => toS[c] = <<>>
    /\ Returned(c, "fail")
    /\ UNCHANGED <<rcv, toR, toS, lost, srcVars, dirVars>>

\* run_send after send_file: a paused task stays as it is, any other one is
\* finished.  The connection is dropped with the coroutine.
SendEnds(c, task, hist) ==
    /\ snd' = [snd EXCEPT ![c] = [NewSend EXCEPT !.pc = "done", !.file = snd[c].file,
                                                 !.quick = snd[c].quick,
                                                 !.task = task, !.hist = hist]]
    /\ toS' = Dropped(toS, c)

FinishSend(c) ==
    /\ snd[c].pc = "end"
    /\ IF snd[c].task \in {"Paused", "Removed"}
       THEN SendEnds(c, snd[c].task, "none")
       ELSE SendEnds(c, Outcome(snd[c].res), Outcome(snd[c].res))
    /\ UNCHANGED <<rcv, toR, lost, srcVars, dirVars>>

SenderStep(c) ==
    \/ RecvAccept(c) \/ RecvReject(c) \/ SeeCancel(c) \/ SendData(c)
    \/ SendHash(c)   \/ SendFails(c)  \/ FinishSend(c)

\* A user pauses, cancels, rejects or removes.
Intervene(move) ==
    /\ move \in Moves /\ moves < MaxMoves /\ moves' = moves + 1
    /\ UNCHANGED <<lost, src, edits, dirVars>>

\* file_pause and file_cancel on the sending side, file_remove_task.
Stop(c, move, st) ==
    /\ Intervene(move)
    /\ snd[c].task = "Active"
    /\ snd' = [snd EXCEPT ![c].task = st, ![c].flag = TRUE]
    /\ UNCHANGED <<rcv, toR, toS>>

PauseSend(c)  == Stop(c, "pause", "Paused")
CancelSend(c) == Stop(c, "cancelSend", "Cancelled")

RemoveSend(c) ==
    /\ Intervene("remove")
    /\ snd[c].pc # "done" /\ snd[c].task \in {"Paused", "Cancelled"}
    /\ snd' = [snd EXCEPT ![c].task = "Removed"]
    /\ UNCHANGED <<rcv, toR, toS>>

\* Somebody saves another content under the source file's name.
EditSource ==
    /\ edits < MaxEdits
    /\ src' \in Contents \ {src}
    /\ edits' = edits + 1
    /\ UNCHANGED <<snd, rcv, toR, toS, lost, moves, dirVars>>

-----------------------------------------------------------------------------
(* The receiving device.                                                   *)

GotOffer(c) == rcv[c].pc = "idle" /\ Gets(toR, c, "offer")

RecvEnds(c, task, hist) ==
    /\ rcv' = [rcv EXCEPT ![c] = [NewRecv EXCEPT !.pc = "done", !.task = task,
                                                 !.hist = hist]]
    /\ toR' = Dropped(toR, c)

Kept(c, st)     == IF rcv[c].task = "Removed" THEN "Removed" ELSE st
Recorded(c, st) == IF rcv[c].task = "Removed" THEN "none" ELSE st

OfferFiltered(c) ==
    /\ GotOffer(c)
    /\ RecvEnds(c, "none", "none")
    /\ TellSender(c, RejectLine("refused"))
    /\ UNCHANGED <<snd, lost, srcVars, dirVars>>

OfferDuplicate(c) ==
    /\ GotOffer(c) /\ Duplicate(snd[c].file)
    /\ RecvEnds(c, "Completed", "Completed")
    /\ TellSender(c, AcceptLine(Len(snd[c].file)))
    /\ UNCHANGED <<snd, lost, srcVars, dirVars>>

OfferPlanned(c) ==
    /\ GotOffer(c) /\ ~Duplicate(snd[c].file) /\ FreeFrom(1) # {}
    /\ LET p == ResolveSavePath(1)
           o == ResumeOffset(p, snd[c].file)
       IN  /\ partial' = AfterValidate(p, snd[c].file)
           /\ rcv' = [rcv EXCEPT ![c].pc = IF AutoAccept THEN "open" ELSE "confirm",
                                 ![c].pend = IF AutoAccept THEN "none" ELSE "wait",
                                 ![c].path = p, ![c].task = "Active"]
           /\ IF AutoAccept THEN TellSender(c, AcceptLine(o)) ELSE UNCHANGED toS
    /\ toR' = Taken(toR, c)
    /\ UNCHANGED <<snd, lost, srcVars, data, final>>

\* The stream ends, or 30 s pass, before the offer line is there.
OfferLost(c) ==
    /\ rcv[c].pc = "idle" /\ snd[c].pc # "idle"
    /\ RecvEnds(c, "none", "none")
    /\ UNCHANGED <<snd, toS, lost, srcVars, dirVars>>

UserAccept(c) ==
    /\ rcv[c].pend = "wait"
    /\ \E p \in {1, rcv[c].path} :
          rcv' = [rcv EXCEPT ![c].pend = "accept", ![c].path = p]
    /\ UNCHANGED <<snd, toR, toS, lost, srcVars, dirVars>>

UserReject(c) ==
    /\ Intervene("reject")
    /\ rcv[c].pend = "wait"
    /\ \E r \in {"refused", "cancel"} : rcv' = [rcv EXCEPT ![c].pend = r]
    /\ UNCHANGED <<snd, toR, toS>>

Accepted(c) ==
    /\ rcv[c].pc = "confirm" /\ rcv[c].pend = "accept" /\ FreeFrom(rcv[c].path) # {}
    /\ LET p == ResolveConflict(rcv[c].path, snd[c].file)
       IN  /\ partial' = AfterValidate(p, snd[c].file)
           /\ rcv' = [rcv EXCEPT ![c].pc = "open", ![c].pend = "none", ![c].path = p]
           /\ TellSender(c, AcceptLine(ResumeOffset(p, snd[c].file)))
    /\ UNCHANGED <<snd, toR, lost, srcVars, data, final>>

\* A refusal, a cancellation before the answer, or 30 s without one.
Refused(c) ==
    /\ rcv[c].pc = "confirm" /\ rcv[c].pend \in {"wait", "refused", "cancel"}
    /\ RecvEnds(c, Kept(c, "Rejected"), "none")
    /\ TellSender(c, RejectLine(IF rcv[c].pend = "cancel" THEN "cancel" ELSE "refused"))
    /\ UNCHANGED <<snd, lost, srcVars, dirVars>>

\* receive_tcp up to its loop.  The offset says how much is still to come; the
\* file is opened, and its cursor stays at the beginning.
OpenPartial(c) ==
    /\ rcv[c].pc = "open"
    /\ LET p == rcv[c].path
           f == snd[c].file
           o == ResumeOffset(p, f)
           i == IF AfterValidate(p, f)[p] = NoFile THEN c ELSE partial[p]
       IN  /\ rcv' = [rcv EXCEPT ![c].pc = "recv", ![c].handle = i, ![c].from = o,
                                 ![c].left = Len(f) - o, ![c].task = Kept(c, "Active")]
           /\ partial' = [partial EXCEPT ![p] = i]
    /\ UNCHANGED <<snd, toR, toS, lost, srcVars, data, final>>

\* The bytes that are read are written where the cursor stands.  The trailing
\* hash is as good as any bytes while some are still expected.
Reading(c) == rcv[c].pc = "recv" /\ rcv[c].left > 0 /\ ~rcv[c].flag

\* Wrong: every block is written at the beginning of the file.
WrongRecvData(c) ==
    /\ Reading(c) /\ toR[c] # <<>> /\ Head(toR[c]).type = "data"
    /\ data' = [data EXCEPT ![rcv[c].handle] = WriteAt(@, 0, Head(toR[c]).blk)]
    /\ rcv' = [rcv EXCEPT ![c].left = @ - 1]
    /\ toR' = Taken(toR, c)
    /\ UNCHANGED <<snd, toS, lost, srcVars, partial, final>>

RecvData(c) ==
    /\ Reading(c) /\ toR[c] # <<>>
    /\ LET m == Head(toR[c])
           w == IF m.type = "data" THEN m.blk ELSE Hole
       IN  data' = [data EXCEPT ![rcv[c].handle] = WriteAt(@, rcv[c].pos, w)]
    /\ rcv' = [rcv EXCEPT ![c].pos = @ + 1, ![c].left = @ - 1]
    /\ toR' = Taken(toR, c)
    /\ UNCHANGED <<snd, toS, lost, srcVars, partial, final>>

RecvError(c, kind) ==
    /\ RecvEnds(c, Kept(c, ErrorStatus(kind)), Recorded(c, ErrorRecord(kind)))
    /\ CleanUp(rcv[c].path, kind)
    /\ UNCHANGED <<snd, toS, lost, srcVars, data, final>>

RecvSeesCancel(c) ==
    /\ rcv[c].pc = "recv" /\ rcv[c].left > 0 /\ rcv[c].flag
    /\ RecvError(c, "cancel")

\* Wrong: reading the hash does not notice the end of the stream.
WrongRecvBroken(c) ==
    /\ rcv[c].pc = "recv" /\ toR[c] = <<>> /\ SenderGone(c)
    /\ rcv[c].left > 0 /\ ~rcv[c].flag
    /\ RecvError(c, "broken")

\* The stream ends before the last byte, or before the hash.
RecvBroken(c) ==
    /\ rcv[c].pc = "recv" /\ toR[c] = <<>> /\ SenderGone(c)
    /\ rcv[c].left > 0 => ~rcv[c].flag
    /\ RecvError(c, "broken")

\* Nothing more is expected: the hash is read and compared with the file that
\* has the partial name.
AtTail(c) == rcv[c].pc = "recv" /\ rcv[c].left = 0 /\ toR[c] # <<>>
HashOf(c) == data[partial[rcv[c].path]]
Matches(c) == Gets(toR, c, "hash") /\ Head(toR[c]).file = HashOf(c)

\* Wrong: the hash is not compared.
WrongHashOK(c) ==
    /\ AtTail(c) /\ partial[rcv[c].path] # NoFile
    /\ rcv' = [rcv EXCEPT ![c].pc = "rename"]
    /\ toR' = Taken(toR, c)
    /\ UNCHANGED <<snd, toS, lost, srcVars, dirVars>>

HashOK(c) ==
    /\ AtTail(c) /\ partial[rcv[c].path] # NoFile /\ Matches(c)
    /\ rcv' = [rcv EXCEPT ![c].pc = "rename"]
    /\ toR' = Taken(toR, c)
    /\ UNCHANGED <<snd, toS, lost, srcVars, dirVars>>

HashDiffers(c) ==
    /\ AtTail(c) /\ partial[rcv[c].path] # NoFile /\ ~Matches(c)
    /\ RecvError(c, "verify")

HashFails(c) ==
    /\ AtTail(c) /\ Unreadable(rcv[c].path)
    /\ RecvError(c, "gone")

Finalize(c) ==
    /\ rcv[c].pc = "rename" /\ FinalizeFile(rcv[c].path)
    /\ RecvEnds(c, Kept(c, "Completed"), Recorded(c, "Completed"))
    /\ UNCHANGED <<snd, toS, lost, srcVars, data>>

FinalizeFails(c) ==
    /\ rcv[c].pc = "rename" /\ FinalizeLost(rcv[c].path)
    /\ RecvEnds(c, Kept(c, "Failed"), Recorded(c, "Failed"))
    /\ UNCHANGED <<snd, toS, lost, srcVars, data>>

ReceiverStep(c) ==
    \/ OfferFiltered(c)  \/ OfferDuplicate(c) \/ OfferPlanned(c) \/ OfferLost(c)
    \/ Accepted(c)       \/ Refused(c)        \/ OpenPartial(c)  \/ RecvData(c)
    \/ RecvSeesCancel(c) \/ RecvBroken(c)     \/ HashOK(c)       \/ HashDiffers(c)
    \/ HashFails(c)      \/ Finalize(c)       \/ FinalizeFails(c)

CancelRecv(c) ==
    /\ Intervene("cancelRecv")
    /\ rcv[c].pc # "done" /\ rcv[c].task = "Active"
    /\ rcv' = [rcv EXCEPT ![c].flag = rcv[c].pc \in {"recv", "rename"},
                          ![c].pend = IF @ = "wait" THEN "cancel" ELSE @,
                          ![c].task = "Cancelled"]
    /\ UNCHANGED <<snd, toR, toS>>

RemoveRecv(c) ==
    /\ Intervene("removeRecv")
    /\ rcv[c].pc # "done" /\ rcv[c].task = "Cancelled"
    /\ rcv' = [rcv EXCEPT ![c].task = "Removed"]
    /\ UNCHANGED <<snd, toR, toS>>

-----------------------------------------------------------------------------
UserStep(c) ==
    \/ StartSend(c)  \/ PauseSend(c)  \/ CancelSend(c) \/ RemoveSend(c)
    \/ UserAccept(c) \/ UserReject(c) \/ CancelRecv(c) \/ RemoveRecv(c)

Next ==
    \/ EditSource
    \/ \E c \in Conns : UserStep(c) \/ SenderStep(c) \/ ReceiverStep(c) \/ Lose(c)

Spec == Init /\ [][Next]_vars

\* As in the QUIC channel: coroutines are polled; users and the network
\* promise nothing.
Fairness == \A c \in Conns : WF_vars(SenderStep(c)) /\ WF_vars(ReceiverStep(c))

FairSpec == Spec /\ Fairness

-----------------------------------------------------------------------------
(* Properties.                                                             *)

\* Every variable keeps its type; cursors stay natural, names refer to inodes.
SendRec == [pc : SendPC, file : Contents \union {<<>>}, off : Nat, flag : BOOLEAN,
            quick : BOOLEAN, res : Results, task : Status, hist : Status]
RecvRec == [pc : RecvPC, pend : {"none", "wait", "accept", "refused", "cancel"},
            path : Paths, handle : Inodes \union {NoFile}, pos : Nat, left : Nat,
            from : Nat, flag : BOOLEAN, task : Status, hist : Status]

TypeOK ==
    /\ snd \in [Conns -> SendRec]
    /\ rcv \in [Conns -> RecvRec]
    /\ toR \in [Conns -> Seq(ToReceiver)]
    /\ toS \in [Conns -> Seq(ToSender)]
    /\ lost \in SUBSET Conns
    /\ src \in Contents /\ edits \in 0..MaxEdits /\ moves \in 0..MaxMoves
    /\ data \in [Inodes -> Disk]
    /\ partial \in [Paths -> Inodes \union {NoFile}]
    /\ final \in [Paths -> Inodes \union {NoFile}]

\* A receive that starts from nothing passes verification, whatever longer or
\* shorter partial file an earlier attempt left, unless the source changed
\* meanwhile.  (With MaxEdits <= 1 a source that equals what was offered did
\* not change since.)
AtVerdict(c) == AtTail(c) /\ src = snd[c].file
FreshReceiveMatches ==
    \A c \in Conns :
        AtVerdict(c) /\ rcv[c].from = 0 => partial[rcv[c].path] # NoFile /\ Matches(c)

\* The same of a receive that continues a partial file ("continue and resend
\* resume from the break point").
ResumeMatches ==
    \A c \in Conns :
        AtVerdict(c) /\ rcv[c].from > 0 => partial[rcv[c].path] # NoFile /\ Matches(c)

\* A pause that was carried out leaves no failure record on the receiver while
\* the connection holds ("shown as paused on the receiving side, without a
\* superfluous failure record").
PauseLeavesNoFailure ==
    \A c \in Conns :
        (snd[c].task = "Paused" /\ snd[c].pc = "done" /\ c \notin lost)
            => rcv[c].hist # "Failed"

\* A send that was skipped because the receiver has the file already is true to
\* its word ("the peer already has the complete file").
QuickSentMeansThere ==
    \A c \in Conns : snd[c].quick => Saved(snd[c].file)

\* No attempt stays half way: once started, both coroutines end.
AttemptsEnd ==
    \A c \in Conns :
        snd[c].pc # "idle" ~> (snd[c].pc = "done" /\ rcv[c].pc = "done")
=============================================================================
