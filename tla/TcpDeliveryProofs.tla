------------------------- MODULE TcpDeliveryProofs --------------------------
(***************************************************************************)
(* What holds of the TCP channel for any number of attempts, any contents  *)
(* and any bounds: its type correctness, that it implements FileDelivery,  *)
(* and that a receive that starts from nothing passes verification.        *)
(*                                                                         *)
(* Three layers of invariant above the types: what one attempt at a time   *)
(* means for the partial files (OneAttempt), what the plain save names add *)
(* (PlainNames), and how the bytes on their way belong to the file that    *)
(* was offered (Stream).                                                   *)
(***************************************************************************)
EXTENDS TcpDelivery, SequenceTheorems, WellFoundedInduction, NaturalsInduction, TLAPS

-----------------------------------------------------------------------------
(* Lemmas about the save directory: what its operators return, for any     *)
(* contents and any number of names.                                       *)

\* Writing a block keeps the disk a sequence of blocks, with Hole in gaps.
LEMMA WriteAtType ==
    ASSUME NEW s \in Disk, NEW o \in Nat, NEW b \in Blocks \union {Hole}
    PROVE  WriteAt(s, o, b) \in Disk
<1> DEFINE n == IF o < Len(s) THEN Len(s) ELSE o + 1
           e(k) == IF k = o + 1 THEN b ELSE IF k <= Len(s) THEN s[k] ELSE Hole
<1>1. n \in Nat
  BY LenProperties DEF Disk
<1>2. \A k \in 1..n : e(k) \in Blocks \union {Hole}
  BY LenProperties, ElementOfSeq DEF Disk
<1>3. WriteAt(s, o, b) = [k \in 1..n |-> e(k)]
  BY DEF WriteAt
<1>4. [k \in 1..n |-> e(k)] \in [1..n -> Blocks \union {Hole}]
  BY <1>2
<1> QED
  BY <1>1, <1>3, <1>4, SeqDef DEF Disk

\* A block written at the end of what is there makes it one block longer.
LEMMA WriteAtEnd ==
    ASSUME NEW s \in Disk, NEW b
    PROVE  /\ Len(WriteAt(s, Len(s), b)) = Len(s) + 1
           /\ WriteAt(s, Len(s), b)[Len(s) + 1] = b
           /\ \A k \in 1..Len(s) : WriteAt(s, Len(s), b)[k] = s[k]
<1>1. Len(s) \in Nat
  BY LenProperties DEF Disk
<1>2. WriteAt(s, Len(s), b) =
        [k \in 1..(Len(s) + 1) |-> IF k = Len(s) + 1 THEN b ELSE IF k <= Len(s) THEN s[k] ELSE Hole]
  BY <1>1 DEF WriteAt
<1> QED
  BY <1>1, <1>2

\* resolve_save_path returns a free name when there is one.
LEMMA SavePathIsFree ==
    ASSUME DirectoryOK, NEW p \in Paths, FreeFrom(p) # {}
    PROVE  ResolveSavePath(p) \in Paths /\ Free(ResolveSavePath(p))
<1> DEFINE T == FreeFrom(p)
<1>1. T \subseteq Paths /\ T \subseteq Nat /\ \A q \in T : Free(q)
  BY DEF FreeFrom, Paths, DirectoryOK
<1>2. PICK m \in T : \A k \in T : <<k, m>> \notin OpToRel(<, Nat)
  BY <1>1, WFMin, NatLessThanWellFounded, Zenon
<1>3. \A k \in T : ~(k < m)
  BY <1>1, <1>2, Zenon DEF OpToRel
<1>4. m \in T /\ \A k \in T : m <= k
  BY <1>1, <1>3
<1> QED
  BY <1>1, <1>4 DEF ResolveSavePath

\* resolve_conflict returns a name of the directory.
LEMMA ResolveConflictType ==
    ASSUME DirectoryOK, NEW p \in Paths, NEW f, FreeFrom(p) # {}
    PROVE  ResolveConflict(p, f) \in Paths
BY SavePathIsFree DEF ResolveConflict

-----------------------------------------------------------------------------
(* The invariants.                                                         *)

\* One attempt runs, the others have not begun or are over; one that has not begun
\* has no receiver.  Only a receiver that waits for its user has a question open,
\* and only one that ended has written a record.
Alone     == \A c, d \in Conns : ~Quiet(c) /\ ~Quiet(d) => c = d
Unstarted == \A c \in Conns : snd[c].pc = "idle" => rcv[c].pc = "idle" /\ toR[c] = <<>>
Offered   == \A c \in Conns : snd[c].pc # "idle" => snd[c].file \in Contents
Asked     == \A c \in Conns : rcv[c].pc # "confirm" => rcv[c].pend = "none"
Unended   == \A c \in Conns : rcv[c].pc # "done" => rcv[c].hist = "none"

\* A receive that writes or renames still finds its own file under the partial name.
Writing(c) == rcv[c].pc \in {"recv", "rename"}

HoldsPartial ==
    \A c \in Conns : Writing(c) =>
        rcv[c].handle # NoFile /\ partial[rcv[c].path] = rcv[c].handle

\* The file an attempt may create is not there before; a partial file has one name.
Fresh ==
    \A c \in Conns : rcv[c].pc \in {"idle", "confirm", "open"} =>
        data[c] = <<>> /\ \A p \in Paths : c \notin {partial[p], final[p]}

OneName ==
    \A p, q \in Paths : partial[p] # NoFile =>
        partial[p] # final[q] /\ (p # q => partial[p] # partial[q])

\* The hash on its way is the one of the offered file, so what is about to be
\* renamed is what was offered.
TrueHash ==
    \A c \in Conns : \A k \in 1..Len(toR[c]) :
        toR[c][k].type = "hash" => toR[c][k].file = snd[c].file

Verified ==
    \A c \in Conns : rcv[c].pc = "rename" =>
        partial[rcv[c].path] # NoFile /\ data[partial[rcv[c].path]] = snd[c].file

OneAttempt == /\ Alone /\ Unstarted /\ Offered /\ Asked /\ Unended
              /\ HoldsPartial /\ Fresh /\ OneName /\ TrueHash /\ Verified

\* The name a receive was given stays free until its rename; one whose user still
\* decides may fall back to the plain name, which then holds no duplicate.
PathFree ==
    \A c \in Conns :
        /\ rcv[c].pc = "confirm" => /\ ~Duplicate(snd[c].file)
                                    /\ rcv[c].path = 1 \/ Free(rcv[c].path)
        /\ rcv[c].pc = "open" \/ Writing(c) => Free(rcv[c].path)

\* No partial file stands beside a final one, final files are whole, and what is
\* recorded as received is there.
NothingPartial == \A p \in Paths : partial[p] # NoFile => Free(p)
FinalWhole     == \A p \in Paths : ~Free(p) => data[final[p]] \in Contents
RecordedKept   == \A c \in Conns : rcv[c].hist = "Completed" => Saved(snd[c].file)

PlainNames == PathFree /\ NothingPartial /\ FinalWhole /\ RecordedKept

\* Until the source is edited, everything that was offered is what it holds; the
\* rest is about an attempt whose offer is still what the source holds.
Unedited == edits = 0 => \A c \in Conns : snd[c].pc # "idle" => snd[c].file = src
Same(c)  == snd[c].pc # "idle" /\ snd[c].file = src

\* How much of the file lies before what is on its way.
Base(c) == IF rcv[c].pc = "open" THEN ResumeOffset(rcv[c].path, snd[c].file)
           ELSE Len(snd[c].file) - rcv[c].left

\* Before its answer a receiver has been sent the offer and nothing else, and has
\* neither answered nor read.
Waiting(c) ==
    /\ rcv[c].pc \in {"idle", "confirm"} => toS[c] = <<>> /\ snd[c].pc # "send"
    /\ rcv[c].pc = "idle" => toR[c] \in {<<>>, <<OfferLine>>}
    /\ rcv[c].pc = "confirm" => toR[c] = <<>>
    /\ rcv[c].pc \in {"idle", "confirm", "open"} => rcv[c].pos = 0
    /\ rcv[c].pc = "recv" => rcv[c].left <= Len(snd[c].file)

\* The cursor of the sender is as far ahead as there are blocks on their way.
Level(c) ==
    /\ snd[c].pc = "send" => snd[c].off <= Len(snd[c].file)
    /\ c \notin lost /\ rcv[c].pc \in {"open", "recv"} =>
          /\ snd[c].pc = "reply" =>
                toR[c] = <<>> /\ (toS[c] # <<>> => Head(toS[c]) = AcceptLine(Base(c)))
          /\ snd[c].pc = "send" => snd[c].off = Base(c) + Len(toR[c])

\* The k-th item after the first n blocks of a file is its next block, and after
\* the last block its hash.
Right(f, n, k, m) ==
    \/ m.type = "data" /\ n + k <= Len(f) /\ m.blk = f[n + k]
    \/ m = HashItem(f) /\ n + k = Len(f) + 1

InOrder(c) ==
    rcv[c].pc \in {"open", "recv"} /\ Same(c) =>
        \A k \in 1..Len(toR[c]) : Right(snd[c].file, Base(c), k, toR[c][k])

\* What a receive that started from nothing has written is the beginning of the file.
Prefix(c) ==
    rcv[c].pc = "recv" /\ rcv[c].from = 0 /\ Same(c) =>
        /\ rcv[c].pos = Base(c) /\ Len(data[rcv[c].handle]) = Base(c)
        /\ \A k \in 1..Base(c) : data[rcv[c].handle][k] = snd[c].file[k]

Flow(c) == Waiting(c) /\ Level(c) /\ InOrder(c) /\ Prefix(c)
Stream  == Unedited /\ \A c \in Conns : Flow(c)

-----------------------------------------------------------------------------
(* Lemmas about the operators the actions are built from.                  *)

\* Taking the first item off a stream of items in S leaves such a stream.
LEMMA TakenType ==
    ASSUME NEW S, NEW q \in [Conns -> Seq(S)], NEW c \in Conns, q[c] # <<>>
    PROVE  /\ Taken(q, c) \in [Conns -> Seq(S)]
           /\ Head(q[c]) \in S
BY HeadTailProperties DEF Taken

\* So does dropping all of it,
LEMMA DroppedType ==
    ASSUME NEW S, NEW q \in [Conns -> Seq(S)], NEW c \in Conns
    PROVE  Dropped(q, c) \in [Conns -> Seq(S)]
BY EmptySeq DEF Dropped

\* losing the last item,
LEMMA WithoutLastType ==
    ASSUME NEW S, NEW q \in [Conns -> Seq(S)], NEW c \in Conns
    PROVE  WithoutLast(q, c) \in [Conns -> Seq(S)]
<1>1. Len(q[c]) \in Nat /\ \A i \in 1..(Len(q[c]) - 1) : q[c][i] \in S
  BY LenProperties, ElementOfSeq
<1>2. SubSeq(q[c], 1, Len(q[c]) - 1) \in Seq(S)
  BY <1>1, SubSeqProperties
<1> QED
  BY <1>2 DEF WithoutLast

\* and sending one more.
LEMMA AppendType ==
    ASSUME NEW S, NEW q \in [Conns -> Seq(S)], NEW c \in Conns, NEW m \in S
    PROVE  [q EXCEPT ![c] = Append(@, m)] \in [Conns -> Seq(S)]
<1>1. Append(q[c], m) \in Seq(S)
  BY AppendProperties
<1> QED
  BY <1>1

\* Lines and items have the type of their direction.
LEMMA MessageTypes ==
    /\ OfferLine \in ToReceiver
    /\ \A b \in Blocks : DataItem(b) \in ToReceiver
    /\ \A f \in Contents : HashItem(f) \in ToReceiver
    /\ \A o \in Nat : AcceptLine(o) \in ToSender
    /\ RejectLine("refused") \in ToSender /\ RejectLine("cancel") \in ToSender
BY DEF OfferLine, DataItem, HashItem, AcceptLine, RejectLine, ToReceiver, ToSender

\* Whether or not the other side is there, its stream keeps its type.
LEMMA TellReceiverType ==
    ASSUME TypeOK, NEW c \in Conns, NEW m \in ToReceiver, TellReceiver(c, m)
    PROVE  toR' \in [Conns -> Seq(ToReceiver)]
BY AppendType DEF TellReceiver, TypeOK

LEMMA TellSenderType ==
    ASSUME TypeOK, NEW c \in Conns, NEW m \in ToSender, TellSender(c, m)
    PROVE  toS' \in [Conns -> Seq(ToSender)]
BY AppendType DEF TellSender, TypeOK

\* Contents are sequences of blocks that may be on the disk.
LEMMA LenType ==
    ASSUME DirectoryOK, TypeOK, NEW c \in Conns
    PROVE  Len(snd[c].file) \in Nat /\ snd[c].file \in Disk
<1>1. Contents \union {<<>>} \subseteq Disk
  BY SeqMonotonic, EmptySeq DEF DirectoryOK, Disk
<1> QED
  BY <1>1, LenProperties DEF TypeOK, SendRec, Disk

\* The statuses that the coroutines write.
LEMMA StatusNames ==
    /\ {"none", "Active", "Paused", "Removed"} \subseteq Status
    /\ {"Completed", "Cancelled", "Failed", "Rejected"} \subseteq Status
    /\ \A kind : ErrorStatus(kind) \in Status /\ ErrorRecord(kind) \in Status
BY DEF Status, Final, ErrorStatus, ErrorRecord

LEMMA StatusType ==
    ASSUME TypeOK, NEW c \in Conns, NEW t \in Status
    PROVE  Kept(c, t) \in Status /\ Recorded(c, t) \in Status
BY DEF Kept, Recorded, Status

\* The record updates of a sender.
LEMMA SndMoves ==
    ASSUME NEW r \in SendRec, NEW k \in SendPC, NEW o \in Nat, NEW s \in Results
    PROVE  /\ [r EXCEPT !.pc = k, !.off = o] \in SendRec
           /\ [r EXCEPT !.off = o] \in SendRec
           /\ [r EXCEPT !.pc = k, !.res = s] \in SendRec
           /\ [r EXCEPT !.pc = k, !.res = s, !.quick = TRUE] \in SendRec
BY DEF SendRec

LEMMA ReturnedType ==
    ASSUME TypeOK, NEW c \in Conns, NEW r \in Results, Returned(c, r)
    PROVE  snd' \in [Conns -> SendRec]
<1>1. [snd[c] EXCEPT !.pc = "end", !.res = r] \in SendRec
  BY SndMoves DEF TypeOK, SendPC
<1> QED
  BY <1>1 DEF TypeOK, Returned

LEMMA SendEndsType ==
    ASSUME TypeOK, NEW c \in Conns, NEW t \in Status, NEW h \in Status, SendEnds(c, t, h)
    PROVE  /\ snd' \in [Conns -> SendRec]
           /\ toS' \in [Conns -> Seq(ToSender)]
<1>1. [NewSend EXCEPT !.pc = "done", !.file = snd[c].file, !.quick = snd[c].quick,
                      !.task = t, !.hist = h] \in SendRec
  BY DEF TypeOK, NewSend, SendRec, SendPC, Results
<1> QED
  BY <1>1, DroppedType DEF TypeOK, SendEnds

\* The record updates of a receiver.
LEMMA RcvPlanned ==
    ASSUME NEW r \in RecvRec, NEW k \in RecvPC, NEW p \in Paths, NEW t \in Status,
           NEW w \in {"none", "wait"}
    PROVE  /\ [r EXCEPT !.pc = k, !.pend = w, !.path = p, !.task = t] \in RecvRec
           /\ [r EXCEPT !.pc = k, !.pend = w, !.path = p] \in RecvRec
           /\ [r EXCEPT !.pc = k] \in RecvRec
BY DEF RecvRec

LEMMA RcvOpened ==
    ASSUME NEW r \in RecvRec, NEW k \in RecvPC, NEW i \in Inodes, NEW o \in Nat, NEW l \in Nat,
           NEW t \in Status
    PROVE  [r EXCEPT !.pc = k, !.handle = i, !.from = o, !.left = l, !.task = t] \in RecvRec
BY DEF RecvRec

LEMMA RcvRead ==
    ASSUME NEW r \in RecvRec, r.left > 0
    PROVE  [r EXCEPT !.pos = r.pos + 1, !.left = r.left - 1] \in RecvRec
<1> DEFINE p == r.pos + 1
           l == r.left - 1
<1>1. p \in Nat /\ l \in Nat
  BY DEF RecvRec
<1> HIDE DEF p, l
<1>2. [r EXCEPT !.pos = p, !.left = l] \in RecvRec
  BY <1>1 DEF RecvRec
<1> QED
  BY <1>2 DEF p, l

LEMMA RecvEndsType ==
    ASSUME TypeOK, NEW c \in Conns, NEW t \in Status, NEW h \in Status, RecvEnds(c, t, h)
    PROVE  /\ rcv' \in [Conns -> RecvRec]
           /\ toR' \in [Conns -> Seq(ToReceiver)]
<1>1. [NewRecv EXCEPT !.pc = "done", !.task = t, !.hist = h] \in RecvRec
  <2>1. 1 \in Paths
    BY DirectoryOK DEF DirectoryOK, Paths
  <2> QED
    BY <2>1 DEF NewRecv, RecvRec, RecvPC
<1> QED
  BY <1>1, DroppedType DEF TypeOK, RecvEnds

\* A receive that ends with an error leaves everything well typed.
LEMMA RecvErrorType ==
    ASSUME TypeOK, NEW c \in Conns, NEW kind, RecvError(c, kind)
    PROVE  TypeOK'
<1>1. /\ rcv' \in [Conns -> RecvRec]
      /\ toR' \in [Conns -> Seq(ToReceiver)]
  BY RecvEndsType, StatusType, StatusNames, Zenon DEF RecvError
<1>2. partial' \in [Paths -> Inodes \union {NoFile}]
  BY DEF RecvError, CleanUp, TypeOK
<1> QED
  BY <1>1, <1>2 DEF RecvError, TypeOK, srcVars

\* The resume offset is how much is there, never more than the file has.
LEMMA ResumeOffsetType ==
    ASSUME DirectoryOK, TypeOK, NEW p \in Paths, NEW c \in Conns
    PROVE  /\ ResumeOffset(p, snd[c].file) \in Nat
           /\ ResumeOffset(p, snd[c].file) <= Len(snd[c].file)
<1>1. partial[p] # NoFile => Len(data[partial[p]]) \in Nat
  BY LenProperties DEF TypeOK, Disk
<1> QED
  BY <1>1, LenType DEF ResumeOffset, TooLong

LEMMA AfterValidateType ==
    ASSUME TypeOK, NEW p \in Paths, NEW f
    PROVE  AfterValidate(p, f) \in [Paths -> Inodes \union {NoFile}]
BY DEF AfterValidate, TypeOK

-----------------------------------------------------------------------------
(* What the steps of each side leave alone.                                *)

\* A coroutine that ends keeps only what it reports.
LEMMA SendEndsWith ==
    ASSUME TypeOK, NEW c \in Conns, NEW t, NEW h, SendEnds(c, t, h)
    PROVE  /\ snd'[c].pc = "done" /\ snd'[c].file = snd[c].file
           /\ toS'[c] = <<>>
BY DEF TypeOK, SendEnds, NewSend, Dropped

\* The same of a receiver that ends: its stream is discarded with it.
LEMMA RecvEndsWith ==
    ASSUME TypeOK, NEW c \in Conns, NEW t, NEW h, RecvEnds(c, t, h)
    PROVE  /\ rcv'[c].pc = "done" /\ rcv'[c].pend = "none" /\ rcv'[c].hist = h
           /\ toR'[c] = <<>>
BY DEF TypeOK, RecvEnds, NewRecv, Dropped

\* A step of a sender: its coroutine has begun and not ended, nothing else is
\* touched but what is on its way.
LEMMA SenderFrame ==
    ASSUME TypeOK, NEW c \in Conns, SenderStep(c)
    PROVE  /\ snd[c].pc \notin {"idle", "done"} /\ snd'[c].pc # "idle"
           /\ snd'[c].file = snd[c].file
           /\ UNCHANGED <<rcv, lost, srcVars, dirVars>>
<1>1. CASE RecvAccept(c)
  BY <1>1 DEF RecvAccept, SendRec, TypeOK
<1>2. CASE RecvReject(c) \/ SeeCancel(c) \/ SendData(c) \/ SendHash(c) \/ SendFails(c)
  BY <1>2 DEF RecvReject, SeeCancel, SendData, SendHash, SendFails, SendRec, TypeOK, Returned
<1>3. CASE FinishSend(c)
  BY <1>3, SendEndsWith DEF FinishSend
<1> QED
  BY <1>1, <1>2, <1>3 DEF SenderStep

\* A step of a receiver: its coroutine has not ended, and has something to do
\* only when the sender has begun.
LEMMA ReceiverFrame ==
    ASSUME TypeOK, Unstarted, NEW c \in Conns, ReceiverStep(c)
    PROVE  /\ snd[c].pc # "idle" /\ rcv[c].pc # "done" /\ rcv'[c].pc # "idle"
           /\ UNCHANGED <<snd, lost, srcVars>>
<1>0. snd[c].pc # "idle" \/ (rcv[c].pc = "idle" /\ toR[c] = <<>>)
  BY DEF Unstarted
<1>1. CASE OfferFiltered(c) \/ OfferDuplicate(c) \/ OfferLost(c) \/ Refused(c)
  BY <1>0, <1>1, RecvEndsWith DEF OfferFiltered, OfferDuplicate, OfferLost, GotOffer,
                                  Gets, Refused
<1>2. CASE OfferPlanned(c)
  <2>1. rcv'[c].pc \in {"open", "confirm"}
    BY <1>2 DEF OfferPlanned, TypeOK, RecvRec
  <2> QED
    BY <1>0, <1>2, <2>1 DEF OfferPlanned, GotOffer, Gets
<1>3. CASE Accepted(c)
  BY <1>0, <1>3 DEF Accepted, RecvRec, TypeOK
<1>4. CASE OpenPartial(c)
  BY <1>0, <1>4 DEF OpenPartial, RecvRec, TypeOK
<1>5. CASE RecvData(c)
  BY <1>0, <1>5 DEF RecvData, Reading, RecvRec, TypeOK
<1>6. CASE RecvSeesCancel(c) \/ RecvBroken(c) \/ HashDiffers(c) \/ HashFails(c)
  BY <1>0, <1>6, RecvEndsWith DEF RecvSeesCancel, RecvBroken, HashDiffers, HashFails,
                                  RecvError, AtTail
<1>7. CASE HashOK(c)
  BY <1>0, <1>7 DEF HashOK, AtTail, RecvRec, TypeOK
<1>8. CASE Finalize(c) \/ FinalizeFails(c)
  BY <1>0, <1>8, RecvEndsWith DEF Finalize, FinalizeFails
<1> QED
  BY <1>1, <1>2, <1>3, <1>4, <1>5, <1>6, <1>7, <1>8 DEF ReceiverStep

\* The moves of the users and of the network: no coroutine moves, a decision
\* changes the path of a receive that waits for it, the directory stays.
OutsideStep(c) == PauseSend(c) \/ CancelSend(c) \/ RemoveSend(c) \/ UserAccept(c)
                    \/ UserReject(c) \/ CancelRecv(c) \/ RemoveRecv(c) \/ Lose(c)

\* What such a move may change of its attempt.
LEMMA OutsideFrame ==
    ASSUME TypeOK, Asked, NEW c \in Conns, OutsideStep(c)
    PROVE  /\ snd'[c].pc = snd[c].pc /\ snd'[c].file = snd[c].file
           /\ snd'[c].off = snd[c].off
           /\ rcv'[c].pc = rcv[c].pc /\ rcv'[c].handle = rcv[c].handle
           /\ rcv'[c].pos = rcv[c].pos /\ rcv'[c].left = rcv[c].left
           /\ rcv'[c].from = rcv[c].from /\ rcv'[c].hist = rcv[c].hist
           /\ rcv'[c].pend = rcv[c].pend \/ rcv[c].pc = "confirm"
           /\ \/ rcv'[c].path = rcv[c].path
              \/ rcv[c].pc = "confirm" /\ rcv'[c].path = 1
           /\ UNCHANGED <<src, edits, dirVars>>
           /\ \/ UNCHANGED <<toR, toS, lost>>
              \/ Lose(c) /\ UNCHANGED <<snd, rcv>>
<1> USE DEF srcVars, dirVars, Intervene
<1>1. CASE PauseSend(c) \/ CancelSend(c)
  BY <1>1 DEF PauseSend, CancelSend, Stop, SendRec, TypeOK
<1>2. CASE RemoveSend(c)
  BY <1>2 DEF RemoveSend, SendRec, TypeOK
<1>3. CASE UserAccept(c)
  BY <1>3 DEF UserAccept, RecvRec, Asked, TypeOK
<1>4. CASE UserReject(c)
  BY <1>4 DEF UserReject, RecvRec, Asked, TypeOK
<1>5. CASE CancelRecv(c)
  BY <1>5 DEF CancelRecv, RecvRec, Asked, TypeOK
<1>6. CASE RemoveRecv(c)
  BY <1>6 DEF RemoveRecv, RecvRec, Asked, TypeOK
<1>7. CASE Lose(c)
  BY <1>7 DEF Lose
<1> QED
  BY <1>1, <1>2, <1>3, <1>4, <1>5, <1>6, <1>7 DEF OutsideStep

\* Every step of an attempt leaves the others alone.
SameView(d) ==
    /\ snd'[d] = snd[d] /\ rcv'[d] = rcv[d] /\ toR'[d] = toR[d] /\ toS'[d] = toS[d]
    /\ (d \in lost') = (d \in lost)

LEMMA OthersUnseen ==
    ASSUME TypeOK, NEW c \in Conns, NEW d \in Conns, d # c,
           UserStep(c) \/ SenderStep(c) \/ ReceiverStep(c) \/ Lose(c)
    PROVE  SameView(d)
<1> USE DEF TypeOK, SameView, srcVars, dirVars
<1>1. CASE UserStep(c)
  BY <1>1 DEF UserStep, StartSend, PauseSend, CancelSend, Stop, RemoveSend, UserAccept,
              UserReject, CancelRecv, RemoveRecv, Intervene, TellReceiver
<1>2. CASE SenderStep(c)
  BY <1>2 DEF SenderStep, RecvAccept, RecvReject, SeeCancel, SendData, SendHash, SendFails,
              FinishSend, SendEnds, Returned, TellReceiver, Taken, Dropped
<1>3. CASE ReceiverStep(c)
  <2>1. CASE OfferFiltered(c) \/ OfferDuplicate(c) \/ OfferPlanned(c) \/ OfferLost(c)
    BY <2>1 DEF OfferFiltered, OfferDuplicate, OfferPlanned, OfferLost, RecvEnds,
                TellSender, Taken, Dropped
  <2>2. CASE Accepted(c) \/ Refused(c) \/ OpenPartial(c)
    BY <2>2 DEF Accepted, Refused, OpenPartial, RecvEnds, TellSender, Dropped
  <2>3. CASE RecvData(c) \/ HashOK(c)
    BY <2>3 DEF RecvData, HashOK, Taken
  <2>4. CASE RecvSeesCancel(c) \/ RecvBroken(c) \/ HashDiffers(c) \/ HashFails(c)
    BY <2>4 DEF RecvSeesCancel, RecvBroken, HashDiffers, HashFails, RecvError, RecvEnds, Dropped
  <2>5. CASE Finalize(c) \/ FinalizeFails(c)
    BY <2>5 DEF Finalize, FinalizeFails, RecvEnds, Dropped
  <2> QED
    BY <1>3, <2>1, <2>2, <2>3, <2>4, <2>5 DEF ReceiverStep
<1>4. CASE Lose(c)
  BY <1>4 DEF Lose, WithoutLast
<1> QED
  BY <1>1, <1>2, <1>3, <1>4

\* What is offered is a content of the source, and stays what it was.
LEMMA OfferedStays ==
    ASSUME TypeOK, Offered, NEW c \in Conns,
           UserStep(c) \/ SenderStep(c) \/ ReceiverStep(c) \/ Lose(c)
    PROVE  Offered'
<1>1. \A d \in Conns : d # c => snd'[d] = snd[d]
  BY OthersUnseen DEF SameView
<1>2. snd'[c].pc # "idle" => snd'[c].file \in Contents
  <2>1. CASE SenderStep(c)
    BY <2>1, SenderFrame DEF Offered
  <2>2. CASE StartSend(c)
    BY <2>2 DEF StartSend, TypeOK, SendRec
  <2>3. CASE PauseSend(c) \/ CancelSend(c) \/ RemoveSend(c)
    <3>1. snd'[c].pc = snd[c].pc /\ snd'[c].file = snd[c].file
      BY <2>3 DEF PauseSend, CancelSend, Stop, RemoveSend, TypeOK, SendRec
    <3> QED
      BY <3>1 DEF Offered
  <2>4. CASE snd' = snd
    BY <2>4 DEF Offered
  <2>5. UserAccept(c) \/ UserReject(c) \/ CancelRecv(c) \/ RemoveRecv(c) \/ Lose(c) => snd' = snd
    BY DEF UserAccept, UserReject, CancelRecv, RemoveRecv, Lose
  <2>6. ReceiverStep(c) => snd' = snd
    BY DEF ReceiverStep, OfferFiltered, OfferDuplicate, OfferPlanned, OfferLost, Accepted,
           Refused, OpenPartial, RecvData, RecvSeesCancel, RecvBroken, HashOK, HashDiffers,
           HashFails, RecvError, Finalize, FinalizeFails
  <2> QED
    BY <2>1, <2>2, <2>3, <2>4, <2>5, <2>6 DEF UserStep
<1> QED
  BY <1>1, <1>2 DEF Offered

-----------------------------------------------------------------------------
(* Type correctness.                                                       *)

LEMMA InitType == DirectoryOK /\ ConstantsOK /\ Init => TypeOK
<1> SUFFICES ASSUME DirectoryOK, ConstantsOK, Init PROVE TypeOK
  OBVIOUS
<1>1. NewSend \in SendRec /\ NewRecv \in RecvRec
  BY DEF DirectoryOK, NewSend, NewRecv, SendRec, RecvRec, SendPC, RecvPC, Results,
         Status, Final, Paths, NoFile
<1>2. snd \in [Conns -> SendRec] /\ rcv \in [Conns -> RecvRec]
  BY <1>1 DEF Init
<1>3. toR \in [Conns -> Seq(ToReceiver)] /\ toS \in [Conns -> Seq(ToSender)]
  BY EmptySeq DEF Init
<1>4. Contents \subseteq Disk /\ <<>> \in Disk
  BY SeqMonotonic, EmptySeq DEF DirectoryOK, Disk
<1>5. data \in [Inodes -> Disk]
  BY <1>4 DEF Init, InitDirectory
<1>6. final \in [Paths -> Inodes \union {NoFile}] /\ partial \in [Paths -> Inodes \union {NoFile}]
  BY DEF Init, InitDirectory, Inodes, Old, NoFile, ConstantsOK
<1> QED
  BY <1>2, <1>3, <1>5, <1>6 DEF Init, TypeOK, ConstantsOK

\* The steps of a sender are well typed.
LEMMA SenderStepType ==
    ASSUME DirectoryOK, TypeOK, Offered, NEW c \in Conns, SenderStep(c)
    PROVE  TypeOK'
<1> USE DEF srcVars, dirVars
<1>t. snd[c] \in SendRec
  BY DEF TypeOK
<1>1. CASE RecvAccept(c)
  <2>1. Head(toS[c]) \in ToSender /\ toS' \in [Conns -> Seq(ToSender)]
    BY <1>1, TakenType DEF RecvAccept, Gets, TypeOK
  <2>2. Head(toS[c]).off \in Nat
    BY <1>1, <2>1 DEF RecvAccept, Gets, ToSender
  <2>3. /\ [snd[c] EXCEPT !.pc = "end", !.res = "ok", !.quick = TRUE] \in SendRec
        /\ [snd[c] EXCEPT !.pc = "send", !.off = Head(toS[c]).off] \in SendRec
    BY <1>t, <2>2, SndMoves DEF SendPC, Results
  <2>4. snd' \in [Conns -> SendRec]
    BY <1>1, <2>3 DEF RecvAccept, TypeOK
  <2> QED
    BY <1>1, <2>1, <2>4 DEF RecvAccept, TypeOK
<1>2. CASE RecvReject(c)
  <2>1. toS' \in [Conns -> Seq(ToSender)]
    BY <1>2, TakenType DEF RecvReject, Gets, TypeOK
  <2>2. snd' \in [Conns -> SendRec]
    BY <1>2, ReturnedType DEF RecvReject, Results
  <2> QED
    BY <1>2, <2>1, <2>2 DEF RecvReject, TypeOK
<1>3. CASE SeeCancel(c)
  <2>1. snd' \in [Conns -> SendRec]
    BY <1>3, ReturnedType DEF SeeCancel, Results
  <2> QED
    BY <1>3, <2>1 DEF SeeCancel, TypeOK
<1>4. CASE SendData(c)
  <2>1. snd[c].off \in Nat /\ src \in Seq(Blocks)
    BY DEF TypeOK, SendRec, DirectoryOK
  <2>2. snd[c].off + 1 \in Nat
    BY <2>1
  <2>3. [snd[c] EXCEPT !.off = snd[c].off + 1] \in SendRec
    BY <1>t, <2>2 DEF SendRec
  <2>4. snd' \in [Conns -> SendRec]
    BY <1>4, <2>3 DEF SendData, TypeOK
  <2>5. src[snd[c].off + 1] \in Blocks
    <3>1. snd[c].off + 1 \in 1..Len(src)
      BY <1>4, <2>1, LenProperties DEF SendData
    <3> QED
      BY <2>1, <3>1, ElementOfSeq
  <2>6. toR' \in [Conns -> Seq(ToReceiver)]
    BY <1>4, <2>5, MessageTypes, TellReceiverType DEF SendData
  <2> QED
    BY <1>4, <2>4, <2>6 DEF SendData, TypeOK
<1>5. CASE SendHash(c)
  <2>1. snd' \in [Conns -> SendRec]
    BY <1>5, ReturnedType DEF SendHash, Results
  <2>2. HashItem(snd[c].file) \in ToReceiver
    BY <1>5, MessageTypes DEF SendHash, Offered
  <2>3. toR' \in [Conns -> Seq(ToReceiver)]
    BY <1>5, <2>2, TellReceiverType DEF SendHash
  <2> QED
    BY <1>5, <2>1, <2>3 DEF SendHash, TypeOK
<1>6. CASE SendFails(c)
  <2>1. snd' \in [Conns -> SendRec]
    BY <1>6, ReturnedType DEF SendFails, Results
  <2> QED
    BY <1>6, <2>1 DEF SendFails, TypeOK
<1>7. CASE FinishSend(c)
  <2>1. Outcome(snd[c].res) \in Status
    BY DEF Outcome, Status, Final
  <2>2. {"Paused", "Removed", "none"} \subseteq Status
    BY DEF Status
  <2>3. snd' \in [Conns -> SendRec] /\ toS' \in [Conns -> Seq(ToSender)]
    BY <1>7, <2>1, <2>2, SendEndsType DEF FinishSend
  <2> QED
    BY <1>7, <2>3 DEF FinishSend, TypeOK
<1> QED
  BY <1>1, <1>2, <1>3, <1>4, <1>5, <1>6, <1>7 DEF SenderStep

\* The steps of a receiver are.
LEMMA ReceiverStepType ==
    ASSUME DirectoryOK, ConstantsOK, TypeOK, NEW c \in Conns, ReceiverStep(c)
    PROVE  TypeOK'
<1> USE DEF srcVars, dirVars
<1>t. rcv[c] \in RecvRec
  BY DEF TypeOK
<1>1. CASE OfferFiltered(c)
  <2>1. /\ rcv' \in [Conns -> RecvRec]
        /\ toR' \in [Conns -> Seq(ToReceiver)]
    BY <1>1, RecvEndsType, StatusNames DEF OfferFiltered
  <2>2. toS' \in [Conns -> Seq(ToSender)]
    BY <1>1, TellSenderType, MessageTypes DEF OfferFiltered
  <2> QED
    BY <1>1, <2>1, <2>2 DEF OfferFiltered, TypeOK
<1>2. CASE OfferDuplicate(c)
  <2>1. /\ rcv' \in [Conns -> RecvRec]
        /\ toR' \in [Conns -> Seq(ToReceiver)]
    BY <1>2, RecvEndsType, StatusNames DEF OfferDuplicate
  <2>2. toS' \in [Conns -> Seq(ToSender)]
    BY <1>2, TellSenderType, MessageTypes, LenType DEF OfferDuplicate
  <2> QED
    BY <1>2, <2>1, <2>2 DEF OfferDuplicate, TypeOK
<1>3. CASE OfferPlanned(c)
  <2> DEFINE p == ResolveSavePath(1)
             o == ResumeOffset(p, snd[c].file)
             k == IF AutoAccept THEN "open" ELSE "confirm"
             w == IF AutoAccept THEN "none" ELSE "wait"
  <2>1. p \in Paths
    <3>1. 1 \in Paths
      BY DEF DirectoryOK, Paths
    <3> QED
      BY <1>3, <3>1, SavePathIsFree DEF OfferPlanned
  <2>2. o \in Nat
    BY <2>1, ResumeOffsetType
  <2>3. [rcv[c] EXCEPT !.pc = k, !.pend = w, !.path = p, !.task = "Active"] \in RecvRec
    <3>1. k \in RecvPC /\ w \in {"none", "wait"} /\ "Active" \in Status
      BY StatusNames DEF RecvPC
    <3> HIDE DEF p, k, w
    <3> QED
      BY <1>t, <2>1, <3>1, RcvPlanned
  <2>4. rcv' \in [Conns -> RecvRec]
    BY <1>3, <2>3 DEF OfferPlanned, TypeOK
  <2>5. partial' \in [Paths -> Inodes \union {NoFile}]
    BY <1>3, <2>1, AfterValidateType DEF OfferPlanned
  <2>6. toS' \in [Conns -> Seq(ToSender)]
    BY <1>3, <2>2, TellSenderType, MessageTypes DEF OfferPlanned, TypeOK
  <2>7. toR' \in [Conns -> Seq(ToReceiver)]
    BY <1>3, TakenType DEF OfferPlanned, GotOffer, Gets, TypeOK
  <2> QED
    BY <1>3, <2>4, <2>5, <2>6, <2>7 DEF OfferPlanned, TypeOK
<1>4. CASE OfferLost(c)
  <2>1. /\ rcv' \in [Conns -> RecvRec]
        /\ toR' \in [Conns -> Seq(ToReceiver)]
    BY <1>4, RecvEndsType, StatusNames DEF OfferLost
  <2> QED
    BY <1>4, <2>1 DEF OfferLost, TypeOK
<1>5. CASE Accepted(c)
  <2> DEFINE p == ResolveConflict(rcv[c].path, snd[c].file)
             o == ResumeOffset(p, snd[c].file)
  <2>1. p \in Paths
    BY <1>5, ResolveConflictType DEF Accepted, TypeOK, RecvRec
  <2>2. o \in Nat
    BY <2>1, ResumeOffsetType
  <2>3. [rcv[c] EXCEPT !.pc = "open", !.pend = "none", !.path = p] \in RecvRec
    <3> HIDE DEF p
    <3> QED
      BY <1>t, <2>1 DEF RecvPC, RecvRec
  <2>4. rcv' \in [Conns -> RecvRec]
    BY <1>5, <2>3 DEF Accepted, TypeOK
  <2>5. partial' \in [Paths -> Inodes \union {NoFile}]
    BY <1>5, <2>1, AfterValidateType DEF Accepted
  <2>6. toS' \in [Conns -> Seq(ToSender)]
    BY <1>5, <2>2, TellSenderType, MessageTypes DEF Accepted
  <2> QED
    BY <1>5, <2>4, <2>5, <2>6 DEF Accepted, TypeOK
<1>6. CASE Refused(c)
  <2>1. /\ rcv' \in [Conns -> RecvRec]
        /\ toR' \in [Conns -> Seq(ToReceiver)]
    BY <1>6, RecvEndsType, StatusType, StatusNames DEF Refused
  <2>2. toS' \in [Conns -> Seq(ToSender)]
    BY <1>6, TellSenderType, MessageTypes DEF Refused
  <2> QED
    BY <1>6, <2>1, <2>2 DEF Refused, TypeOK
<1>7. CASE OpenPartial(c)
  <2> DEFINE p == rcv[c].path
             o == ResumeOffset(p, snd[c].file)
             l == Len(snd[c].file) - o
             i == IF AfterValidate(p, snd[c].file)[p] = NoFile THEN c ELSE partial[p]
  <2>1. p \in Paths /\ o \in Nat /\ l \in Nat
    <3>1. p \in Paths
      BY <1>t DEF RecvRec
    <3>2. o \in Nat /\ o <= Len(snd[c].file) /\ Len(snd[c].file) \in Nat
      BY <3>1, LenType, ResumeOffsetType
    <3> HIDE DEF o
    <3> QED
      BY <3>1, <3>2
  <2>2. i \in Inodes
    <3>1. c \in Inodes
      BY DEF Conns, Inodes
    <3>2. AfterValidate(p, snd[c].file)[p] \in {partial[p], NoFile}
      BY <2>1 DEF AfterValidate, TypeOK
    <3>3. partial[p] \in Inodes \union {NoFile}
      BY <2>1 DEF TypeOK
    <3> HIDE DEF p
    <3> QED
      BY <3>1, <3>2, <3>3
  <2>3. [rcv[c] EXCEPT !.pc = "recv", !.handle = i, !.from = o, !.left = l,
                       !.task = Kept(c, "Active")] \in RecvRec
    <3>1. "recv" \in RecvPC /\ Kept(c, "Active") \in Status
      BY StatusType, StatusNames DEF RecvPC
    <3> HIDE DEF i, o, l
    <3> QED
      BY <1>t, <2>1, <2>2, <3>1, RcvOpened
  <2>4. rcv' \in [Conns -> RecvRec]
    BY <1>7, <2>3 DEF OpenPartial, TypeOK
  <2>5. partial' \in [Paths -> Inodes \union {NoFile}]
    BY <1>7, <2>2 DEF OpenPartial, TypeOK
  <2> QED
    BY <1>7, <2>4, <2>5 DEF OpenPartial, TypeOK
<1>8. CASE RecvData(c)
  <2> DEFINE m == Head(toR[c])
             w == IF m.type = "data" THEN m.blk ELSE Hole
             i == rcv[c].handle
  <2>1. m \in ToReceiver /\ toR' \in [Conns -> Seq(ToReceiver)]
    BY <1>8, TakenType DEF RecvData, TypeOK
  <2>2. w \in Blocks \union {Hole}
    BY <2>1 DEF ToReceiver, OfferLine
  <2>3. i \in Inodes => WriteAt(data[i], rcv[c].pos, w) \in Disk
    <3> HIDE DEF w
    <3> QED
      BY <1>t, <2>2, WriteAtType DEF TypeOK, RecvRec
  <2>4. data' \in [Inodes -> Disk]
    BY <1>8, <2>3 DEF RecvData, TypeOK
  <2>5. rcv' = [rcv EXCEPT ![c] = [rcv[c] EXCEPT !.pos = rcv[c].pos + 1, !.left = rcv[c].left - 1]]
    BY <1>8 DEF RecvData, TypeOK
  <2>6. rcv' \in [Conns -> RecvRec]
    BY <1>8, <1>t, <2>5, RcvRead DEF RecvData, Reading, TypeOK
  <2> QED
    BY <1>8, <2>1, <2>4, <2>6 DEF RecvData, TypeOK
<1>9. CASE RecvSeesCancel(c) \/ RecvBroken(c) \/ HashDiffers(c) \/ HashFails(c)
  BY <1>9, RecvErrorType DEF RecvSeesCancel, RecvBroken, HashDiffers, HashFails
<1>10. CASE HashOK(c)
  <2>1. rcv' \in [Conns -> RecvRec]
    <3>1. [rcv[c] EXCEPT !.pc = "rename"] \in RecvRec
      BY <1>t DEF RecvPC, RecvRec
    <3> QED
      BY <1>10, <3>1 DEF HashOK, TypeOK
  <2>2. toR' \in [Conns -> Seq(ToReceiver)]
    BY <1>10, TakenType DEF HashOK, AtTail, TypeOK
  <2> QED
    BY <1>10, <2>1, <2>2 DEF HashOK, TypeOK
<1>11. CASE Finalize(c)
  <2>1. /\ rcv' \in [Conns -> RecvRec]
        /\ toR' \in [Conns -> Seq(ToReceiver)]
    BY <1>11, RecvEndsType, StatusType, StatusNames DEF Finalize
  <2>2. rcv[c].path \in Paths
    BY <1>t DEF RecvRec
  <2>3. /\ final' \in [Paths -> Inodes \union {NoFile}]
        /\ partial' \in [Paths -> Inodes \union {NoFile}]
    BY <1>11, <2>2 DEF Finalize, FinalizeFile, TypeOK
  <2> QED
    BY <1>11, <2>1, <2>3 DEF Finalize, TypeOK
<1>12. CASE FinalizeFails(c)
  <2>1. /\ rcv' \in [Conns -> RecvRec]
        /\ toR' \in [Conns -> Seq(ToReceiver)]
    BY <1>12, RecvEndsType, StatusType, StatusNames DEF FinalizeFails
  <2>2. final' \in [Paths -> Inodes \union {NoFile}]
    BY <1>12 DEF FinalizeFails, FinalizeLost, TypeOK
  <2> QED
    BY <1>12, <2>1, <2>2 DEF FinalizeFails, FinalizeLost, TypeOK
<1> QED
  BY <1>1, <1>2, <1>3, <1>4, <1>5, <1>6, <1>7, <1>8, <1>9, <1>10, <1>11, <1>12 DEF ReceiverStep

\* And what the users and the network do.
LEMMA UserStepType ==
    ASSUME DirectoryOK, ConstantsOK, TypeOK, NEW c \in Conns, UserStep(c)
    PROVE  TypeOK'
<1> USE DEF srcVars, dirVars
<1>t. snd[c] \in SendRec /\ rcv[c] \in RecvRec
  BY DEF TypeOK
<1>m. ASSUME NEW move, Intervene(move) PROVE moves' \in 0..MaxMoves
  BY <1>m DEF Intervene, TypeOK, ConstantsOK
<1>1. CASE StartSend(c)
  <2>1. [snd[c] EXCEPT !.pc = "reply", !.file = src, !.task = "Active"] \in SendRec
    <3>1. src \in Contents /\ "Active" \in Status /\ "reply" \in SendPC
      BY StatusNames DEF TypeOK, SendPC
    <3> QED
      BY <1>t, <3>1 DEF SendRec
  <2>2. snd' \in [Conns -> SendRec]
    BY <1>1, <2>1 DEF StartSend, TypeOK
  <2>3. toR' \in [Conns -> Seq(ToReceiver)]
    BY <1>1, TellReceiverType, MessageTypes DEF StartSend
  <2> QED
    BY <1>1, <2>2, <2>3 DEF StartSend, TypeOK
<1>2. CASE PauseSend(c) \/ CancelSend(c)
  <2>1. PICK st \in Status : snd' = [snd EXCEPT ![c].task = st, ![c].flag = TRUE]
    BY <1>2, StatusNames DEF PauseSend, CancelSend, Stop
  <2>2. [snd[c] EXCEPT !.task = st, !.flag = TRUE] \in SendRec
    BY <1>t DEF SendRec
  <2>3. snd' \in [Conns -> SendRec]
    BY <2>1, <2>2 DEF TypeOK
  <2>4. moves' \in 0..MaxMoves
    BY <1>2, <1>m DEF PauseSend, CancelSend, Stop
  <2> QED
    BY <1>2, <2>3, <2>4 DEF PauseSend, CancelSend, Stop, Intervene, TypeOK
<1>3. CASE RemoveSend(c)
  <2>1. [snd[c] EXCEPT !.task = "Removed"] \in SendRec
    BY <1>t, StatusNames DEF SendRec
  <2>2. snd' \in [Conns -> SendRec]
    BY <1>3, <2>1 DEF RemoveSend, TypeOK
  <2>3. moves' \in 0..MaxMoves
    BY <1>3, <1>m DEF RemoveSend
  <2> QED
    BY <1>3, <2>2, <2>3 DEF RemoveSend, Intervene, TypeOK
<1>4. CASE UserAccept(c)
  <2>1. PICK p \in {1, rcv[c].path} :
          rcv' = [rcv EXCEPT ![c].pend = "accept", ![c].path = p]
    BY <1>4 DEF UserAccept
  <2>2. p \in Paths
    BY <1>t DEF DirectoryOK, Paths, RecvRec
  <2>3. [rcv[c] EXCEPT !.pend = "accept", !.path = p] \in RecvRec
    BY <1>t, <2>2 DEF RecvRec
  <2>4. rcv' \in [Conns -> RecvRec]
    BY <2>1, <2>3 DEF TypeOK
  <2> QED
    BY <1>4, <2>4 DEF UserAccept, TypeOK
<1>5. CASE UserReject(c)
  <2>1. PICK r \in {"refused", "cancel"} : rcv' = [rcv EXCEPT ![c].pend = r]
    BY <1>5 DEF UserReject
  <2>2. [rcv[c] EXCEPT !.pend = r] \in RecvRec
    BY <1>t, <2>1 DEF RecvRec
  <2>3. rcv' \in [Conns -> RecvRec] /\ moves' \in 0..MaxMoves
    BY <1>5, <1>m, <2>1, <2>2 DEF TypeOK, UserReject
  <2> QED
    BY <1>5, <2>3 DEF UserReject, Intervene, TypeOK
<1>6. CASE CancelRecv(c)
  <2> DEFINE fl == rcv[c].pc \in {"recv", "rename"}
             w == IF rcv[c].pend = "wait" THEN "cancel" ELSE rcv[c].pend
  <2>1. fl \in BOOLEAN
    OBVIOUS
  <2>2. w \in {"none", "wait", "accept", "refused", "cancel"}
    BY <1>t DEF RecvRec
  <2>3. rcv' = [rcv EXCEPT ![c].flag = fl, ![c].pend = w, ![c].task = "Cancelled"]
    BY <1>6, <1>t DEF CancelRecv, TypeOK, RecvRec
  <2>4. [rcv[c] EXCEPT !.flag = fl, !.pend = w, !.task = "Cancelled"] \in RecvRec
    <3> HIDE DEF fl, w
    <3> QED
      BY <1>t, <2>1, <2>2, StatusNames DEF RecvRec
  <2>5. rcv' \in [Conns -> RecvRec] /\ moves' \in 0..MaxMoves
    BY <1>6, <1>m, <2>3, <2>4 DEF TypeOK, CancelRecv
  <2> QED
    BY <1>6, <2>5 DEF CancelRecv, Intervene, TypeOK
<1>7. CASE RemoveRecv(c)
  <2>1. [rcv[c] EXCEPT !.task = "Removed"] \in RecvRec
    BY <1>t, StatusNames DEF RecvRec
  <2>2. rcv' \in [Conns -> RecvRec] /\ moves' \in 0..MaxMoves
    BY <1>7, <1>m, <2>1 DEF RemoveRecv, TypeOK
  <2> QED
    BY <1>7, <2>2 DEF RemoveRecv, Intervene, TypeOK
<1> QED
  BY <1>1, <1>2, <1>3, <1>4, <1>5, <1>6, <1>7 DEF UserStep

LEMMA LoseType ==
    ASSUME TypeOK, NEW c \in Conns, Lose(c)
    PROVE  TypeOK'
<1>1. toR' \in [Conns -> Seq(ToReceiver)]
  <2>1. toR \in [Conns -> Seq(ToReceiver)]
    BY DEF TypeOK
  <2>2. WithoutLast(toR, c) \in [Conns -> Seq(ToReceiver)]
    BY <2>1, WithoutLastType
  <2> QED
    BY <2>1, <2>2 DEF Lose
<1>2. toS' \in [Conns -> Seq(ToSender)]
  <2>1. toS \in [Conns -> Seq(ToSender)]
    BY DEF TypeOK
  <2>2. WithoutLast(toS, c) \in [Conns -> Seq(ToSender)]
    BY <2>1, WithoutLastType
  <2> QED
    BY <2>1, <2>2 DEF Lose
<1> QED
  BY <1>1, <1>2 DEF Lose, TypeOK, srcVars, dirVars

\* Every state of the TCP channel is well typed, for any number of attempts,
\* overlapping or not; what travels as the trailing hash is that of a content the
\* source had, because only a send that was started sends one.
THEOREM TypeCorrect == Spec => []TypeOK
<1>1. Init => TypeOK /\ Offered
  BY InitType, DirectoryOK, ConstantsOK DEF Init, Offered, NewSend
<1>2. TypeOK /\ Offered /\ [Next]_vars => (TypeOK /\ Offered)'
  <2> SUFFICES ASSUME TypeOK, Offered, [Next]_vars PROVE TypeOK' /\ Offered'
    OBVIOUS
  <2>1. CASE UNCHANGED vars
    BY <2>1 DEF TypeOK, Offered, vars
  <2>2. CASE EditSource
    <3>1. edits \in 0..MaxEdits /\ MaxEdits \in Nat
      BY ConstantsOK DEF TypeOK, ConstantsOK
    <3>2. src' \in Contents /\ edits' \in 0..MaxEdits
      BY <2>2, <3>1 DEF EditSource
    <3> QED
      BY <2>2, <3>2 DEF TypeOK, Offered, EditSource, dirVars
  <2>3. ASSUME NEW c \in Conns, UserStep(c) \/ SenderStep(c) \/ ReceiverStep(c) \/ Lose(c)
        PROVE  TypeOK' /\ Offered'
    BY <2>3, DirectoryOK, ConstantsOK, UserStepType, SenderStepType, ReceiverStepType, LoseType,
       OfferedStays
  <2> QED
    BY <2>1, <2>2, <2>3 DEF Next
<1>3. Spec => [](TypeOK /\ Offered)
  BY <1>1, <1>2, PTL DEF Spec
<1> QED
  BY <1>3, PTL

-----------------------------------------------------------------------------
(* The streams.                                                            *)

\* What a step of an attempt may do to what is on its way to the receiver: one item
\* more at the end, one less at either end, or none left.
Moved(q, r, m) == \/ r = q \/ r = <<>>
                  \/ q # <<>> /\ r = Tail(q)
                  \/ r = SubSeq(q, 1, Len(q) - 1)
                  \/ r = Append(q, m)

\* Losing the last item leaves the ones before it.
LEMMA AllButLast ==
    ASSUME NEW S, NEW q \in Seq(S)
    PROVE  LET r == SubSeq(q, 1, Len(q) - 1)
           IN  /\ r \in Seq(S) /\ Len(r) <= Len(q)
               /\ \A k \in 1..Len(r) : r[k] = q[k] /\ k \in 1..Len(q)
<1> DEFINE n == Len(q) - 1
<1>0. Len(q) \in Nat
  BY LenProperties
<1>1. n \in Int /\ \A i \in 1..n : q[i] \in S
  BY <1>0, ElementOfSeq
<1>2. /\ SubSeq(q, 1, n) \in Seq(S)
      /\ Len(SubSeq(q, 1, n)) = IF 1 <= n THEN n - 1 + 1 ELSE 0
      /\ \A i \in 1..(n - 1 + 1) : SubSeq(q, 1, n)[i] = q[1 + i - 1]
  BY <1>1, SubSeqProperties
<1> QED
  BY <1>0, <1>2

\* Each position of the moved stream, when it is not the new item, is one of the old.
LEMMA MovedItems ==
    ASSUME NEW S, NEW q \in Seq(S), NEW r, NEW m \in S, Moved(q, r, m)
    PROVE  \A k \in 1..Len(r) : r[k] = m \/ \E j \in 1..Len(q) : r[k] = q[j]
<1>0. Len(q) \in Nat
  BY LenProperties
<1>1. CASE r = q
  BY <1>1
<1>2. CASE r = <<>>
  BY <1>2
<1>3. CASE q # <<>> /\ r = Tail(q)
  <2>1. Len(r) = Len(q) - 1 /\ \A k \in 1..Len(r) : r[k] = q[k + 1] /\ k + 1 \in 1..Len(q)
    BY <1>0, <1>3, HeadTailProperties
  <2> QED
    BY <2>1
<1>4. CASE r = SubSeq(q, 1, Len(q) - 1)
  BY <1>4, AllButLast
<1>5. CASE r = Append(q, m)
  <2>1. /\ Len(r) = Len(q) + 1 /\ r[Len(q) + 1] = m
        /\ \A k \in 1..Len(q) : r[k] = q[k]
    BY <1>5, AppendProperties
  <2>2. \A k \in 1..Len(r) : k = Len(q) + 1 \/ k \in 1..Len(q)
    BY <1>0, <2>1
  <2> QED
    BY <2>1, <2>2
<1> QED
  BY <1>1, <1>2, <1>3, <1>4, <1>5 DEF Moved

\* A sender adds a block, or the hash of what it offered.
LEMMA SenderStream ==
    ASSUME DirectoryOK, TypeOK, Offered, NEW c \in Conns, SenderStep(c)
    PROVE  \E m \in ToReceiver : /\ Moved(toR[c], toR'[c], m)
                                 /\ m.type = "hash" => m.file = snd[c].file
<1>1. CASE RecvAccept(c) \/ RecvReject(c) \/ SeeCancel(c) \/ SendFails(c) \/ FinishSend(c)
  <2>1. toR' = toR
    BY <1>1 DEF RecvAccept, RecvReject, SeeCancel, SendFails, FinishSend
  <2>2. OfferLine \in ToReceiver /\ OfferLine.type # "hash"
    BY MessageTypes DEF OfferLine
  <2> QED
    BY <2>1, <2>2 DEF Moved
<1>2. CASE SendData(c)
  <2> DEFINE m == DataItem(src[snd[c].off + 1])
  <2>1. m \in ToReceiver /\ m.type = "data"
    <3>1. snd[c].off + 1 \in 1..Len(src) /\ src \in Seq(Blocks)
      BY <1>2, LenProperties DEF SendData, TypeOK, SendRec, DirectoryOK
    <3>2. src[snd[c].off + 1] \in Blocks
      BY <3>1, ElementOfSeq
    <3> QED
      BY <3>2, MessageTypes DEF DataItem
  <2>2. toR'[c] = toR[c] \/ toR'[c] = Append(toR[c], m)
    BY <1>2 DEF SendData, TellReceiver, TypeOK
  <2> QED
    BY <2>1, <2>2 DEF Moved
<1>3. CASE SendHash(c)
  <2> DEFINE m == HashItem(snd[c].file)
  <2>1. m \in ToReceiver /\ m.file = snd[c].file
    BY <1>3, MessageTypes DEF SendHash, Offered, HashItem
  <2>2. toR'[c] = toR[c] \/ toR'[c] = Append(toR[c], m)
    BY <1>3 DEF SendHash, TellReceiver, TypeOK
  <2> QED
    BY <2>1, <2>2 DEF Moved
<1> QED
  BY <1>1, <1>2, <1>3 DEF SenderStep

\* A receiver takes the first item or drops them all.
LEMMA ReceiverStream ==
    ASSUME TypeOK, NEW c \in Conns, ReceiverStep(c)
    PROVE  \/ toR'[c] \in {toR[c], <<>>}
           \/ toR[c] # <<>> /\ toR'[c] = Tail(toR[c])
<1>1. CASE OfferFiltered(c) \/ OfferDuplicate(c) \/ OfferLost(c) \/ Refused(c)
  BY <1>1, RecvEndsWith DEF OfferFiltered, OfferDuplicate, OfferLost, Refused
<1>2. CASE OfferPlanned(c) \/ RecvData(c) \/ HashOK(c)
  BY <1>2 DEF OfferPlanned, GotOffer, Gets, RecvData, HashOK, AtTail, Taken, TypeOK
<1>3. CASE Accepted(c) \/ OpenPartial(c)
  BY <1>3 DEF Accepted, OpenPartial
<1>4. CASE RecvSeesCancel(c) \/ RecvBroken(c) \/ HashDiffers(c) \/ HashFails(c)
  BY <1>4, RecvEndsWith DEF RecvSeesCancel, RecvBroken, HashDiffers, HashFails, RecvError
<1>5. CASE Finalize(c) \/ FinalizeFails(c)
  BY <1>5, RecvEndsWith DEF Finalize, FinalizeFails
<1> QED
  BY <1>1, <1>2, <1>3, <1>4, <1>5 DEF ReceiverStep

\* What the users and the network do to it.
LEMMA OutsideStream ==
    ASSUME TypeOK, Asked, NEW c \in Conns, OutsideStep(c)
    PROVE  toR'[c] = toR[c] \/ toR'[c] = SubSeq(toR[c], 1, Len(toR[c]) - 1)
<1>1. CASE Lose(c)
  BY <1>1 DEF Lose, WithoutLast, TypeOK
<1>2. CASE toR' = toR
  BY <1>2
<1> QED
  BY <1>1, <1>2, OutsideFrame

\* So a hash on its way stays the hash of what was offered.
LEMMA HashStaysTrue ==
    ASSUME DirectoryOK, TypeOK, Offered, Unstarted, Asked, TrueHash, NEW c \in Conns,
           UserStep(c) \/ SenderStep(c) \/ ReceiverStep(c) \/ Lose(c)
    PROVE  TrueHash'
<1>1. \A d \in Conns : d # c => snd'[d] = snd[d] /\ toR'[d] = toR[d]
  BY OthersUnseen DEF SameView
<1>2. OfferLine \in ToReceiver /\ OfferLine.type # "hash" /\ toR[c] \in Seq(ToReceiver)
  BY MessageTypes DEF OfferLine, TypeOK
<1>3. \E m \in ToReceiver : /\ Moved(toR[c], toR'[c], m)
                            /\ m.type = "hash" => m.file = snd[c].file
  <2>1. CASE SenderStep(c)
    BY <2>1, SenderStream
  <2>2. CASE ReceiverStep(c)
    BY <1>2, <2>2, ReceiverStream DEF Moved
  <2>3. CASE OutsideStep(c)
    BY <1>2, <2>3, OutsideStream DEF Moved
  <2>4. CASE StartSend(c)
    <3>1. toR'[c] = toR[c] \/ toR'[c] = Append(toR[c], OfferLine)
      BY <2>4 DEF StartSend, TellReceiver, TypeOK
    <3> QED
      BY <1>2, <3>1 DEF Moved
  <2> QED
    BY <2>1, <2>2, <2>3, <2>4 DEF UserStep, OutsideStep
<1>4. snd'[c].file = snd[c].file \/ toR[c] = <<>>
  <2>1. CASE StartSend(c)
    BY <2>1 DEF StartSend, MayStart, Unstarted
  <2>2. CASE SenderStep(c) \/ ReceiverStep(c) \/ OutsideStep(c)
    BY <2>2, SenderFrame, ReceiverFrame, OutsideFrame
  <2> QED
    BY <2>1, <2>2 DEF UserStep, OutsideStep
<1>5. ASSUME NEW k \in 1..Len(toR'[c]), toR'[c][k].type = "hash"
      PROVE  toR'[c][k].file = snd'[c].file
  <2>1. PICK m \in ToReceiver : /\ Moved(toR[c], toR'[c], m)
                                /\ m.type = "hash" => m.file = snd[c].file
    BY <1>3
  <2>2. CASE snd'[c].file = snd[c].file
    <3>1. toR'[c][k] = m \/ \E j \in 1..Len(toR[c]) : toR'[c][k] = toR[c][j]
      BY <1>2, <2>1, MovedItems
    <3> QED
      BY <1>5, <2>1, <2>2, <3>1 DEF TrueHash
  <2>3. CASE toR[c] = <<>> /\ StartSend(c)
    <3>1. toR'[c] = <<>> \/ toR'[c] = Append(<<>>, OfferLine)
      BY <2>3 DEF StartSend, TellReceiver, TypeOK
    <3>2. toR'[c] = <<>> \/ toR'[c] = <<OfferLine>>
      BY <3>1
    <3>3. toR'[c][k] = OfferLine
      BY <3>2
    <3> QED
      BY <1>2, <1>5, <3>3
  <2>4. ~StartSend(c) => snd'[c].file = snd[c].file
    <3>1. SenderStep(c) => snd'[c].file = snd[c].file
      BY SenderFrame
    <3>2. ReceiverStep(c) => snd'[c].file = snd[c].file
      BY ReceiverFrame
    <3>3. OutsideStep(c) => snd'[c].file = snd[c].file
      BY OutsideFrame
    <3> QED
      BY <3>1, <3>2, <3>3 DEF UserStep, OutsideStep
  <2> QED
    BY <1>4, <2>2, <2>3, <2>4
<1> QED
  BY <1>1, <1>5 DEF TrueHash

-----------------------------------------------------------------------------
(* One attempt at a time.                                                  *)

\* Before the first attempt everything is quiet and nothing is partial.
LEMMA InitOneAttempt == DirectoryOK /\ ConstantsOK /\ Init => OneAttempt
<1> SUFFICES ASSUME DirectoryOK, ConstantsOK, Init PROVE OneAttempt
  OBVIOUS
<1>1. \A c \in Conns : /\ snd[c].pc = "idle" /\ rcv[c].pc = "idle" /\ rcv[c].pend = "none"
                       /\ rcv[c].hist = "none" /\ toR[c] = <<>> /\ Len(toR[c]) = 0
  BY DEF Init, NewSend, NewRecv
<1>2. Alone /\ Unstarted /\ Offered /\ Asked /\ Unended /\ HoldsPartial /\ TrueHash /\ Verified
  BY <1>1 DEF Alone, Unstarted, Offered, Asked, Unended, HoldsPartial, TrueHash, Verified,
              Quiet, Writing
<1>3. \A p \in Paths : partial[p] = NoFile /\ final[p] \in {Old, NoFile}
  BY DEF Init, InitDirectory
<1>4. PICK old \in Contents, there \in {Old, NoFile} :
          data = [i \in Inodes |-> IF i = there THEN old ELSE <<>>]
  BY DEF Init, InitDirectory
<1>5. \A c \in Conns : c \in Inodes /\ c # Old /\ c # NoFile
  BY DEF Conns, Inodes, ConstantsOK, Old, NoFile
<1>6. Fresh /\ OneName
  BY <1>3, <1>4, <1>5 DEF Fresh, OneName
<1> QED
  BY <1>2, <1>6 DEF OneAttempt

\* What a step outside the receiver, or a receiver's step, leaves to show.
Step(c) == UserStep(c) \/ SenderStep(c) \/ ReceiverStep(c) \/ Lose(c)

LEMMA StepKeepsHash ==
    ASSUME DirectoryOK, TypeOK, OneAttempt, NEW c \in Conns, Step(c)
    PROVE  TrueHash' /\ Offered'
BY HashStaysTrue, OfferedStays DEF OneAttempt, Step

\* With the directory unchanged and no receiver moving on, nothing changes.
LEMMA StillOneAttempt ==
    ASSUME DirectoryOK, TypeOK, OneAttempt, NEW c \in Conns, Step(c), UNCHANGED dirVars,
           \A d \in Conns : d # c => /\ snd'[d] = snd[d] /\ rcv'[d] = rcv[d]
                                     /\ toR'[d] = toR[d],
           snd[c].pc # "idle" \/ toR'[c] = toR[c],
           rcv'[c].pc = rcv[c].pc, rcv'[c].hist = rcv[c].hist,
           rcv'[c].handle = rcv[c].handle,
           rcv'[c].pend = rcv[c].pend \/ rcv[c].pc = "confirm",
           rcv'[c].path = rcv[c].path \/ rcv[c].pc = "confirm",
           \/ snd'[c].pc = snd[c].pc /\ snd'[c].file = snd[c].file
           \/ /\ snd[c].pc \notin {"idle", "done"} /\ snd'[c].pc # "idle"
              /\ snd'[c].file = snd[c].file
    PROVE  OneAttempt'
<1>1. \A d \in Conns : Quiet(d) => Quiet(d)'
  BY DEF Quiet, OneAttempt, Unstarted
<1>2. Alone'
  BY <1>1 DEF Alone, OneAttempt
<1>3. Unstarted' /\ Asked' /\ Unended'
  BY DEF OneAttempt, Unstarted, Asked, Unended
<1>4. HoldsPartial' /\ Fresh' /\ OneName'
  BY DEF OneAttempt, HoldsPartial, Fresh, OneName, Writing, dirVars
<1>5. Verified'
  BY DEF OneAttempt, Verified, dirVars
<1> QED
  BY <1>2, <1>3, <1>4, <1>5, StepKeepsHash DEF OneAttempt

\* The moves of users and network keep one attempt at a time.
LEMMA OutsideKeepsOne ==
    ASSUME DirectoryOK, TypeOK, OneAttempt, NEW c \in Conns, OutsideStep(c)
    PROVE  OneAttempt'
<1>0. Step(c)
  BY DEF Step, OutsideStep, UserStep
<1>1. \A d \in Conns : d # c => /\ snd'[d] = snd[d] /\ rcv'[d] = rcv[d] /\ toR'[d] = toR[d]
  BY <1>0, OthersUnseen DEF Step, SameView
<1>2. snd[c].pc # "idle" \/ toR'[c] = toR[c]
  <2>1. CASE Lose(c)
    BY <2>1 DEF Lose, OneAttempt, Unstarted
  <2> QED
    BY <2>1, OutsideFrame DEF OneAttempt
<1> QED
  BY <1>0, <1>1, <1>2, OutsideFrame, StillOneAttempt DEF OneAttempt

\* So do the steps of a sender.
LEMMA SenderKeepsOne ==
    ASSUME DirectoryOK, TypeOK, OneAttempt, NEW c \in Conns, SenderStep(c)
    PROVE  OneAttempt'
<1>1. \A d \in Conns : d # c => /\ snd'[d] = snd[d] /\ rcv'[d] = rcv[d] /\ toR'[d] = toR[d]
  BY OthersUnseen DEF SameView
<1>2. Step(c)
  BY DEF Step
<1> QED
  BY <1>1, <1>2, SenderFrame, StillOneAttempt

\* An attempt starts when every other one is quiet.
LEMMA StartKeepsOne ==
    ASSUME ~Overlap, DirectoryOK, TypeOK, OneAttempt, NEW c \in Conns, StartSend(c)
    PROVE  OneAttempt'
<1>1. /\ snd[c].pc = "idle" /\ rcv[c].pc = "idle"
      /\ \A d \in Conns : Quiet(d)
      /\ UNCHANGED <<rcv, dirVars>>
  BY DEF StartSend, MayStart, OneAttempt, Unstarted
<1>2. snd'[c].pc = "reply" /\ Step(c)
  BY DEF StartSend, TypeOK, SendRec, Step, UserStep
<1>3. \A d \in Conns : d # c => snd'[d] = snd[d] /\ toR'[d] = toR[d]
  BY OthersUnseen DEF UserStep, SameView
<1>4. Alone'
  BY <1>1, <1>3 DEF Alone, Quiet
<1>5. Unstarted' /\ Asked' /\ Unended'
  BY <1>1, <1>2, <1>3 DEF OneAttempt, Unstarted, Asked, Unended
<1>6. HoldsPartial' /\ Fresh' /\ OneName'
  BY <1>1 DEF OneAttempt, HoldsPartial, Fresh, OneName, Writing, dirVars
<1>7. Verified'
  BY <1>1, <1>3 DEF OneAttempt, Verified, dirVars
<1> QED
  BY <1>2, <1>4, <1>5, <1>6, <1>7, StepKeepsHash DEF OneAttempt

\* While a receiver moves, every other attempt is quiet.
LEMMA OthersQuiet ==
    ASSUME OneAttempt, NEW c \in Conns, snd[c].pc # "idle", rcv[c].pc # "done",
           NEW d \in Conns, d # c
    PROVE  rcv[d].pc \in {"idle", "done"}
BY DEF OneAttempt, Alone, Quiet, Unstarted

\* A receiver's step keeps what does not speak of the directory.
LEMMA ReceiverKeepsAlone ==
    ASSUME DirectoryOK, TypeOK, OneAttempt, NEW c \in Conns, ReceiverStep(c)
    PROVE  /\ Alone' /\ Unstarted' /\ Offered' /\ TrueHash'
           /\ \A d \in Conns : d # c => rcv[d].pc \in {"idle", "done"} /\ rcv'[d] = rcv[d]
           /\ snd' = snd /\ snd[c].pc # "idle" /\ rcv[c].pc # "done" /\ rcv'[c].pc # "idle"
<1>1. /\ snd[c].pc # "idle" /\ rcv[c].pc # "done" /\ rcv'[c].pc # "idle"
      /\ snd' = snd
  BY ReceiverFrame DEF OneAttempt
<1>2. \A d \in Conns : d # c => /\ rcv[d].pc \in {"idle", "done"} /\ rcv'[d] = rcv[d]
                                /\ toR'[d] = toR[d]
  BY <1>1, OthersUnseen, OthersQuiet DEF SameView
<1>3. \A d \in Conns : Quiet(d) => Quiet(d)'
  BY <1>1, <1>2 DEF Quiet
<1>4. Alone' /\ Unstarted'
  BY <1>1, <1>2, <1>3 DEF OneAttempt, Alone, Unstarted
<1>5. Step(c)
  BY DEF Step
<1> QED
  BY <1>1, <1>2, <1>4, <1>5, StepKeepsHash

\* A receive that ends and leaves the directory with fewer partial files.
LEMMA EndKeepsOne ==
    ASSUME DirectoryOK, TypeOK, OneAttempt, NEW c \in Conns, ReceiverStep(c),
           rcv'[c].pc = "done", rcv'[c].pend = "none",
           data' = data, final' = final,
           \A p \in Paths : partial'[p] \in {partial[p], NoFile}
    PROVE  OneAttempt'
<1>1. /\ Alone' /\ Unstarted' /\ Offered' /\ TrueHash'
      /\ \A d \in Conns : d # c => rcv[d].pc \in {"idle", "done"} /\ rcv'[d] = rcv[d]
      /\ snd' = snd
  BY ReceiverKeepsAlone
<1>2. Asked' /\ Unended'
  BY <1>1 DEF OneAttempt, Asked, Unended
<1>3. HoldsPartial' /\ Verified'
  BY <1>1 DEF HoldsPartial, Verified, Writing
<1>4. Fresh'
  BY <1>1 DEF OneAttempt, Fresh, Conns, NoFile
<1>5. OneName'
  BY DEF OneAttempt, OneName
<1> QED
  BY <1>1, <1>2, <1>3, <1>4, <1>5 DEF OneAttempt

\* A plan or a decision: the path is settled, a partial file that is too long
\* deleted.
LEMMA PlanKeepsOne ==
    ASSUME DirectoryOK, TypeOK, OneAttempt, NEW c \in Conns, ReceiverStep(c),
           rcv[c].pc \in {"idle", "confirm"}, rcv'[c].pc \in {"confirm", "open"},
           rcv'[c].pc = "open" => rcv'[c].pend = "none", rcv'[c].hist = rcv[c].hist,
           data' = data, final' = final,
           \A p \in Paths : partial'[p] \in {partial[p], NoFile}
    PROVE  OneAttempt'
<1>1. /\ Alone' /\ Unstarted' /\ Offered' /\ TrueHash'
      /\ \A d \in Conns : d # c => rcv[d].pc \in {"idle", "done"} /\ rcv'[d] = rcv[d]
      /\ snd' = snd
  BY ReceiverKeepsAlone
<1>2. Asked' /\ Unended'
  BY <1>1 DEF OneAttempt, Asked, Unended
<1>3. HoldsPartial' /\ Verified'
  BY <1>1 DEF HoldsPartial, Verified, Writing
<1>4. Fresh'
  BY <1>1 DEF OneAttempt, Fresh, Conns, NoFile
<1>5. OneName'
  BY DEF OneAttempt, OneName
<1> QED
  BY <1>1, <1>2, <1>3, <1>4, <1>5 DEF OneAttempt

\* The partial file is opened; a new one takes the place of none, or of one that was
\* too long.
LEMMA Opened ==
    ASSUME TypeOK, NEW c \in Conns, OpenPartial(c)
    PROVE  /\ rcv[c].pc = "open" /\ rcv'[c].pc = "recv" /\ rcv[c].path \in Paths
           /\ rcv'[c].path = rcv[c].path /\ rcv'[c].pos = rcv[c].pos
           /\ rcv'[c].pend = rcv[c].pend /\ rcv'[c].hist = rcv[c].hist
           /\ rcv'[c].from = ResumeOffset(rcv[c].path, snd[c].file)
           /\ rcv'[c].left = Len(snd[c].file) - rcv'[c].from
           /\ rcv'[c].handle # NoFile
           /\ partial' = [partial EXCEPT ![rcv[c].path] = rcv'[c].handle]
           /\ data' = data /\ final' = final /\ toR' = toR /\ toS' = toS /\ snd' = snd
           /\ lost' = lost /\ src' = src /\ edits' = edits
           /\ IF partial[rcv[c].path] = NoFile \/ TooLong(rcv[c].path, snd[c].file)
              THEN rcv'[c].handle = c ELSE rcv'[c].handle = partial[rcv[c].path]
<1> DEFINE p == rcv[c].path
           o == ResumeOffset(p, snd[c].file)
           l == Len(snd[c].file) - o
           i == IF AfterValidate(p, snd[c].file)[p] = NoFile THEN c ELSE partial[p]
<1>1. /\ rcv' = [rcv EXCEPT ![c].pc = "recv", ![c].handle = i, ![c].from = o,
                            ![c].left = l, ![c].task = Kept(c, "Active")]
      /\ partial' = [partial EXCEPT ![p] = i] /\ rcv[c].pc = "open"
      /\ UNCHANGED <<snd, toR, toS, lost, srcVars, data, final>>
  BY DEF OpenPartial
<1>2. p \in Paths /\ c # NoFile
  BY DEF TypeOK, RecvRec, Conns, NoFile
<1>3. /\ (partial[p] = NoFile \/ TooLong(p, snd[c].file)) => i = c
      /\ ~(partial[p] = NoFile \/ TooLong(p, snd[c].file)) => i = partial[p] /\ i # NoFile
  BY <1>2 DEF AfterValidate, TypeOK
<1> HIDE DEF p, o, l, i
<1>4. /\ rcv'[c].pc = "recv" /\ rcv'[c].handle = i /\ rcv'[c].from = o /\ rcv'[c].left = l
      /\ rcv'[c].path = rcv[c].path /\ rcv'[c].pos = rcv[c].pos
      /\ rcv'[c].pend = rcv[c].pend /\ rcv'[c].hist = rcv[c].hist
  BY <1>1 DEF TypeOK, RecvRec
<1> QED
  BY <1>1, <1>2, <1>3, <1>4 DEF p, o, l, srcVars

LEMMA OpenKeepsOne ==
    ASSUME DirectoryOK, TypeOK, OneAttempt, NEW c \in Conns, OpenPartial(c)
    PROVE  OneAttempt'
<1>1. /\ Alone' /\ Unstarted' /\ Offered' /\ TrueHash'
      /\ \A d \in Conns : d # c => rcv[d].pc \in {"idle", "done"} /\ rcv'[d] = rcv[d]
      /\ snd' = snd
  BY ReceiverKeepsAlone DEF ReceiverStep
<1> DEFINE path == rcv[c].path
           i == rcv'[c].handle
<1>2. /\ rcv[c].pc = "open" /\ rcv'[c].pc = "recv" /\ rcv'[c].path = path /\ path \in Paths
      /\ rcv'[c].pend = rcv[c].pend /\ rcv'[c].hist = rcv[c].hist
      /\ partial' = [partial EXCEPT ![path] = i] /\ data' = data /\ final' = final
      /\ i # NoFile /\ i \in {c, partial[path]}
  BY Opened
<1>3. partial'[path] = i /\ \A p \in Paths : p # path => partial'[p] = partial[p]
  BY <1>2 DEF TypeOK
<1>4. Asked' /\ Unended'
  BY <1>1, <1>2 DEF OneAttempt, Asked, Unended
<1>5. HoldsPartial' /\ Verified'
  BY <1>1, <1>2, <1>3 DEF HoldsPartial, Verified, Writing
<1>6. \A p \in Paths : c \notin {partial[p], final[p]}
  BY <1>2 DEF OneAttempt, Fresh
<1>7. Fresh'
  <2> SUFFICES ASSUME NEW d \in Conns, rcv'[d].pc \in {"idle", "confirm", "open"}
               PROVE  data'[d] = <<>> /\ \A p \in Paths : d \notin {partial'[p], final'[p]}
    BY DEF Fresh
  <2>1. d # c /\ rcv[d].pc \in {"idle", "confirm", "open"}
    BY <1>1, <1>2
  <2>2. data[d] = <<>> /\ \A p \in Paths : d \notin {partial[p], final[p]}
    BY <2>1 DEF OneAttempt, Fresh
  <2> QED
    BY <1>2, <1>3, <2>1, <2>2
<1>8. OneName'
  <2> SUFFICES ASSUME NEW p \in Paths, NEW q \in Paths, partial'[p] # NoFile
               PROVE  partial'[p] # final'[q] /\ (p # q => partial'[p] # partial'[q])
    BY DEF OneName
  <2>1. CASE i = c
    BY <1>2, <1>3, <1>6, <2>1 DEF OneAttempt, OneName
  <2>2. CASE i = partial[path]
    BY <1>2, <1>3, <2>2 DEF OneAttempt, OneName
  <2> QED
    BY <1>2, <2>1, <2>2
<1> QED
  BY <1>1, <1>4, <1>5, <1>7, <1>8 DEF OneAttempt

\* A block is written to the partial file of its receive, to no other file.
LEMMA Written ==
    ASSUME TypeOK, NEW c \in Conns, RecvData(c)
    PROVE  /\ rcv[c].pc = "recv" /\ rcv'[c].pc = "recv" /\ rcv[c].left > 0
           /\ rcv'[c].pend = rcv[c].pend /\ rcv'[c].hist = rcv[c].hist
           /\ rcv'[c].handle = rcv[c].handle /\ rcv'[c].path = rcv[c].path
           /\ rcv'[c].from = rcv[c].from
           /\ rcv'[c].pos = rcv[c].pos + 1 /\ rcv'[c].left = rcv[c].left - 1
           /\ partial' = partial /\ final' = final /\ toS' = toS /\ snd' = snd
           /\ lost' = lost /\ src' = src /\ edits' = edits
           /\ toR[c] # <<>> /\ toR'[c] = Tail(toR[c])
           /\ \A i \in Inodes : i # rcv[c].handle => data'[i] = data[i]
<1>1. rcv' = [rcv EXCEPT ![c].pos = @ + 1, ![c].left = @ - 1]
  BY DEF RecvData
<1>2. /\ rcv'[c].pc = rcv[c].pc /\ rcv'[c].pend = rcv[c].pend /\ rcv'[c].hist = rcv[c].hist
      /\ rcv'[c].handle = rcv[c].handle /\ rcv'[c].path = rcv[c].path
      /\ rcv'[c].from = rcv[c].from
      /\ rcv'[c].pos = rcv[c].pos + 1 /\ rcv'[c].left = rcv[c].left - 1
  BY <1>1 DEF TypeOK, RecvRec
<1>3. /\ rcv[c].pc = "recv" /\ rcv[c].left > 0 /\ toR[c] # <<>> /\ toR' = Taken(toR, c)
      /\ UNCHANGED <<snd, toS, lost, srcVars, partial, final>>
  BY DEF RecvData, Reading
<1>4. \A i \in Inodes : i # rcv[c].handle => data'[i] = data[i]
  BY DEF RecvData, TypeOK
<1>5. toR'[c] = Tail(toR[c])
  BY <1>3 DEF Taken, TypeOK
<1> QED
  BY <1>2, <1>3, <1>4, <1>5 DEF srcVars

LEMMA WriteKeepsOne ==
    ASSUME DirectoryOK, TypeOK, OneAttempt, NEW c \in Conns, RecvData(c)
    PROVE  OneAttempt'
<1>1. /\ Alone' /\ Unstarted' /\ Offered' /\ TrueHash'
      /\ \A d \in Conns : d # c => rcv[d].pc \in {"idle", "done"} /\ rcv'[d] = rcv[d]
      /\ snd' = snd
  BY ReceiverKeepsAlone DEF ReceiverStep
<1>2. /\ rcv[c].pc = "recv" /\ rcv'[c].pc = "recv"
      /\ rcv'[c].pend = rcv[c].pend /\ rcv'[c].hist = rcv[c].hist
      /\ rcv'[c].handle = rcv[c].handle /\ rcv'[c].path = rcv[c].path
      /\ partial' = partial /\ final' = final
      /\ \A i \in Inodes : i # rcv[c].handle => data'[i] = data[i]
  BY Written
<1>3. Asked' /\ Unended'
  BY <1>1, <1>2 DEF OneAttempt, Asked, Unended
<1>4. HoldsPartial' /\ Verified' /\ OneName'
  BY <1>1, <1>2 DEF OneAttempt, HoldsPartial, Verified, OneName, Writing
<1>5. Fresh'
  <2> SUFFICES ASSUME NEW d \in Conns, rcv'[d].pc \in {"idle", "confirm", "open"}
               PROVE  data'[d] = <<>> /\ \A p \in Paths : d \notin {partial'[p], final'[p]}
    BY DEF Fresh
  <2>1. d # c /\ rcv[d].pc \in {"idle", "confirm", "open"}
    BY <1>1, <1>2
  <2>2. data[d] = <<>> /\ \A p \in Paths : d \notin {partial[p], final[p]}
    BY <2>1 DEF OneAttempt, Fresh
  <2>3. d # rcv[c].handle /\ d \in Inodes
    BY <1>2, <2>2 DEF OneAttempt, HoldsPartial, Writing, TypeOK, RecvRec, Conns, Inodes
  <2> QED
    BY <1>2, <2>2, <2>3
<1> QED
  BY <1>1, <1>3, <1>4, <1>5 DEF OneAttempt

\* What matched the hash is the partial file that will be renamed.
LEMMA HashKeepsOne ==
    ASSUME DirectoryOK, TypeOK, OneAttempt, NEW c \in Conns, HashOK(c)
    PROVE  OneAttempt'
<1>1. /\ Alone' /\ Unstarted' /\ Offered' /\ TrueHash'
      /\ \A d \in Conns : d # c => rcv[d].pc \in {"idle", "done"} /\ rcv'[d] = rcv[d]
      /\ snd' = snd
  BY ReceiverKeepsAlone DEF ReceiverStep
<1>2. /\ rcv'[c].pc = "rename" /\ rcv'[c].handle = rcv[c].handle /\ rcv'[c].path = rcv[c].path
      /\ rcv'[c].pend = rcv[c].pend /\ rcv'[c].hist = rcv[c].hist
      /\ UNCHANGED dirVars /\ rcv[c].pc = "recv"
      /\ partial[rcv[c].path] # NoFile
      /\ toR[c] # <<>> /\ Head(toR[c]).type = "hash"
      /\ Head(toR[c]).file = data[partial[rcv[c].path]]
  BY DEF HashOK, AtTail, Matches, Gets, HashOf, TypeOK, RecvRec
<1>3. Head(toR[c]) = toR[c][1] /\ 1 \in 1..Len(toR[c])
  BY <1>2, LenProperties, EmptySeq DEF TypeOK
<1>4. data[partial[rcv[c].path]] = snd[c].file
  BY <1>2, <1>3 DEF OneAttempt, TrueHash
<1>5. Asked' /\ Unended'
  BY <1>1, <1>2 DEF OneAttempt, Asked, Unended
<1>6. HoldsPartial' /\ Fresh' /\ OneName'
  BY <1>1, <1>2 DEF OneAttempt, HoldsPartial, Fresh, OneName, Writing, dirVars
<1>7. Verified'
  BY <1>1, <1>2, <1>4 DEF Verified, dirVars
<1> QED
  BY <1>1, <1>5, <1>6, <1>7 DEF OneAttempt

\* finalize moves one file from its partial name to its final one.
LEMMA FinalizeKeepsOne ==
    ASSUME DirectoryOK, TypeOK, OneAttempt, NEW c \in Conns, Finalize(c) \/ FinalizeFails(c)
    PROVE  OneAttempt'
<1>1. /\ Alone' /\ Unstarted' /\ Offered' /\ TrueHash'
      /\ \A d \in Conns : d # c => rcv[d].pc \in {"idle", "done"} /\ rcv'[d] = rcv[d]
      /\ snd' = snd
  BY ReceiverKeepsAlone DEF ReceiverStep
<1> DEFINE path == rcv[c].path
<1>2. /\ rcv'[c].pc = "done" /\ rcv'[c].pend = "none" /\ data' = data /\ path \in Paths
      /\ \/ /\ partial[path] # NoFile
            /\ final' = [final EXCEPT ![path] = partial[path]]
            /\ partial' = [partial EXCEPT ![path] = NoFile]
         \/ /\ partial' = partial
            /\ final' \in {final, [final EXCEPT ![path] = NoFile]}
  BY RecvEndsWith DEF Finalize, FinalizeFails, FinalizeFile, FinalizeLost, TypeOK, RecvRec
<1>3. Asked' /\ Unended' /\ HoldsPartial' /\ Verified'
  BY <1>1, <1>2 DEF OneAttempt, Asked, Unended, HoldsPartial, Verified, Writing
<1>4. Fresh'
  BY <1>1, <1>2 DEF OneAttempt, Fresh, Conns, NoFile, TypeOK
<1>5. OneName'
  <2> SUFFICES ASSUME NEW p \in Paths, NEW q \in Paths, partial'[p] # NoFile
               PROVE  partial'[p] # final'[q] /\ (p # q => partial'[p] # partial'[q])
    BY DEF OneName
  <2>1. /\ partial[p] # NoFile /\ partial'[p] = partial[p]
        /\ final'[q] \in {final[q], NoFile} \/ (q = path /\ final'[q] = partial[path] /\ p # path)
        /\ partial'[q] \in {partial[q], NoFile}
    BY <1>2 DEF TypeOK
  <2> QED
    BY <1>2, <2>1 DEF OneAttempt, OneName
<1> QED
  BY <1>1, <1>3, <1>4, <1>5 DEF OneAttempt

\* And every step of a receiver.
LEMMA ReceiverKeepsOne ==
    ASSUME DirectoryOK, TypeOK, OneAttempt, NEW c \in Conns, ReceiverStep(c)
    PROVE  OneAttempt'
<1>1. CASE OfferFiltered(c) \/ OfferDuplicate(c) \/ OfferLost(c) \/ Refused(c)
  BY <1>1, RecvEndsWith, EndKeepsOne DEF OfferFiltered, OfferDuplicate, OfferLost, Refused, dirVars
<1>2. CASE OfferPlanned(c) \/ Accepted(c)
  <2>1. /\ data' = data /\ final' = final
        /\ \A p \in Paths : partial'[p] \in {partial[p], NoFile}
    BY <1>2 DEF OfferPlanned, Accepted, AfterValidate, TypeOK
  <2>2. /\ rcv[c].pc \in {"idle", "confirm"} /\ rcv'[c].pc \in {"confirm", "open"}
        /\ rcv'[c].pc = "open" => rcv'[c].pend = "none"
        /\ rcv'[c].hist = rcv[c].hist
    <3>1. CASE OfferPlanned(c)
      BY <3>1 DEF OfferPlanned, GotOffer, TypeOK, RecvRec
    <3>2. CASE Accepted(c)
      BY <3>2 DEF Accepted, TypeOK, RecvRec
    <3> QED
      BY <1>2, <3>1, <3>2
  <2> QED
    BY <2>1, <2>2, PlanKeepsOne
<1>3. CASE RecvSeesCancel(c) \/ RecvBroken(c) \/ HashDiffers(c) \/ HashFails(c)
  <2>1. PICK kind : RecvError(c, kind)
    BY <1>3 DEF RecvSeesCancel, RecvBroken, HashDiffers, HashFails
  <2>2. /\ data' = data /\ final' = final
        /\ \A p \in Paths : partial'[p] \in {partial[p], NoFile}
    BY <2>1 DEF RecvError, CleanUp, TypeOK
  <2> QED
    BY <2>1, <2>2, RecvEndsWith, EndKeepsOne DEF RecvError
<1> QED
  BY <1>1, <1>2, <1>3, OpenKeepsOne, WriteKeepsOne, HashKeepsOne, FinalizeKeepsOne DEF ReceiverStep

\* What one attempt at a time gives: a receive owns its partial file, no file has
\* two names, and what matched the hash is what was offered and will be renamed.
THEOREM OneAttemptAtATime ==
    ASSUME ~Overlap
    PROVE  Spec => []OneAttempt
<1>1. Init => OneAttempt
  BY InitOneAttempt, DirectoryOK, ConstantsOK
<1>2. TypeOK /\ OneAttempt /\ [Next]_vars => OneAttempt'
  <2> SUFFICES ASSUME TypeOK, OneAttempt, [Next]_vars PROVE OneAttempt'
    OBVIOUS
  <2>1. CASE UNCHANGED vars \/ EditSource
    <3>1. UNCHANGED <<snd, rcv, toR, data, partial, final>>
      BY <2>1 DEF vars, EditSource, dirVars
    <3> QED
      BY <3>1 DEF OneAttempt, Alone, Quiet, Unstarted, Offered, Asked, Unended, HoldsPartial,
                  Writing, Fresh, OneName, TrueHash, Verified
  <2>2. ASSUME NEW c \in Conns, UserStep(c) \/ SenderStep(c) \/ ReceiverStep(c) \/ Lose(c)
        PROVE  OneAttempt'
    BY <2>2, StartKeepsOne, OutsideKeepsOne, SenderKeepsOne, ReceiverKeepsOne, DirectoryOK
       DEF UserStep, OutsideStep
  <2> QED
    BY <2>1, <2>2 DEF Next
<1> QED
  BY <1>1, <1>2, TypeCorrect, PTL DEF Spec

-----------------------------------------------------------------------------
(* Plain names: the user takes the planned name or the plain one.          *)

\* No file that has its final name changes, in any step.
FilesStay == \A p \in Paths : ~Free(p) => final'[p] = final[p] /\ data'[final[p]] = data[final[p]]

\* A content that is saved stays saved while the final files stay.
LEMMA SavedStays ==
    ASSUME TypeOK, NEW f, FilesStay, Saved(f)
    PROVE  Saved(f)'
BY DEF FilesStay, Saved, Free, TypeOK

\* At first there is a whole file under the plain name or nothing.
LEMMA InitPlainNames == DirectoryOK /\ ConstantsOK /\ Init => PlainNames
<1> SUFFICES ASSUME DirectoryOK, ConstantsOK, Init PROVE PlainNames
  OBVIOUS
<1>1. \A c \in Conns : rcv[c].pc = "idle" /\ rcv[c].hist = "none"
  BY DEF Init, NewRecv
<1>2. PathFree /\ RecordedKept
  BY <1>1 DEF PathFree, RecordedKept, Writing
<1>3. NothingPartial
  BY DEF NothingPartial, Init, InitDirectory
<1>4. FinalWhole
  <2>1. PICK old \in Contents, there \in {Old, NoFile} :
            /\ data = [i \in Inodes |-> IF i = there THEN old ELSE <<>>]
            /\ final = [p \in Paths |-> IF p = 1 THEN there ELSE NoFile]
    BY DEF Init, InitDirectory
  <2>2. Old \in Inodes
    BY DEF Old, Inodes, ConstantsOK
  <2> QED
    BY <2>1, <2>2 DEF FinalWhole, Free
<1> QED
  BY <1>2, <1>3, <1>4 DEF PlainNames

\* The plan of an offer, and the name settled after the user's answer, are free.
LEMMA PlannedIsFree ==
    ASSUME DirectoryOK, TypeOK, OneAttempt, PlainNames, NEW c \in Conns,
           OfferPlanned(c) \/ Accepted(c)
    PROVE  /\ rcv'[c].path \in Paths /\ Free(rcv'[c].path)
           /\ OfferPlanned(c) => ~Duplicate(snd[c].file)
           /\ rcv[c].pc \in {"idle", "confirm"} /\ rcv'[c].pc \in {"confirm", "open"}
           /\ Accepted(c) => rcv'[c].pc = "open"
           /\ rcv'[c].hist = rcv[c].hist
<1>1. CASE OfferPlanned(c)
  <2>1. 1 \in Paths /\ FreeFrom(1) # {} /\ rcv'[c].path = ResolveSavePath(1)
    BY <1>1 DEF OfferPlanned, TypeOK, RecvRec, DirectoryOK, Paths
  <2> QED
    BY <1>1, <2>1, SavePathIsFree DEF OfferPlanned, GotOffer, TypeOK, RecvRec, Accepted
<1>2. CASE Accepted(c)
  <2> DEFINE p == rcv[c].path
  <2>1. /\ p \in Paths /\ FreeFrom(p) # {} /\ rcv'[c].path = ResolveConflict(p, snd[c].file)
        /\ rcv[c].pc = "confirm" /\ rcv'[c].pc = "open" /\ rcv'[c].hist = rcv[c].hist
    BY <1>2 DEF Accepted, TypeOK, RecvRec
  <2>2. ~Duplicate(snd[c].file) /\ (p = 1 \/ Free(p))
    BY <2>1 DEF PlainNames, PathFree
  <2>3. Free(p) \/ ResolveConflict(p, snd[c].file) = ResolveSavePath(p)
    BY <2>1, <2>2 DEF ResolveConflict, Duplicate, PlainNames, NothingPartial
  <2>4. Free(p) => ResolveConflict(p, snd[c].file) = p
    BY DEF ResolveConflict
  <2>5. ResolveSavePath(p) \in Paths /\ Free(ResolveSavePath(p))
    BY <2>1, SavePathIsFree
  <2>6. rcv'[c].path \in Paths /\ Free(rcv'[c].path)
    BY <2>1, <2>3, <2>4, <2>5
  <2> QED
    BY <2>1, <2>6 DEF OfferPlanned, GotOffer
<1> QED
  BY <1>1, <1>2

\* What a step of a receiver does to the files that have their final name.
LEMMA ReceiverFilesStay ==
    ASSUME DirectoryOK, TypeOK, OneAttempt, PlainNames, NEW c \in Conns, ReceiverStep(c)
    PROVE  FilesStay
<1>1. CASE RecvData(c)
  <2>1. rcv[c].pc = "recv" /\ final' = final
    BY <1>1, Written
  <2>2. /\ rcv[c].handle # NoFile /\ partial[rcv[c].path] = rcv[c].handle
        /\ rcv[c].path \in Paths
    BY <2>1 DEF OneAttempt, HoldsPartial, Writing, TypeOK, RecvRec
  <2>3. \A q \in Paths : final[q] # rcv[c].handle
    BY <2>2 DEF OneAttempt, OneName
  <2>4. \A i \in Inodes : i # rcv[c].handle => data'[i] = data[i]
    BY <1>1, Written
  <2> QED
    BY <2>1, <2>3, <2>4 DEF FilesStay, Free, TypeOK
<1>2. CASE Finalize(c) \/ FinalizeFails(c)
  <2>1. rcv[c].pc = "rename" /\ rcv[c].path \in Paths
    BY <1>2 DEF Finalize, FinalizeFails, TypeOK, RecvRec
  <2>2. Free(rcv[c].path)
    BY <2>1 DEF PlainNames, PathFree, Writing
  <2>3. \A p \in Paths : p # rcv[c].path => final'[p] = final[p]
    BY <1>2 DEF Finalize, FinalizeFails, FinalizeFile, FinalizeLost, TypeOK
  <2> QED
    BY <1>2, <2>2, <2>3 DEF FilesStay, Finalize, FinalizeFails
<1>3. CASE ~RecvData(c) /\ ~Finalize(c) /\ ~FinalizeFails(c)
  <2>1. CASE OfferFiltered(c) \/ OfferDuplicate(c) \/ OfferPlanned(c) \/ OfferLost(c)
               \/ Accepted(c) \/ Refused(c) \/ OpenPartial(c)
    BY <2>1 DEF OfferFiltered, OfferDuplicate, OfferPlanned, OfferLost, Accepted, Refused,
                OpenPartial, dirVars, FilesStay
  <2>2. CASE RecvSeesCancel(c) \/ RecvBroken(c) \/ HashOK(c) \/ HashDiffers(c) \/ HashFails(c)
    BY <2>2 DEF RecvSeesCancel, RecvBroken, HashOK,
                HashDiffers, HashFails, RecvError, dirVars, FilesStay
  <2> QED
    BY <1>3, <2>1, <2>2 DEF ReceiverStep
<1> QED
  BY <1>1, <1>2, <1>3

\* Every step of an attempt leaves the files alone that have their final name.
LEMMA StepFilesStay ==
    ASSUME DirectoryOK, TypeOK, OneAttempt, PlainNames, [Next]_vars
    PROVE  FilesStay
<1>1. ASSUME NEW c \in Conns, UserStep(c) \/ SenderStep(c) \/ Lose(c) PROVE UNCHANGED dirVars
  BY <1>1, SenderFrame, OutsideFrame DEF UserStep, OutsideStep, StartSend, OneAttempt
<1>2. CASE UNCHANGED dirVars
  BY <1>2 DEF FilesStay, dirVars
<1> QED
  BY <1>1, <1>2, ReceiverFilesStay DEF Next, EditSource, vars, dirVars

\* No new file and no new record: nothing the user was promised about.
LEMMA HiddenStep ==
    ASSUME TypeOK, FilesStay, final' = final,
           \A d \in Conns : /\ (rcv'[d].hist = "Completed") = (rcv[d].hist = "Completed")
                            /\ rcv[d].hist = "Completed" => snd'[d].file = snd[d].file
    PROVE  Shelf' = Shelf /\ Received' = Received
<1>1. Shelf' = Shelf
  BY DEF FilesStay, Shelf, Free
<1>2. Received' = Received
  BY DEF Received
<1> QED
  BY <1>1, <1>2

\* The steps that touch neither the directory nor a receiving coroutine.
LEMMA StillPlain ==
    ASSUME DirectoryOK, TypeOK, OneAttempt, PlainNames, UNCHANGED dirVars,
           \A d \in Conns :
              /\ rcv'[d].pc = rcv[d].pc /\ rcv'[d].hist = rcv[d].hist
              /\ rcv[d].pc # "idle" => snd'[d].file = snd[d].file
              /\ rcv'[d].path = rcv[d].path \/ (rcv[d].pc = "confirm" /\ rcv'[d].path = 1)
    PROVE  PlainNames' /\ Shelf' = Shelf /\ Received' = Received
<1>1. PathFree'
  BY DEF PlainNames, PathFree, Writing, Duplicate, Free, dirVars
<1>2. NothingPartial' /\ FinalWhole'
  BY DEF PlainNames, NothingPartial, FinalWhole, Free, dirVars
<1>3. FilesStay /\ final' = final
  BY DEF FilesStay, dirVars
<1>4. \A d \in Conns : rcv[d].hist = "Completed" => rcv[d].pc # "idle"
  BY DEF OneAttempt, Unended
<1>5. RecordedKept'
  BY <1>3, <1>4, SavedStays DEF PlainNames, RecordedKept, Saved, Free, dirVars
<1>6. Shelf' = Shelf /\ Received' = Received
  BY <1>3, <1>4, HiddenStep
<1> QED
  BY <1>1, <1>2, <1>5, <1>6 DEF PlainNames

\* Users, network and senders change nothing of what was promised.
LEMMA OutsideKeepsPlain ==
    ASSUME DirectoryOK, TypeOK, OneAttempt, PlainNames, NEW c \in Conns,
           OutsideStep(c) \/ SenderStep(c) \/ StartSend(c)
    PROVE  PlainNames' /\ Shelf' = Shelf /\ Received' = Received
<1>1. \A d \in Conns : d # c => snd'[d] = snd[d] /\ rcv'[d] = rcv[d]
  BY OthersUnseen DEF OutsideStep, UserStep, SameView
<1>2. CASE OutsideStep(c)
  BY <1>1, <1>2, OutsideFrame, StillPlain DEF OneAttempt
<1>3. CASE SenderStep(c)
  BY <1>1, <1>3, SenderFrame, StillPlain
<1>4. CASE StartSend(c)
  BY <1>1, <1>4, StillPlain DEF StartSend, MayStart, OneAttempt, Unstarted
<1> QED
  BY <1>2, <1>3, <1>4

\* The steps of a receiver that bring no file under its final name: what is left
\* to show of each is that its path stays free, that no partial file stands beside
\* a final one, and that a record of success was earned.
LEMMA HiddenKeepsPlain ==
    ASSUME DirectoryOK, TypeOK, OneAttempt, PlainNames, NEW c \in Conns, ReceiverStep(c), final' = final,
           rcv'[c].pc = "confirm" => ~Duplicate(snd[c].file)' /\ Free(rcv'[c].path),
           rcv'[c].pc = "open" \/ Writing(c)' => Free(rcv'[c].path),
           \A p \in Paths : partial'[p] # NoFile => partial[p] # NoFile \/ Free(p),
           rcv'[c].hist = "Completed" => Saved(snd[c].file)
    PROVE  PlainNames'
<1>1. /\ \A d \in Conns : d # c => rcv[d].pc \in {"idle", "done"} /\ rcv'[d] = rcv[d]
      /\ snd' = snd /\ FilesStay
  BY ReceiverKeepsAlone, ReceiverFilesStay
<1>2. PathFree'
  <2>1. \A d \in Conns : d # c =>
            /\ rcv'[d].pc # "confirm" /\ rcv'[d].pc # "open" /\ ~Writing(d)'
    BY <1>1 DEF Writing
  <2>2. Free(rcv'[c].path) => final'[rcv'[c].path] = NoFile
    BY DEF Free
  <2> QED
    BY <2>1, <2>2 DEF PathFree, Free
<1>3. NothingPartial'
  BY DEF PlainNames, NothingPartial, Free
<1>4. FinalWhole'
  BY <1>1 DEF PlainNames, FinalWhole, FilesStay, Free
<1>5. RecordedKept'
  BY <1>1, SavedStays DEF PlainNames, RecordedKept, Saved, Free, FilesStay
<1> QED
  BY <1>2, <1>3, <1>4, <1>5 DEF PlainNames

\* A receive that ends without success.
LEMMA FailKeepsPlain ==
    ASSUME DirectoryOK, TypeOK, OneAttempt, PlainNames, NEW c \in Conns, ReceiverStep(c), final' = final,
           rcv'[c].pc = "done", rcv'[c].hist # "Completed",
           \A p \in Paths : partial'[p] \in {partial[p], NoFile}
    PROVE  PlainNames' /\ Shelf' = Shelf /\ Received' = Received
<1>1. /\ \A d \in Conns : d # c => rcv'[d] = rcv[d]
      /\ snd' = snd /\ rcv[c].pc # "done" /\ FilesStay
  BY ReceiverKeepsAlone, ReceiverFilesStay
<1>2. PlainNames'
  BY HiddenKeepsPlain DEF Writing
<1>3. rcv[c].hist # "Completed"
  BY <1>1 DEF OneAttempt, Unended
<1> QED
  BY <1>1, <1>2, <1>3, HiddenStep

\* The file is there already: recorded as received, under the plain name.
LEMMA DuplicateIsRecorded ==
    ASSUME DirectoryOK, TypeOK, OneAttempt, PlainNames, NEW c \in Conns, OfferDuplicate(c)
    PROVE  PlainNames' /\ Delivery!Next
<1>1. /\ \A d \in Conns : d # c => rcv'[d] = rcv[d]
      /\ snd' = snd /\ rcv[c].pc # "done" /\ snd[c].pc # "idle" /\ FilesStay
  BY ReceiverKeepsAlone, ReceiverFilesStay DEF ReceiverStep
<1>2. /\ rcv'[c].pc = "done" /\ rcv'[c].hist = "Completed" /\ UNCHANGED dirVars
      /\ 1 \in Paths /\ ~Free(1) /\ data[final[1]] = snd[c].file
  BY RecvEndsWith DEF OfferDuplicate, Duplicate, DirectoryOK, Paths
<1>3. Saved(snd[c].file) /\ snd[c].file \in Contents
  BY <1>1, <1>2 DEF Saved, OneAttempt, Offered
<1>4. PlainNames'
  BY <1>2, <1>3, HiddenKeepsPlain DEF ReceiverStep, Writing, dirVars
<1>5. Shelf[1] = snd[c].file /\ Shelf' = Shelf
  BY <1>2 DEF Shelf, Free, dirVars
<1>6. Received' = Received \union {snd[c].file}
  BY <1>1, <1>2 DEF Received
<1>7. Delivery!Record(snd[c].file)
  BY <1>2, <1>5, <1>6 DEF Delivery!Record
<1> QED
  BY <1>3, <1>4, <1>7 DEF Delivery!Next

\* The rename brings the offered content under a free name.
LEMMA FinalizeDelivers ==
    ASSUME DirectoryOK, TypeOK, OneAttempt, PlainNames, NEW c \in Conns, Finalize(c)
    PROVE  PlainNames' /\ Delivery!Next
<1> DEFINE path == rcv[c].path
           f == snd[c].file
<1>1. /\ \A d \in Conns : d # c => rcv[d].pc \in {"idle", "done"} /\ rcv'[d] = rcv[d]
      /\ snd' = snd /\ rcv[c].pc # "done" /\ snd[c].pc # "idle" /\ FilesStay
  BY ReceiverKeepsAlone, ReceiverFilesStay DEF ReceiverStep
<1>2. /\ rcv[c].pc = "rename" /\ path \in Paths /\ partial[path] # NoFile
      /\ final' = [final EXCEPT ![path] = partial[path]]
      /\ partial' = [partial EXCEPT ![path] = NoFile]
      /\ data' = data /\ rcv'[c].pc = "done" /\ rcv'[c].hist \in {"none", "Completed"}
  BY RecvEndsWith DEF Finalize, FinalizeFile, Recorded, TypeOK, RecvRec
<1>3. /\ Free(path) /\ data[partial[path]] = f /\ f \in Contents
      /\ rcv[c].hist = "none"
  BY <1>1, <1>2 DEF PlainNames, PathFree, Writing, OneAttempt, Verified, Offered,
                    Unended
<1>4. PathFree'
  BY <1>1, <1>2 DEF PathFree, Writing
<1>5. NothingPartial'
  BY <1>2 DEF PlainNames, NothingPartial, Free, TypeOK
<1>6. FinalWhole'
  BY <1>2, <1>3 DEF PlainNames, FinalWhole, Free, TypeOK
<1>7. Saved(f)'
  BY <1>1, <1>2, <1>3 DEF Saved, Free, TypeOK
<1>8. RecordedKept'
  <2> SUFFICES ASSUME NEW d \in Conns, rcv'[d].hist = "Completed" PROVE Saved(snd[d].file)'
    BY DEF RecordedKept
  <2>1. CASE d = c
    BY <1>1, <1>7, <2>1
  <2>2. CASE d # c
    <3>1. Saved(snd[d].file)
      BY <1>1, <2>2 DEF PlainNames, RecordedKept
    <3> QED
      BY <1>1, <3>1 DEF FilesStay, Saved, Free, TypeOK
  <2> QED
    BY <2>1, <2>2
<1>9. Shelf[path] = <<Hole>> /\ Shelf' = [Shelf EXCEPT ![path] = f]
  <2>1. Shelf[path] = <<Hole>>
    BY <1>2, <1>3 DEF Shelf
  <2>2. \A p \in Paths : Shelf'[p] = IF p = path THEN f ELSE Shelf[p]
    BY <1>2, <1>3 DEF Shelf, Free, TypeOK, NoFile
  <2> QED
    BY <2>1, <2>2 DEF Shelf
<1>10. Received' \in {Received, Received \union {f}}
  <2>1. CASE rcv'[c].hist = "none"
    BY <1>1, <1>3, <2>1 DEF Received
  <2>2. CASE rcv'[c].hist = "Completed"
    BY <1>1, <2>2 DEF Received
  <2> QED
    BY <1>2, <2>1, <2>2
<1>11. Delivery!Deliver(path, f)
  BY <1>9, <1>10 DEF Delivery!Deliver
<1> QED
  BY <1>2, <1>3, <1>4, <1>5, <1>6, <1>8, <1>11 DEF PlainNames, Delivery!Next

\* Each step of a receiver delivers, records, or changes nothing of it.
LEMMA ReceiverKeepsPlain ==
    ASSUME DirectoryOK, TypeOK, OneAttempt, PlainNames, NEW c \in Conns, ReceiverStep(c)
    PROVE  PlainNames' /\ ((Shelf' = Shelf /\ Received' = Received) \/ Delivery!Next)
<1>0. /\ \A d \in Conns : d # c => rcv[d].pc \in {"idle", "done"} /\ rcv'[d] = rcv[d]
      /\ snd' = snd /\ rcv[c].pc # "done" /\ rcv[c].hist # "Completed" /\ FilesStay
  BY ReceiverKeepsAlone, ReceiverFilesStay DEF OneAttempt, Unended
<1>1. CASE OfferFiltered(c) \/ OfferLost(c) \/ Refused(c)
  BY <1>1, RecvEndsWith, FailKeepsPlain DEF OfferFiltered, OfferLost, Refused, dirVars
<1>2. CASE RecvSeesCancel(c) \/ RecvBroken(c) \/ HashDiffers(c) \/ HashFails(c)
  <2>1. PICK kind : RecvError(c, kind)
    BY <1>2 DEF RecvSeesCancel, RecvBroken, HashDiffers, HashFails
  <2>2. /\ final' = final /\ \A p \in Paths : partial'[p] \in {partial[p], NoFile}
    BY <2>1 DEF RecvError, CleanUp, TypeOK
  <2>3. rcv'[c].pc = "done" /\ rcv'[c].hist # "Completed"
    BY <2>1, RecvEndsWith DEF RecvError, Recorded, ErrorRecord, ErrorStatus
  <2> QED
    BY <2>2, <2>3, FailKeepsPlain
<1>3. CASE FinalizeFails(c)
  <2>1. rcv[c].pc = "rename" /\ rcv[c].path \in Paths
    BY <1>3 DEF FinalizeFails, TypeOK, RecvRec
  <2>2. Free(rcv[c].path)
    BY <2>1 DEF PlainNames, PathFree, Writing
  <2>3. final' = final /\ partial' = partial
    BY <1>3, <2>1, <2>2 DEF FinalizeFails, FinalizeLost, Free, TypeOK
  <2>4. rcv'[c].pc = "done" /\ rcv'[c].hist # "Completed"
    BY <1>3, RecvEndsWith DEF FinalizeFails, Recorded
  <2> QED
    BY <2>3, <2>4, FailKeepsPlain
<1>4. CASE OfferPlanned(c) \/ Accepted(c)
  <2>1. /\ rcv'[c].path \in Paths /\ Free(rcv'[c].path)
        /\ OfferPlanned(c) => ~Duplicate(snd[c].file)
        /\ rcv'[c].pc \in {"confirm", "open"}
        /\ Accepted(c) => rcv'[c].pc = "open"
        /\ rcv'[c].hist = rcv[c].hist
    BY <1>4, PlannedIsFree
  <2>2. /\ data' = data /\ final' = final
        /\ \A p \in Paths : partial'[p] \in {partial[p], NoFile}
        /\ \A p \in Paths : p # rcv'[c].path => partial'[p] = partial[p]
    BY <1>4 DEF OfferPlanned, Accepted, AfterValidate, TypeOK, RecvRec
  <2>3. rcv'[c].pc = "confirm" => ~Duplicate(snd[c].file)'
    BY <1>0, <1>4, <2>1, <2>2 DEF Duplicate, Free, DirectoryOK, Paths
  <2>4. PlainNames'
    BY <1>0, <2>1, <2>2, <2>3, HiddenKeepsPlain
  <2> QED
    BY <1>0, <2>1, <2>2, <2>4, HiddenStep
<1>5. CASE OpenPartial(c)
  <2>1. /\ rcv[c].pc = "open" /\ rcv'[c].path = rcv[c].path /\ rcv'[c].pc = "recv"
        /\ rcv'[c].hist = rcv[c].hist /\ final' = final
        /\ \A p \in Paths : p # rcv[c].path => partial'[p] = partial[p]
    BY <1>5 DEF OpenPartial, TypeOK, RecvRec
  <2>2. Free(rcv[c].path)
    BY <2>1 DEF PlainNames, PathFree
  <2>3. PlainNames'
    BY <1>0, <2>1, <2>2, HiddenKeepsPlain
  <2> QED
    BY <1>0, <2>1, <2>3, HiddenStep
<1>6. CASE RecvData(c) \/ HashOK(c)
  <2>1. /\ rcv[c].pc = "recv" /\ rcv'[c].pc \in {"recv", "rename"}
        /\ rcv'[c].path = rcv[c].path /\ rcv'[c].hist = rcv[c].hist
        /\ final' = final /\ partial' = partial
    <3>1. CASE RecvData(c)
      BY <3>1, Written
    <3>2. CASE HashOK(c)
      BY <3>2 DEF HashOK, AtTail, TypeOK, RecvRec, dirVars
    <3> QED
      BY <1>6, <3>1, <3>2
  <2>2. Free(rcv[c].path)
    BY <2>1 DEF PlainNames, PathFree, Writing
  <2>3. PlainNames'
    BY <1>0, <2>1, <2>2, HiddenKeepsPlain
  <2> QED
    BY <1>0, <2>1, <2>3, HiddenStep
<1> QED
  BY <1>1, <1>2, <1>3, <1>4, <1>5, <1>6, DuplicateIsRecorded, FinalizeDelivers DEF ReceiverStep

\* With plain names, every step of the channel delivers, records or is hidden.
LEMMA NextKeepsPlain ==
    ASSUME TypeOK, OneAttempt, PlainNames, [Next]_vars
    PROVE  PlainNames' /\ [Delivery!Next]_<<Shelf, Received>>
<1>1. CASE UNCHANGED vars \/ EditSource
  <2>1. UNCHANGED <<snd, rcv, data, partial, final>>
    BY <1>1 DEF vars, EditSource, dirVars
  <2> QED
    BY <2>1, StillPlain, DirectoryOK DEF dirVars
<1>2. ASSUME NEW c \in Conns, UserStep(c) \/ SenderStep(c) \/ ReceiverStep(c) \/ Lose(c)
      PROVE  PlainNames' /\ [Delivery!Next]_<<Shelf, Received>>
  BY <1>2, OutsideKeepsPlain, ReceiverKeepsPlain, DirectoryOK DEF UserStep, OutsideStep
<1> QED
  BY <1>1, <1>2 DEF Next

\* The invariant of the plain names.
LEMMA PlainNamesHold ==
    ASSUME ~Overlap
    PROVE  Spec => []PlainNames
<1>1. Init => PlainNames
  BY InitPlainNames, DirectoryOK, ConstantsOK
<1>2. TypeOK /\ OneAttempt /\ PlainNames /\ [Next]_vars => PlainNames'
  BY NextKeepsPlain
<1> QED
  BY <1>1, <1>2, TypeCorrect, OneAttemptAtATime, PTL DEF Spec

\* The TCP channel keeps the promise of FileDelivery: as long as a name is sent
\* in one attempt at a time and the user takes the offered name or the plain one,
\* a receive brings a whole file under a free name or nothing, and records a
\* success only when the offered content is there - with any losses, refusals,
\* cancellations, edits of the source and failures of the disk.
THEOREM ReceivesAreDelivered ==
    ASSUME ~Overlap
    PROVE  Spec => Delivers
<1>1. Init => Delivery!Init
  <2> SUFFICES ASSUME Init PROVE Delivery!Init
    OBVIOUS
  <2>1. \A c \in Conns : rcv[c].hist = "none"
    BY DEF Init, NewRecv
  <2>2. PlainNames
    BY InitPlainNames, DirectoryOK, ConstantsOK
  <2>3. Shelf \in [Paths -> Contents \union {<<Hole>>}]
    BY <2>2 DEF PlainNames, FinalWhole, Shelf
  <2>4. Received = {}
    BY <2>1 DEF Received
  <2> QED
    BY <2>3, <2>4 DEF Delivery!Init
<1>2. TypeOK /\ OneAttempt /\ PlainNames /\ [Next]_vars => [Delivery!Next]_<<Shelf, Received>>
  BY NextKeepsPlain
<1>3. [Delivery!Next]_<<Shelf, Received>> => [Delivery!Next]_(Delivery!deliveryVars)
  BY DEF Delivery!deliveryVars
<1> QED
  BY <1>1, <1>2, <1>3, TypeCorrect, OneAttemptAtATime, PlainNamesHold, PTL
     DEF Spec, Delivers, Delivery!Spec

\* The same conditions keep what was received: a content that the history records as
\* received stands under some name from then on, whatever attempts come after it and
\* however they end, and under every name there is a whole content or nothing
\* (finish_receive, resolve_save_path, finalize).  The promise of FileDelivery is
\* enough for it: a file is recorded when it is there, and only free names are filled.
THEOREM ReceivedFilesStay ==
    ASSUME ~Overlap
    PROVE  Spec => [](Delivery!Whole /\ Delivery!Kept)
<1> DEFINE Promised == Delivery!Whole /\ Delivery!Kept
<1>1. Delivery!Init => Promised
  BY DEF Delivery!Init, Delivery!Whole, Delivery!Kept
<1>2. Promised /\ [Delivery!Next]_(Delivery!deliveryVars) => Promised'
  <2> SUFFICES ASSUME Promised, [Delivery!Next]_(Delivery!deliveryVars) PROVE Promised'
    OBVIOUS
  <2>1. <<Hole>> \notin Contents
    <3>1. Len(<<Hole>>) = 1 /\ <<Hole>>[1] = Hole
      OBVIOUS
    <3>2. ASSUME <<Hole>> \in Seq(Blocks) PROVE Hole \in Blocks
      BY <3>1, <3>2, ElementOfSeq
    <3> QED
      BY <3>2, DirectoryOK
  <2>2. Delivery!Whole'
    BY DEF Delivery!Whole, Delivery!Next, Delivery!Deliver, Delivery!Record, Delivery!deliveryVars
  <2>3. ASSUME NEW f \in Contents, Delivery!Record(f) PROVE Delivery!Kept'
    BY <2>3 DEF Delivery!Record, Delivery!Kept
  <2>4. ASSUME NEW f \in Contents, NEW n \in Paths, Delivery!Deliver(n, f) PROVE Delivery!Kept'
    <3> SUFFICES ASSUME NEW g \in Received' PROVE \E m \in Paths : Shelf'[m] = g
      BY DEF Delivery!Kept
    <3>1. Shelf'[n] = f
      BY <2>4 DEF Delivery!Deliver, Delivery!Whole
    <3>2. CASE g \in Received
      <4>1. PICK m \in Paths : Shelf[m] = g
        BY <3>2 DEF Delivery!Kept
      <4>2. m # n
        BY <2>1, <2>4, <3>2, <4>1 DEF Delivery!Deliver, Delivery!Whole
      <4> QED
        BY <2>4, <4>1, <4>2 DEF Delivery!Deliver, Delivery!Whole
    <3> QED
      BY <2>4, <3>1, <3>2 DEF Delivery!Deliver
  <2>5. ASSUME UNCHANGED Delivery!deliveryVars PROVE Delivery!Kept'
    BY <2>5 DEF Delivery!deliveryVars, Delivery!Kept
  <2>6. Delivery!Kept'
    BY <2>3, <2>4, <2>5 DEF Delivery!Next
  <2> QED
    BY <2>2, <2>6
<1> HIDE DEF Promised
<1>3. Delivery!Spec => []Promised
  BY <1>1, <1>2, PTL DEF Delivery!Spec
<1>4. Spec => Delivery!Spec
  BY ReceivesAreDelivered DEF Delivers
<1> QED
  BY <1>3, <1>4, PTL DEF Promised

\* Under the same conditions no file in the save directory is ever overwritten or
\* removed by a receive.
THEOREM FilesAreKept ==
    ASSUME ~Overlap
    PROVE  Spec => NoOverwrite
<1>1. TypeOK /\ OneAttempt /\ PlainNames /\ [Next]_vars
        => [\A p \in Paths : ~Free(p) =>
               final'[p] # NoFile /\ data'[final'[p]] = data[final[p]]]_dirVars
  BY StepFilesStay, DirectoryOK DEF FilesStay, Free
<1> QED
  BY <1>1, TypeCorrect, OneAttemptAtATime, PlainNamesHold, PTL DEF Spec, NoOverwrite


-----------------------------------------------------------------------------
(* The stream: the bytes on their way belong to the file that was offered. *)

\* At first nothing is on its way.
LEMMA InitStream == DirectoryOK /\ ConstantsOK /\ Init => Stream
<1> SUFFICES ASSUME DirectoryOK, ConstantsOK, Init PROVE Stream
  OBVIOUS
<1>1. \A c \in Conns : /\ snd[c].pc = "idle" /\ rcv[c].pc = "idle" /\ rcv[c].pos = 0
                       /\ toR[c] = <<>> /\ toS[c] = <<>>
  BY DEF Init, NewSend, NewRecv
<1> QED
  BY <1>1 DEF Stream, Unedited, Flow, Waiting, Level, InOrder, Prefix

\* What an attempt that does not move has on its way stays right.
LEMMA FlowUnseen ==
    ASSUME NEW d \in Conns, Flow(d), SameView(d), src' = src,
           UNCHANGED dirVars \/ rcv[d].pc \in {"idle", "done"}
    PROVE  Flow(d)'
<1>1. CASE UNCHANGED dirVars
  BY <1>1 DEF Flow, SameView, dirVars, Waiting, Level, InOrder, Prefix, Same, Base,
              ResumeOffset, TooLong
<1>2. CASE rcv[d].pc \in {"idle", "done"}
  BY <1>2 DEF Flow, SameView, Waiting, Level, InOrder, Prefix
<1> QED
  BY <1>1, <1>2

\* The part that lies before what is on its way is no longer than the file.
LEMMA BaseType ==
    ASSUME DirectoryOK, TypeOK, NEW c \in Conns, Waiting(c), rcv[c].pc \in {"open", "recv"}
    PROVE  /\ Base(c) \in Nat /\ Base(c) <= Len(snd[c].file)
           /\ rcv[c].pc = "recv" => Base(c) + rcv[c].left = Len(snd[c].file)
<1>1. Len(snd[c].file) \in Nat
  BY LenType
<1>2. CASE rcv[c].pc = "open"
  <2>1. rcv[c].path \in Paths
    BY DEF TypeOK, RecvRec
  <2> QED
    BY <1>2, <2>1, ResumeOffsetType DEF Base
<1>3. CASE rcv[c].pc = "recv"
  <2>1. rcv[c].left \in Nat /\ rcv[c].left <= Len(snd[c].file)
    BY <1>3 DEF TypeOK, RecvRec, Waiting
  <2>2. Base(c) = Len(snd[c].file) - rcv[c].left
    BY <1>3 DEF Base
  <2> QED
    BY <1>1, <1>3, <2>1, <2>2
<1> QED
  BY <1>2, <1>3

\* The same of what a sender adds at the end of the stream.
LEMMA AddedInOrder ==
    ASSUME TypeOK, NEW c \in Conns, InOrder(c), NEW m \in ToReceiver,
           rcv' = rcv, src' = src, snd'[c].file = snd[c].file, Base(c)' = Base(c),
           snd[c].pc # "idle",
           \/ toR'[c] = toR[c]
           \/ /\ toR'[c] = Append(toR[c], m)
              /\ rcv[c].pc \in {"open", "recv"} /\ Same(c)
                    => Right(snd[c].file, Base(c), Len(toR[c]) + 1, m)
    PROVE  InOrder(c)'
<1> SUFFICES ASSUME rcv[c].pc \in {"open", "recv"}, snd[c].file = src,
                    NEW k \in 1..Len(toR'[c])
             PROVE  Right(snd[c].file, Base(c), k, toR'[c][k])
  BY DEF InOrder, Same
<1>1. Same(c)
  BY DEF Same
<1>2. toR[c] \in Seq(ToReceiver) /\ Len(toR[c]) \in Nat
  BY LenProperties DEF TypeOK
<1>3. CASE toR'[c] = toR[c]
  BY <1>1, <1>3 DEF InOrder
<1>4. CASE toR'[c] = Append(toR[c], m) /\ Right(snd[c].file, Base(c), Len(toR[c]) + 1, m)
  <2>1. /\ Len(toR'[c]) = Len(toR[c]) + 1 /\ toR'[c][Len(toR[c]) + 1] = m
        /\ \A j \in 1..Len(toR[c]) : toR'[c][j] = toR[c][j]
    BY <1>2, <1>4, AppendProperties
  <2>2. k = Len(toR[c]) + 1 \/ k \in 1..Len(toR[c])
    BY <1>2, <2>1
  <2> QED
    BY <1>1, <1>4, <2>1, <2>2 DEF InOrder
<1> QED
  BY <1>1, <1>3, <1>4

\* Where the stream stands does not depend on the sender's coroutine.
LEMMA BaseStays ==
    ASSUME NEW c \in Conns, snd'[c].file = snd[c].file,
           rcv'[c].pc = rcv[c].pc, rcv'[c].path = rcv[c].path, rcv'[c].left = rcv[c].left,
           UNCHANGED dirVars
    PROVE  Base(c)' = Base(c)
BY DEF Base, ResumeOffset, TooLong, dirVars

\* A sender that gets its answer starts where the receiver expects it to.
LEMMA AnswerKeepsFlow ==
    ASSUME DirectoryOK, TypeOK, NEW c \in Conns, Flow(c), RecvAccept(c)
    PROVE  Waiting(c)' /\ Level(c)'
<1> DEFINE o == Head(toS[c]).off
           size == Len(snd[c].file)
<1>1. /\ snd[c].pc = "reply" /\ toS[c] # <<>> /\ toR' = toR /\ rcv' = rcv /\ lost' = lost
      /\ UNCHANGED dirVars
  BY DEF RecvAccept, Gets
<1>2. /\ snd'[c].file = snd[c].file
      /\ \/ snd'[c].pc = "end"
         \/ snd'[c].pc = "send" /\ snd'[c].off = o /\ ~(o >= size)
  BY DEF RecvAccept, TypeOK, SendRec
<1>3. Base(c)' = Base(c)
  BY <1>1, <1>2, BaseStays
<1>4. rcv[c].pc \notin {"idle", "confirm"}
  BY <1>1 DEF Flow, Waiting
<1>5. Waiting(c)'
  BY <1>1, <1>2, <1>4 DEF Flow, Waiting
<1>6. o \in Nat /\ size \in Nat
  <2>1. Head(toS[c]) \in ToSender /\ Head(toS[c]).type = "accept"
    BY HeadTailProperties DEF RecvAccept, Gets, TypeOK
  <2> QED
    BY <2>1, LenType DEF ToSender
<1>7. Level(c)'
  <2>1. CASE snd'[c].pc = "end"
    BY <2>1 DEF Level
  <2>2. CASE snd'[c].pc = "send" /\ snd'[c].off = o /\ ~(o >= size)
    <3>1. o <= size
      BY <1>6, <2>2
    <3>2. ASSUME c \notin lost, rcv[c].pc \in {"open", "recv"}
          PROVE  o = Base(c) + Len(toR[c])
      <4>1. toR[c] = <<>> /\ Head(toS[c]) = AcceptLine(Base(c))
        BY <1>1, <3>2 DEF Flow, Level
      <4>2. o = Base(c) /\ Len(toR[c]) = 0
        BY <4>1 DEF AcceptLine
      <4> QED
        BY <1>6, <4>2
    <3> QED
      BY <1>1, <1>2, <1>3, <2>2, <3>1, <3>2 DEF Level
  <2> QED
    BY <1>2, <2>1, <2>2
<1> QED
  BY <1>5, <1>7

\* A block that is sent is the next one of what was offered.
LEMMA DataKeepsFlow ==
    ASSUME DirectoryOK, TypeOK, NEW c \in Conns, Flow(c), SendData(c)
    PROVE  Waiting(c)' /\ Level(c)' /\ InOrder(c)'
<1> DEFINE o == snd[c].off
           m == DataItem(src[snd[c].off + 1])
<1>1. /\ snd[c].pc = "send" /\ o < Len(snd[c].file) /\ o < Len(src) /\ TellReceiver(c, m)
      /\ rcv' = rcv /\ toS' = toS /\ lost' = lost /\ src' = src /\ UNCHANGED dirVars
  BY DEF SendData, srcVars
<1>2. snd'[c].file = snd[c].file /\ snd'[c].pc = "send" /\ snd'[c].off = o + 1
  BY DEF SendData, TypeOK, SendRec
<1>3. Base(c)' = Base(c)
  BY <1>1, <1>2, BaseStays
<1>4. rcv[c].pc \notin {"idle", "confirm"}
  BY <1>1 DEF Flow, Waiting
<1>5. Waiting(c)'
  BY <1>1, <1>2, <1>4 DEF Flow, Waiting
<1>6. /\ o \in Nat /\ Len(snd[c].file) \in Nat /\ toR[c] \in Seq(ToReceiver)
      /\ Len(toR[c]) \in Nat /\ m \in ToReceiver
  <2>1. o \in Nat /\ src \in Seq(Blocks) /\ Len(src) \in Nat
    BY LenProperties DEF TypeOK, SendRec, DirectoryOK
  <2>2. o + 1 \in 1..Len(src)
    BY <1>1, <2>1
  <2>3. src[o + 1] \in Blocks
    BY <2>1, <2>2, ElementOfSeq
  <2> QED
    BY <2>1, <2>3, LenType, LenProperties, MessageTypes DEF TypeOK
<1>7. toR'[c] = IF ReceiverGone(c) THEN toR[c] ELSE Append(toR[c], m)
  BY <1>1 DEF TellReceiver, TypeOK
<1>8. ASSUME c \notin lost, rcv[c].pc \in {"open", "recv"}
      PROVE  /\ toR'[c] = Append(toR[c], m) /\ Len(toR'[c]) = Len(toR[c]) + 1
             /\ o = Base(c) + Len(toR[c]) /\ Base(c) \in Nat
  <2>1. toR'[c] = Append(toR[c], m)
    BY <1>7, <1>8 DEF ReceiverGone
  <2>2. o = Base(c) + Len(toR[c])
    BY <1>1, <1>8 DEF Flow, Level
  <2>3. Base(c) \in Nat
    BY <1>8, BaseType DEF Flow
  <2> QED
    BY <1>6, <2>1, <2>2, <2>3, AppendProperties
<1>9. Level(c)'
  <2>1. o + 1 <= Len(snd[c].file)
    BY <1>1, <1>6
  <2>2. ASSUME c \notin lost, rcv[c].pc \in {"open", "recv"}
        PROVE  o + 1 = Base(c) + Len(toR'[c])
    <3>1. /\ Len(toR'[c]) = Len(toR[c]) + 1 /\ o = Base(c) + Len(toR[c])
          /\ Base(c) \in Nat
      BY <1>8, <2>2
    <3> HIDE DEF o
    <3> QED
      BY <1>6, <3>1
  <2> QED
    BY <1>1, <1>2, <1>3, <2>1, <2>2 DEF Level
<1>10. InOrder(c)'
  <2>1. CASE toR'[c] = toR[c]
    BY <1>1, <1>2, <1>3, <1>6, <2>1, AddedInOrder DEF Flow
  <2>2. CASE toR'[c] = Append(toR[c], m) /\ c \notin lost
    <3>1. ASSUME rcv[c].pc \in {"open", "recv"}, Same(c)
          PROVE  Right(snd[c].file, Base(c), Len(toR[c]) + 1, m)
      <4>1. Base(c) + (Len(toR[c]) + 1) = o + 1 /\ o + 1 <= Len(snd[c].file)
        <5>1. o = Base(c) + Len(toR[c]) /\ Base(c) \in Nat
          BY <1>8, <2>2, <3>1
        <5>2. o < Len(snd[c].file)
          BY <1>1
        <5>3. o \in Nat /\ Len(snd[c].file) \in Nat /\ Len(toR[c]) \in Nat
          BY <1>6
        <5> DEFINE b == Base(c)
                   size == Len(snd[c].file)
                   n == Len(toR[c])
        <5>4. /\ o = b + n /\ b \in Nat /\ o < size
              /\ o \in Nat /\ size \in Nat /\ n \in Nat
          BY <5>1, <5>2, <5>3
        <5> HIDE DEF o, m, b, size, n
        <5>5. b + (n + 1) = o + 1 /\ o + 1 <= size
          BY <5>4
        <5> QED
          BY <5>5 DEF b, size, n
      <4>2. m.type = "data" /\ m.blk = snd[c].file[o + 1]
        BY <3>1 DEF DataItem, Same
      <4> HIDE DEF o, m
      <4> QED
        BY <4>1, <4>2 DEF Right
    <3> QED
      BY <1>1, <1>2, <1>3, <1>6, <2>2, <3>1, AddedInOrder DEF Flow
  <2> QED
    BY <1>7, <2>1, <2>2 DEF ReceiverGone
<1> QED
  BY <1>5, <1>9, <1>10

\* The hash follows the last block, unless the source got shorter.
LEMMA HashKeepsFlow ==
    ASSUME DirectoryOK, TypeOK, Offered, NEW c \in Conns, Flow(c), SendHash(c)
    PROVE  Waiting(c)' /\ Level(c)' /\ InOrder(c)'
<1> DEFINE o == snd[c].off
           m == HashItem(snd[c].file)
<1>1. /\ snd[c].pc = "send"
      /\ rcv' = rcv /\ toS' = toS /\ lost' = lost /\ src' = src /\ UNCHANGED dirVars
  BY DEF SendHash, srcVars
<1>2. snd'[c].file = snd[c].file /\ snd'[c].pc = "end"
  BY DEF SendHash, Returned, TypeOK, SendRec
<1>3. Base(c)' = Base(c)
  BY <1>1, <1>2, BaseStays DEF SendHash
<1>4. rcv[c].pc \notin {"idle", "confirm"}
  BY DEF Flow, Waiting, SendHash
<1>5. Waiting(c)' /\ Level(c)'
  BY <1>2, <1>4 DEF Flow, Waiting, Level, SendHash
<1>6. /\ o \in Nat /\ Len(snd[c].file) \in Nat /\ toR[c] \in Seq(ToReceiver)
      /\ Len(toR[c]) \in Nat /\ m \in ToReceiver
  BY LenType, LenProperties, MessageTypes DEF TypeOK, SendRec, Offered, SendHash
<1>7. toR'[c] = IF ReceiverGone(c) THEN toR[c] ELSE Append(toR[c], m)
  BY DEF SendHash, TellReceiver, TypeOK
<1>8. InOrder(c)'
  <2>1. CASE toR'[c] = toR[c]
    BY <1>1, <1>2, <1>3, <1>6, <2>1, AddedInOrder DEF Flow, SendHash, srcVars
  <2>2. CASE toR'[c] = Append(toR[c], m) /\ c \notin lost
    <3>1. ASSUME rcv[c].pc \in {"open", "recv"}, Same(c)
          PROVE  Right(snd[c].file, Base(c), Len(toR[c]) + 1, m)
      <4>1. o = Len(snd[c].file)
        BY <1>6, <3>1 DEF SendHash, Same, Flow, Level
      <4>2. o = Base(c) + Len(toR[c])
        BY <2>2, <3>1 DEF SendHash, Flow, Level
      <4>3. Base(c) \in Nat
        BY <3>1, BaseType DEF Flow
      <4>4. Base(c) + (Len(toR[c]) + 1) = Len(snd[c].file) + 1
        BY <1>6, <4>1, <4>2, <4>3
      <4> QED
        BY <4>4 DEF Right
    <3> QED
      BY <1>2, <1>3, <1>6, <2>2, <3>1, AddedInOrder DEF Flow, SendHash, srcVars
  <2> QED
    BY <1>7, <2>1, <2>2 DEF ReceiverGone
<1> QED
  BY <1>5, <1>8

\* Every step of a sender keeps its stream right.
LEMMA SenderKeepsFlow ==
    ASSUME DirectoryOK, TypeOK, Offered, NEW c \in Conns, Flow(c), SenderStep(c)
    PROVE  Flow(c)'
<1>1. /\ snd[c].pc # "idle" /\ snd'[c].pc # "idle" /\ snd'[c].file = snd[c].file
      /\ rcv' = rcv /\ lost' = lost /\ src' = src /\ UNCHANGED dirVars
  BY SenderFrame DEF srcVars
<1>2. Base(c)' = Base(c)
  BY <1>1, BaseStays
<1>3. Prefix(c)'
  BY <1>1, <1>2 DEF Flow, Prefix, Same, dirVars
<1>4. CASE RecvAccept(c)
  <2>1. toR' = toR
    BY <1>4 DEF RecvAccept
  <2>2. InOrder(c)'
    BY <1>1, <1>2, <2>1 DEF Flow, InOrder, Same
  <2> QED
    BY <1>3, <1>4, <2>2, AnswerKeepsFlow DEF Flow
<1>5. CASE RecvReject(c) \/ SeeCancel(c) \/ SendFails(c) \/ FinishSend(c)
  <2>1. toR' = toR /\ snd'[c].pc \in {"end", "done"}
    <3>1. CASE FinishSend(c)
      BY <3>1, SendEndsWith DEF FinishSend
    <3>2. CASE RecvReject(c) \/ SeeCancel(c) \/ SendFails(c)
      BY <3>2 DEF RecvReject, SeeCancel, SendFails, Returned, TypeOK, SendRec
    <3> QED
      BY <1>5, <3>1, <3>2
  <2>2. toS'[c] = toS[c] \/ toS[c] # <<>> \/ toS'[c] = <<>>
    <3>1. CASE FinishSend(c)
      BY <3>1, SendEndsWith DEF FinishSend
    <3>2. CASE RecvReject(c) \/ SeeCancel(c) \/ SendFails(c)
      BY <3>2 DEF RecvReject, SeeCancel, SendFails, Gets
    <3> QED
      BY <1>5, <3>1, <3>2
  <2>3. Waiting(c)'
    BY <1>1, <2>1, <2>2 DEF Flow, Waiting
  <2>4. Level(c)'
    BY <2>1 DEF Level
  <2>5. InOrder(c)'
    BY <1>1, <1>2, <2>1 DEF Flow, InOrder, Same
  <2> QED
    BY <1>3, <2>3, <2>4, <2>5 DEF Flow
<1> QED
  BY <1>3, <1>4, <1>5, DataKeepsFlow, HashKeepsFlow DEF SenderStep, Flow

\* Losing the last of at most one item leaves none.
LEMMA LastLost ==
    ASSUME NEW S, NEW q \in Seq(S), Len(q) <= 1
    PROVE  SubSeq(q, 1, Len(q) - 1) = <<>>
<1> DEFINE n == Len(q) - 1
<1>1. Len(q) \in Nat
  BY LenProperties
<1>2. n \in Int /\ ~(1 <= n) /\ \A i \in 1..n : q[i] \in S
  BY <1>1
<1>3. SubSeq(q, 1, n) \in Seq(S) /\ Len(SubSeq(q, 1, n)) = 0
  BY <1>2, SubSeqProperties
<1> QED
  BY <1>3, EmptySeq

\* Users and network: nothing moves, but the last item may be lost.
LEMMA OutsideKeepsFlow ==
    ASSUME DirectoryOK, TypeOK, Asked, NEW c \in Conns, Flow(c), OutsideStep(c)
    PROVE  Flow(c)'
<1>1. /\ snd'[c].pc = snd[c].pc /\ snd'[c].file = snd[c].file /\ snd'[c].off = snd[c].off
      /\ rcv'[c].pc = rcv[c].pc /\ rcv'[c].handle = rcv[c].handle
      /\ rcv'[c].pos = rcv[c].pos /\ rcv'[c].left = rcv[c].left /\ rcv'[c].from = rcv[c].from
      /\ rcv'[c].path = rcv[c].path \/ rcv[c].pc = "confirm"
      /\ src' = src /\ UNCHANGED dirVars
  BY OutsideFrame
<1>2. rcv[c].pc # "confirm" => Base(c)' = Base(c)
  BY <1>1, BaseStays
<1>3. Prefix(c)'
  BY <1>1, <1>2 DEF Flow, Prefix, Same, dirVars
<1>4. CASE UNCHANGED <<toR, toS, lost>>
  <2>1. Waiting(c)' /\ InOrder(c)'
    BY <1>1, <1>2, <1>4 DEF Flow, Waiting, InOrder, Same
  <2>2. Level(c)'
    BY <1>1, <1>2, <1>4 DEF Flow, Level
  <2> QED
    BY <1>3, <2>1, <2>2 DEF Flow
<1>5. CASE Lose(c)
  <2>1. /\ c \in lost'
        /\ toR'[c] = toR[c] \/ toR'[c] = SubSeq(toR[c], 1, Len(toR[c]) - 1)
        /\ toS'[c] = toS[c] \/ toS'[c] = SubSeq(toS[c], 1, Len(toS[c]) - 1)
    BY <1>5 DEF Lose, WithoutLast, TypeOK
  <2>2. Level(c)'
    BY <1>1, <2>1 DEF Flow, Level
  <2>3. /\ Len(toR'[c]) <= Len(toR[c]) /\ Len(toR'[c]) \in Nat
        /\ \A k \in 1..Len(toR'[c]) : toR'[c][k] = toR[c][k] /\ k \in 1..Len(toR[c])
    <3>1. toR[c] \in Seq(ToReceiver) /\ Len(toR[c]) \in Nat
      BY LenProperties DEF TypeOK
    <3>2. CASE toR'[c] = SubSeq(toR[c], 1, Len(toR[c]) - 1)
      BY <3>1, <3>2, AllButLast, LenProperties
    <3> QED
      BY <2>1, <3>1, <3>2
  <2>4. InOrder(c)'
    BY <1>1, <1>2, <2>3 DEF Flow, InOrder, Same
  <2>5. toS[c] = <<>> => toS'[c] = <<>>
    <3>1. toS[c] \in Seq(ToSender)
      BY DEF TypeOK
    <3>2. toS[c] = <<>> => Len(toS[c]) <= 1
      BY EmptySeq
    <3> QED
      BY <2>1, <3>1, <3>2, LastLost
  <2>6. /\ toR[c] = <<>> => toR'[c] = <<>>
        /\ toR[c] = <<OfferLine>> => toR'[c] = <<>> \/ toR'[c] = <<OfferLine>>
    <3>1. toR[c] \in Seq(ToReceiver)
      BY DEF TypeOK
    <3>2. toR[c] = <<>> => Len(toR[c]) <= 1
      BY EmptySeq
    <3>3. toR[c] = <<OfferLine>> => Len(toR[c]) <= 1
      OBVIOUS
    <3> QED
      BY <2>1, <3>1, <3>2, <3>3, LastLost
  <2>7. Waiting(c)'
    BY <1>1, <2>5, <2>6 DEF Flow, Waiting
  <2> QED
    BY <1>3, <2>2, <2>4, <2>7 DEF Flow
<1> QED
  BY <1>4, <1>5, OutsideFrame

\* An attempt starts with the offer on its way, of what the source holds.
LEMMA StartKeepsFlow ==
    ASSUME DirectoryOK, TypeOK, Unstarted, NEW c \in Conns, Flow(c), StartSend(c)
    PROVE  Flow(c)' /\ snd'[c].file = src
<1>1. /\ snd[c].pc = "idle" /\ rcv[c].pc = "idle" /\ toR[c] = <<>>
      /\ rcv' = rcv /\ toS' = toS /\ lost' = lost /\ src' = src
  BY DEF StartSend, MayStart, Unstarted, srcVars
<1>2. snd'[c].pc = "reply" /\ snd'[c].file = src
  BY DEF StartSend, TypeOK, SendRec
<1>3. toR'[c] = <<>> \/ toR'[c] = Append(<<>>, OfferLine)
  BY <1>1 DEF StartSend, TellReceiver, TypeOK
<1>4. toR'[c] = <<>> \/ toR'[c] = <<OfferLine>>
  BY <1>3
<1> QED
  BY <1>1, <1>2, <1>4 DEF Flow, Waiting, Level, InOrder, Prefix

\* Deleting a partial file that is too long does not change the resume offset.
LEMMA OffsetAfter ==
    ASSUME TypeOK, NEW p \in Paths, NEW c \in Conns, data' = data, snd' = snd,
           partial' = AfterValidate(p, snd[c].file)
    PROVE  ResumeOffset(p, snd[c].file)' = ResumeOffset(p, snd[c].file)
BY DEF ResumeOffset, AfterValidate, TooLong, TypeOK

\* The answer says how much of the file is there.
LEMMA PlanKeepsFlow ==
    ASSUME DirectoryOK, TypeOK, NEW c \in Conns, Flow(c), OfferPlanned(c) \/ Accepted(c)
    PROVE  Flow(c)'
<1> DEFINE p == rcv'[c].path
           o == ResumeOffset(p, snd[c].file)
<1>1. /\ rcv[c].pc \in {"idle", "confirm"} /\ rcv'[c].pc \in {"confirm", "open"}
      /\ p \in Paths /\ rcv'[c].pos = rcv[c].pos
      /\ partial' = AfterValidate(p, snd[c].file)
      /\ data' = data /\ snd' = snd /\ lost' = lost /\ src' = src
      /\ rcv'[c].pc = "open" => TellSender(c, AcceptLine(o))
      /\ rcv'[c].pc = "confirm" => toS' = toS
      /\ toR[c] = <<>> \/ toR'[c] = Tail(toR[c])
      /\ rcv[c].pc = "confirm" => toR'[c] = toR[c]
      /\ rcv[c].pc = "idle" => toR[c] # <<>>
  <2>1. CASE OfferPlanned(c)
    <3>1. /\ rcv[c].pc = "idle" /\ toR[c] # <<>> /\ toR'[c] = Tail(toR[c])
      BY <2>1 DEF OfferPlanned, GotOffer, Gets, Taken, TypeOK
    <3>2. 1 \in Paths /\ FreeFrom(1) # {} /\ p = ResolveSavePath(1)
      BY <2>1 DEF OfferPlanned, TypeOK, RecvRec, DirectoryOK, Paths
    <3>3. p \in Paths
      BY <3>2, SavePathIsFree
    <3>4. /\ rcv'[c].pc \in {"confirm", "open"} /\ rcv'[c].pos = rcv[c].pos
          /\ rcv'[c].pc = "open" => AutoAccept
          /\ rcv'[c].pc = "confirm" => ~AutoAccept
      BY <2>1 DEF OfferPlanned, TypeOK, RecvRec
    <3> QED
      BY <2>1, <3>1, <3>2, <3>3, <3>4 DEF OfferPlanned, srcVars
  <2>2. CASE Accepted(c)
    <3>1. /\ rcv[c].pc = "confirm" /\ rcv'[c].pc = "open" /\ rcv'[c].pos = rcv[c].pos
          /\ FreeFrom(rcv[c].path) # {} /\ p = ResolveConflict(rcv[c].path, snd[c].file)
          /\ rcv[c].path \in Paths
      BY <2>2 DEF Accepted, TypeOK, RecvRec
    <3>2. p \in Paths
      BY <3>1, ResolveConflictType
    <3>3. toR[c] = <<>> /\ toR' = toR
      BY <2>2, <3>1 DEF Flow, Waiting, Accepted
    <3> QED
      BY <2>2, <3>1, <3>2, <3>3 DEF Accepted, srcVars
  <2> QED
    BY <2>1, <2>2
<1>2. rcv'[c].pc = "open" => Base(c)' = o
  <2>1. PICK q \in Paths : q = rcv'[c].path
    BY <1>1
  <2>2. ResumeOffset(q, snd[c].file)' = ResumeOffset(q, snd[c].file)
    BY <1>1, <2>1, OffsetAfter
  <2>3. rcv'[c].pc = "open" => Base(c)' = ResumeOffset(q, snd[c].file)'
    BY <2>1 DEF Base, ResumeOffset, TooLong
  <2> QED
    BY <2>1, <2>2, <2>3
<1>3. /\ toR'[c] = <<>> /\ toS[c] = <<>> /\ snd[c].pc # "send" /\ rcv[c].pos = 0
  <2>1. CASE rcv[c].pc = "idle"
    <3>1. toR[c] = <<OfferLine>> /\ toR'[c] = Tail(<<OfferLine>>)
      BY <1>1, <2>1 DEF Flow, Waiting
    <3> QED
      BY <2>1, <3>1 DEF Flow, Waiting
  <2>2. CASE rcv[c].pc = "confirm"
    BY <1>1, <2>2 DEF Flow, Waiting
  <2> QED
    BY <1>1, <2>1, <2>2
<1>5. rcv'[c].pc = "open" => toS'[c] = <<>> \/ toS'[c] = Append(<<>>, AcceptLine(o))
  BY <1>1, <1>3 DEF TellSender, TypeOK
<1>6. rcv'[c].pc = "open" /\ toS'[c] # <<>> => Head(toS'[c]) = AcceptLine(o)
  BY <1>5
<1>7. Len(toR'[c]) = 0
  BY <1>3
<1> HIDE DEF p, o
<1>8. Waiting(c)'
  BY <1>1, <1>3 DEF Waiting
<1>9. Level(c)'
  BY <1>1, <1>2, <1>3, <1>6 DEF Level
<1>10. InOrder(c)' /\ Prefix(c)'
  BY <1>1, <1>7 DEF InOrder, Prefix
<1> QED
  BY <1>8, <1>9, <1>10 DEF Flow

\* The file is opened where the answer said it ends.
LEMMA OpenKeepsFlow ==
    ASSUME DirectoryOK, TypeOK, Fresh, NEW c \in Conns, Flow(c), OpenPartial(c)
    PROVE  Flow(c)'
<1> DEFINE p == rcv[c].path
           f == snd[c].file
           o == ResumeOffset(p, f)
           h == rcv'[c].handle
<1>1. /\ rcv[c].pc = "open" /\ rcv'[c].pc = "recv" /\ p \in Paths
      /\ rcv'[c].pos = rcv[c].pos /\ rcv'[c].from = o /\ rcv'[c].left = Len(f) - o
      /\ data' = data /\ toR' = toR /\ toS' = toS /\ snd' = snd /\ lost' = lost /\ src' = src
      /\ IF partial[p] = NoFile \/ TooLong(p, f) THEN h = c ELSE h = partial[p]
  BY Opened
<1>2. o \in Nat /\ o <= Len(f) /\ Len(f) \in Nat
  BY <1>1, ResumeOffsetType, LenType
<1>3. Base(c) = o /\ Base(c)' = o
  <2>1. Base(c) = o
    BY <1>1 DEF Base
  <2>2. Base(c)' = Len(f) - (Len(f) - o)
    BY <1>1 DEF Base
  <2> HIDE DEF o, f
  <2> QED
    BY <1>2, <2>1, <2>2
<1>4. rcv'[c].left <= Len(f)
  <2> HIDE DEF o, f
  <2> QED
    BY <1>1, <1>2
<1>5. Waiting(c)'
  BY <1>1, <1>4 DEF Flow, Waiting
<1>6. Level(c)' /\ InOrder(c)'
  BY <1>1, <1>3 DEF Flow, Level, InOrder, Same
<1>7. Prefix(c)'
  <2> SUFFICES ASSUME o = 0 PROVE rcv'[c].pos = 0 /\ Len(data'[h]) = 0
    BY <1>1, <1>3 DEF Prefix
  <2>1. rcv'[c].pos = 0
    BY <1>1 DEF Flow, Waiting
  <2>2. data[c] = <<>> /\ Len(<<>>) = 0
    BY <1>1 DEF Fresh
  <2>3. Len(data[h]) = 0
    <3>1. CASE h = c
      BY <2>2, <3>1
    <3>2. CASE ~(partial[p] = NoFile \/ TooLong(p, f))
      <4>1. o = Len(data[partial[p]]) /\ h = partial[p]
        BY <1>1, <3>2 DEF ResumeOffset
      <4> HIDE DEF o, h
      <4> QED
        BY <4>1
    <3> QED
      BY <1>1, <3>1, <3>2
  <2> QED
    BY <1>1, <2>1, <2>3
<1> QED
  BY <1>5, <1>6, <1>7 DEF Flow

\* A block that is read is the next one of the file, and written behind the others.
LEMMA ReadKeepsFlow ==
    ASSUME DirectoryOK, TypeOK, HoldsPartial, NEW c \in Conns, Flow(c), RecvData(c)
    PROVE  Flow(c)'
<1> DEFINE f == snd[c].file
           h == rcv[c].handle
           n == Base(c)
           m == Head(toR[c])
<1>1. /\ rcv[c].pc = "recv" /\ rcv'[c].pc = "recv" /\ rcv[c].left > 0
      /\ rcv'[c].handle = h /\ rcv'[c].from = rcv[c].from
      /\ rcv'[c].pos = rcv[c].pos + 1 /\ rcv'[c].left = rcv[c].left - 1
      /\ toS' = toS /\ snd' = snd /\ lost' = lost /\ src' = src
      /\ toR[c] # <<>> /\ toR'[c] = Tail(toR[c])
  BY Written
<1>2. /\ n \in Nat /\ n <= Len(f) /\ n + rcv[c].left = Len(f)
      /\ Len(f) \in Nat /\ rcv[c].left \in Nat
  BY <1>1, BaseType, LenType DEF Flow, TypeOK, RecvRec
<1>3. Base(c)' = n + 1 /\ rcv'[c].left <= Len(f)
  <2>1. Base(c)' = Len(f) - (rcv[c].left - 1)
    BY <1>1 DEF Base
  <2> HIDE DEF n, f
  <2> QED
    BY <1>1, <1>2, <2>1
<1>4. /\ Len(toR[c]) \in Nat /\ Len(toR'[c]) = Len(toR[c]) - 1
      /\ \A k \in 1..Len(toR'[c]) : toR'[c][k] = toR[c][k + 1] /\ k + 1 \in 1..Len(toR[c])
      /\ m = toR[c][1] /\ 1 \in 1..Len(toR[c])
  <2>1. toR[c] \in Seq(ToReceiver) /\ Len(toR[c]) \in Nat
    BY LenProperties DEF TypeOK
  <2>2. /\ Len(toR'[c]) = Len(toR[c]) - 1 /\ m = toR[c][1]
        /\ \A k \in 1..Len(toR'[c]) : toR'[c][k] = toR[c][k + 1]
    BY <1>1, <2>1, HeadTailProperties
  <2>3. 1 \in 1..Len(toR[c])
    BY <1>1, <2>1, EmptySeq, LenProperties
  <2> QED
    BY <2>1, <2>2, <2>3
<1>5. Waiting(c)'
  BY <1>1, <1>3 DEF Flow, Waiting
<1>6. Level(c)'
  <2>1. ASSUME c \notin lost
        PROVE  /\ snd[c].pc # "reply"
               /\ snd[c].pc = "send" => snd[c].off = n + 1 + Len(toR'[c])
    <3>1. /\ snd[c].pc = "reply" => toR[c] = <<>>
          /\ snd[c].pc = "send" => snd[c].off = n + Len(toR[c])
      BY <1>1, <2>1 DEF Flow, Level
    <3> HIDE DEF n
    <3> QED
      BY <1>1, <1>2, <1>4, <3>1
  <2> QED
    BY <1>1, <1>3, <2>1 DEF Flow, Level
<1>7. InOrder(c)'
  <2> SUFFICES ASSUME Same(c), NEW k \in 1..Len(toR'[c])
               PROVE  Right(f, n + 1, k, toR'[c][k])
    BY <1>1, <1>3 DEF InOrder, Same
  <2>1. Right(f, n, k + 1, toR'[c][k])
    BY <1>1, <1>4 DEF Flow, InOrder
  <2>2. n + (k + 1) = n + 1 + k
    BY <1>2
  <2> HIDE DEF n, f
  <2> QED
    BY <2>1, <2>2 DEF Right
<1>8. Prefix(c)'
  <2> SUFFICES ASSUME rcv[c].from = 0, Same(c)
               PROVE  /\ rcv'[c].pos = n + 1 /\ Len(data'[h]) = n + 1
                      /\ \A k \in 1..(n + 1) : data'[h][k] = f[k]
    BY <1>1, <1>3 DEF Prefix, Same
  <2>1. /\ rcv[c].pos = n /\ Len(data[h]) = n
        /\ \A k \in 1..n : data[h][k] = f[k]
    BY <1>1 DEF Flow, Prefix
  <2>2. m.type = "data" /\ m.blk = f[n + 1]
    <3>1. Right(f, n, 1, m)
      BY <1>1, <1>4 DEF Flow, InOrder
    <3>2. n + 1 # Len(f) + 1
      <4> HIDE DEF n, f
      <4> QED
        BY <1>1, <1>2
    <3> QED
      BY <3>1, <3>2 DEF Right
  <2>3. h \in Inodes /\ data[h] \in Disk
    BY <1>1 DEF HoldsPartial, Writing, TypeOK, RecvRec
  <2>4. data'[h] = WriteAt(data[h], Len(data[h]), f[n + 1])
    BY <2>1, <2>2, <2>3 DEF RecvData, TypeOK
  <2>5. /\ Len(data'[h]) = n + 1 /\ data'[h][n + 1] = f[n + 1]
        /\ \A k \in 1..n : data'[h][k] = data[h][k]
    BY <2>1, <2>3, <2>4, WriteAtEnd
  <2>6. \A k \in 1..(n + 1) : k \in 1..n \/ k = n + 1
    BY <1>2
  <2> HIDE DEF n, f, h
  <2> QED
    BY <1>1, <2>1, <2>5, <2>6
<1> QED
  BY <1>5, <1>6, <1>7, <1>8 DEF Flow

\* Every step of a receiver keeps its stream right.
LEMMA ReceiverKeepsFlow ==
    ASSUME DirectoryOK, TypeOK, OneAttempt, NEW c \in Conns, Flow(c), ReceiverStep(c)
    PROVE  Flow(c)'
<1>0. snd' = snd /\ lost' = lost /\ src' = src
  BY ReceiverFrame DEF OneAttempt, srcVars
<1>1. ASSUME rcv'[c].pc \in {"rename", "done"} PROVE Flow(c)'
  BY <1>0, <1>1 DEF Flow, Waiting, Level, InOrder, Prefix
<1>2. CASE OfferFiltered(c) \/ OfferDuplicate(c) \/ OfferLost(c) \/ Refused(c)
             \/ RecvSeesCancel(c) \/ RecvBroken(c) \/ HashDiffers(c) \/ HashFails(c)
             \/ Finalize(c) \/ FinalizeFails(c)
  BY <1>1, <1>2, RecvEndsWith
     DEF OfferFiltered, OfferDuplicate, OfferLost, Refused, RecvSeesCancel, RecvBroken,
         HashDiffers, HashFails, RecvError, Finalize, FinalizeFails
<1>3. CASE HashOK(c)
  BY <1>1, <1>3 DEF HashOK, TypeOK, RecvRec
<1> QED
  BY <1>2, <1>3, PlanKeepsFlow, OpenKeepsFlow, ReadKeepsFlow DEF ReceiverStep, OneAttempt

\* A step of one attempt keeps the streams of all.
LEMMA StepKeepsStream ==
    ASSUME ~Overlap, DirectoryOK, TypeOK, OneAttempt, Stream, NEW c \in Conns, Step(c)
    PROVE  Stream'
<1>1. /\ src' = src /\ edits' = edits
      /\ snd'[c].file = snd[c].file \/ snd'[c].file = src
      /\ snd[c].pc # "idle" => snd'[c].file = snd[c].file
      /\ snd[c].pc = "idle" /\ snd'[c].pc # "idle" => snd'[c].file = src
  <2>1. CASE StartSend(c)
    BY <2>1, StartKeepsFlow DEF StartSend, MayStart, srcVars, OneAttempt, Stream
  <2>2. CASE SenderStep(c)
    BY <2>2, SenderFrame DEF srcVars
  <2>3. CASE ReceiverStep(c)
    BY <2>3, ReceiverFrame DEF srcVars, OneAttempt
  <2>4. CASE OutsideStep(c)
    BY <2>4, OutsideFrame DEF OneAttempt
  <2> QED
    BY <2>1, <2>2, <2>3, <2>4 DEF Step, UserStep, OutsideStep
<1>2. Flow(c)'
  BY StartKeepsFlow, OutsideKeepsFlow, SenderKeepsFlow, ReceiverKeepsFlow
     DEF Step, UserStep, OutsideStep, Stream, OneAttempt
<1>3. ASSUME NEW d \in Conns, d # c PROVE Flow(d)' /\ snd'[d] = snd[d]
  <2>1. SameView(d)
    BY <1>3, OthersUnseen DEF Step
  <2>2. UNCHANGED dirVars \/ rcv[d].pc \in {"idle", "done"}
    <3>1. CASE ReceiverStep(c)
      BY <1>3, <3>1, ReceiverFrame, OthersQuiet DEF OneAttempt
    <3>2. CASE ~ReceiverStep(c)
      BY <3>2, SenderFrame, OutsideFrame
         DEF Step, UserStep, OutsideStep, StartSend, OneAttempt
    <3> QED
      BY <3>1, <3>2
  <2> QED
    BY <1>1, <2>1, <2>2, FlowUnseen DEF Stream, SameView
<1>4. Unedited'
  BY <1>1, <1>3 DEF Stream, Unedited
<1> QED
  BY <1>2, <1>3, <1>4 DEF Stream

\* The first edit takes every attempt that was started out of consideration.
LEMMA EditKeepsStream ==
    ASSUME MaxEdits <= 1, ConstantsOK, TypeOK, Stream, EditSource
    PROVE  Stream'
<1>1. /\ edits = 0 /\ edits' = 1 /\ src' # src
      /\ UNCHANGED <<snd, rcv, toR, toS, lost, dirVars>>
  BY DEF EditSource, TypeOK, ConstantsOK
<1>2. \A c \in Conns : ~(Same(c)')
  BY <1>1 DEF Stream, Unedited, Same
<1>3. Unedited'
  BY <1>1 DEF Unedited
<1>4. ASSUME NEW c \in Conns PROVE Flow(c)'
  <2>1. Base(c)' = Base(c)
    BY <1>1, BaseStays
  <2>2. Waiting(c)' /\ Level(c)'
    BY <1>1, <2>1 DEF Stream, Flow, Waiting, Level
  <2> QED
    BY <1>2, <2>2 DEF Flow, InOrder, Prefix
<1> QED
  BY <1>3, <1>4 DEF Stream

\* What is on its way belongs to what was offered.
LEMMA StreamHolds ==
    ASSUME ~Overlap, MaxEdits <= 1
    PROVE  Spec => []Stream
<1>1. Init => Stream
  BY InitStream, DirectoryOK, ConstantsOK
<1>2. TypeOK /\ OneAttempt /\ Stream /\ [Next]_vars => Stream'
  <2> SUFFICES ASSUME TypeOK, OneAttempt, Stream, [Next]_vars PROVE Stream'
    OBVIOUS
  <2>1. CASE UNCHANGED vars
    <3>1. UNCHANGED <<snd, rcv, toR, toS, lost, src, edits, dirVars>>
      BY <2>1 DEF vars, dirVars
    <3>2. ASSUME NEW d \in Conns PROVE Flow(d)'
      BY <3>1, FlowUnseen DEF Stream, SameView
    <3>3. Unedited'
      BY <3>1 DEF Stream, Unedited
    <3> QED
      BY <3>2, <3>3 DEF Stream
  <2>2. CASE EditSource
    BY <2>2, EditKeepsStream, ConstantsOK
  <2>3. ASSUME NEW c \in Conns, UserStep(c) \/ SenderStep(c) \/ ReceiverStep(c) \/ Lose(c)
        PROVE  Stream'
    BY <2>3, StepKeepsStream, DirectoryOK DEF Step
  <2> QED
    BY <2>1, <2>2, <2>3 DEF Next
<1> QED
  BY <1>1, <1>2, TypeCorrect, OneAttemptAtATime, PTL DEF Spec

\* A receive that starts from nothing passes verification, with any losses,
\* refusals, cancellations and leftovers of earlier attempts: as long as a name is
\* sent in one attempt at a time and the source is changed at most once (a second
\* change may bring back what an earlier attempt offered).
THEOREM FreshReceives ==
    ASSUME ~Overlap, MaxEdits <= 1
    PROVE  Spec => []FreshReceiveMatches
<1>1. TypeOK /\ OneAttempt /\ Stream => FreshReceiveMatches
  <2> SUFFICES ASSUME TypeOK, OneAttempt, Stream, NEW c \in Conns,
                      AtVerdict(c), rcv[c].from = 0
               PROVE  partial[rcv[c].path] # NoFile /\ Matches(c)
    BY DEF FreshReceiveMatches
  <2> DEFINE f == snd[c].file
             h == rcv[c].handle
  <2>1. /\ rcv[c].pc = "recv" /\ rcv[c].left = 0 /\ toR[c] # <<>> /\ src = f
        /\ snd[c].pc # "idle"
    BY DEF AtVerdict, AtTail, OneAttempt, Unstarted
  <2>2. Same(c) /\ Flow(c)
    BY <2>1 DEF Same, Stream
  <2>3. Base(c) = Len(f) /\ Len(f) \in Nat
    BY <2>1, <2>2, BaseType, LenType, DirectoryOK DEF Flow
  <2>4. Head(toR[c]) = HashItem(f)
    <3>1. Head(toR[c]) = toR[c][1] /\ 1 \in 1..Len(toR[c])
      BY <2>1, LenProperties, EmptySeq DEF TypeOK
    <3>2. Right(f, Len(f), 1, Head(toR[c]))
      BY <2>1, <2>2, <2>3, <3>1 DEF Flow, InOrder
    <3> HIDE DEF f
    <3> QED
      BY <2>3, <3>2 DEF Right
  <2>5. h # NoFile /\ partial[rcv[c].path] = h /\ h \in Inodes
    BY <2>1 DEF OneAttempt, HoldsPartial, Writing, TypeOK, RecvRec
  <2>6. data[h] = f
    <3>1. Len(data[h]) = Len(f) /\ \A k \in 1..Len(f) : data[h][k] = f[k]
      BY <2>1, <2>2, <2>3 DEF Flow, Prefix
    <3>2. data[h] \in Disk /\ f \in Disk
      BY <2>5, LenType, DirectoryOK DEF TypeOK
    <3> QED
      BY <3>1, <3>2, SeqEqual DEF Disk
  <2> QED
    BY <2>1, <2>4, <2>5, <2>6 DEF Matches, Gets, HashOf, HashItem
<1> QED
  BY <1>1, TypeCorrect, OneAttemptAtATime, StreamHolds, PTL
=============================================================================
