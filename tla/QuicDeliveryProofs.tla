------------------------- MODULE QuicDeliveryProofs -------------------------
(***************************************************************************)
(* What holds of the QUIC channel for any number of attempts, any contents *)
(* and any bounds.                                                         *)
(*                                                                         *)
(* Of every behaviour: the types, and that the two sides agree on offsets  *)
(* (InStep).  As long as a name is sent in one attempt at a time: the      *)
(* channel implements FileDelivery, a send shown as completed was          *)
(* delivered, and a pause leaves nothing behind but the partial file to    *)
(* resume from.                                                            *)
(*                                                                         *)
(* The second part has three layers of invariant: what one attempt at a    *)
(* time means for the partial files (OneAttempt), what the plain save      *)
(* names add (PlainNames), and what a source file that nobody edits adds   *)
(* (SameSource, Content).                                                  *)
(***************************************************************************)
EXTENDS QuicDelivery, SequenceTheorems, WellFoundedInduction, NaturalsInduction, TLAPS

-----------------------------------------------------------------------------
(* Lemmas about the save directory: what its operators return, for any     *)
(* contents and any number of names.                                       *)

\* Writing a block keeps the disk a sequence of blocks, with Hole in gaps.
LEMMA WriteAtType ==
    ASSUME NEW s \in Disk, NEW o \in Nat, NEW b \in Blocks \union {Hole}
    PROVE  WriteAt(s, o, b) \in Disk
<1> DEFINE n == IF o < Len(s) THEN Len(s) ELSE o + 1
           e(k) == IF k = o + 1 THEN b ELSE IF k <= Len(s) THEN s[k] ELSE Hole
<1>1. n \in Nat
  BY LenProperties DEF Disk
<1>2. \A k \in 1..n : e(k) \in Blocks \union {Hole}
  BY LenProperties, ElementOfSeq DEF Disk
<1>3. WriteAt(s, o, b) = [k \in 1..n |-> e(k)]
  BY DEF WriteAt
<1>4. [k \in 1..n |-> e(k)] \in [1..n -> Blocks \union {Hole}]
  BY <1>2
<1> QED
  BY <1>1, <1>3, <1>4, SeqDef DEF Disk

\* A block written at the end of what is there makes it one block longer.
LEMMA WriteAtEnd ==
    ASSUME NEW s \in Disk, NEW b
    PROVE  /\ Len(WriteAt(s, Len(s), b)) = Len(s) + 1
           /\ WriteAt(s, Len(s), b)[Len(s) + 1] = b
           /\ \A k \in 1..Len(s) : WriteAt(s, Len(s), b)[k] = s[k]
<1>1. Len(s) \in Nat
  BY LenProperties DEF Disk
<1>2. WriteAt(s, Len(s), b) =
        [k \in 1..(Len(s) + 1) |-> IF k = Len(s) + 1 THEN b ELSE IF k <= Len(s) THEN s[k] ELSE Hole]
  BY <1>1 DEF WriteAt
<1> QED
  BY <1>1, <1>2

\* resolve_save_path returns a free name when there is one.
LEMMA SavePathIsFree ==
    ASSUME DirectoryOK, NEW p \in Paths, FreeFrom(p) # {}
    PROVE  ResolveSavePath(p) \in Paths /\ Free(ResolveSavePath(p))
<1> DEFINE T == FreeFrom(p)
<1>1. T \subseteq Paths /\ T \subseteq Nat /\ \A q \in T : Free(q)
  BY DEF FreeFrom, Paths, DirectoryOK
<1>2. PICK m \in T : \A k \in T : <<k, m>> \notin OpToRel(<, Nat)
  BY <1>1, WFMin, NatLessThanWellFounded, Zenon
<1>3. \A k \in T : ~(k < m)
  BY <1>1, <1>2, Zenon DEF OpToRel
<1>4. m \in T /\ \A k \in T : m <= k
  BY <1>1, <1>3
<1> QED
  BY <1>1, <1>4 DEF ResolveSavePath

\* resolve_conflict returns a name of the directory.
LEMMA ResolveConflictType ==
    ASSUME DirectoryOK, NEW p \in Paths, NEW f, FreeFrom(p) # {}
    PROVE  ResolveConflict(p, f) \in Paths
BY SavePathIsFree DEF ResolveConflict

-----------------------------------------------------------------------------
(* Lemmas about the operators the actions are built from.                  *)

\* Taking the first message off a log of messages in S leaves such a log.
LEMMA TakenType ==
    ASSUME NEW S, NEW q \in [Conns -> Seq(S)], NEW c \in Conns, q[c] # <<>>
    PROVE  /\ Taken(q, c) \in [Conns -> Seq(S)]
           /\ Head(q[c]) \in S
BY HeadTailProperties DEF Taken

LEMMA DroppedType ==
    ASSUME NEW S, NEW q \in [Conns -> Seq(S)], NEW c \in Conns
    PROVE  Dropped(q, c) \in [Conns -> Seq(S)]
BY EmptySeq DEF Dropped

LEMMA WithoutLastType ==
    ASSUME NEW S, NEW q \in [Conns -> Seq(S)], NEW c \in Conns
    PROVE  WithoutLast(q, c) \in [Conns -> Seq(S)]
<1>1. Len(q[c]) \in Nat /\ \A i \in 1..(Len(q[c]) - 1) : q[c][i] \in S
  BY LenProperties, ElementOfSeq
<1>2. SubSeq(q[c], 1, Len(q[c]) - 1) \in Seq(S)
  BY <1>1, SubSeqProperties
<1> QED
  BY <1>2 DEF WithoutLast

LEMMA AppendType ==
    ASSUME NEW S, NEW q \in [Conns -> Seq(S)], NEW c \in Conns, NEW m \in S
    PROVE  [q EXCEPT ![c] = Append(@, m)] \in [Conns -> Seq(S)]
<1>1. Append(q[c], m) \in Seq(S)
  BY AppendProperties
<1> QED
  BY <1>1

LEMMA PairType ==
    ASSUME NEW S, NEW m \in S, NEW n \in S
    PROVE  <<m, n>> \in Seq(S)
OBVIOUS

-----------------------------------------------------------------------------
(* Type correctness.                                                       *)

LEMMA InitType == DirectoryOK /\ ConstantsOK /\ Init => TypeOK
<1> SUFFICES ASSUME DirectoryOK, ConstantsOK, Init PROVE TypeOK
  OBVIOUS
<1>1. NewSend \in SendRec /\ NewRecv \in RecvRec
  BY DEF DirectoryOK, ConstantsOK, NewSend, NewRecv, SendRec, RecvRec, SendPC, RecvPC, Results,
         Status, Final, Paths, Inodes, NoFile
<1>2. snd \in [Conns -> SendRec] /\ rcv \in [Conns -> RecvRec]
  BY <1>1 DEF Init
<1>3. toR \in [Conns -> Seq(ToReceiver)] /\ toS \in [Conns -> Seq(ToSender)]
  BY EmptySeq DEF Init
<1>4. Contents \subseteq Disk /\ <<>> \in Disk
  BY SeqMonotonic, EmptySeq DEF DirectoryOK, ConstantsOK, Disk
<1>5. data \in [Inodes -> Disk]
  BY <1>4 DEF Init, InitDirectory
<1>6. final \in [Paths -> Inodes \union {NoFile}] /\ partial \in [Paths -> Inodes \union {NoFile}]
  BY DEF Init, InitDirectory, Inodes, Old, NoFile, DirectoryOK
<1> QED
  BY <1>2, <1>3, <1>5, <1>6 DEF Init, TypeOK, DirectoryOK, ConstantsOK, Disk

\* Messages have the type of their direction.
LEMMA MessageTypes ==
    /\ OfferMsg \in ToReceiver /\ CompleteMsg \in ToReceiver
    /\ CancelMsg("paused") \in ToReceiver
    /\ \A o \in Nat, b \in Blocks : ChunkMsg(o, b) \in ToReceiver
    /\ \A o \in Nat : AcceptMsg(o) \in ToSender
    /\ \A ok \in BOOLEAN : VerifyMsg(ok) \in ToSender
    /\ RejectMsg("refused") \in ToSender /\ RejectMsg("cancel") \in ToSender
    /\ CancelMsg("ack") \in ToSender /\ CancelMsg("receiver") \in ToSender
BY DEF OfferMsg, CompleteMsg, CancelMsg, ChunkMsg, AcceptMsg, VerifyMsg, RejectMsg,
       ToReceiver, ToSender

LEMMA TellReceiverType ==
    ASSUME TypeOK, NEW c \in Conns, NEW m \in ToReceiver, TellReceiver(c, m)
    PROVE  toR' \in [Conns -> Seq(ToReceiver)]
BY AppendType DEF TellReceiver, TypeOK

LEMMA TellSenderType ==
    ASSUME TypeOK, NEW c \in Conns, NEW m \in ToSender, TellSender(c, m)
    PROVE  toS' \in [Conns -> Seq(ToSender)]
BY AppendType DEF TellSender, TypeOK


LEMMA LenType ==
    ASSUME DirectoryOK, ConstantsOK, TypeOK, NEW c \in Conns
    PROVE  Len(snd[c].file) \in Nat /\ snd[c].file \in Disk
<1>1. Contents \union {<<>>} \subseteq Disk
  BY SeqMonotonic, EmptySeq DEF DirectoryOK, ConstantsOK, Disk
<1> QED
  BY <1>1, LenProperties DEF TypeOK, SendRec, Disk

\* Setting fields of an attempt keeps its record well typed.
LEMMA SndPc ==
    ASSUME TypeOK, NEW c \in Conns, NEW p \in SendPC, snd' = [snd EXCEPT ![c].pc = p]
    PROVE  snd' \in [Conns -> SendRec]
<1>1. [snd[c] EXCEPT !.pc = p] \in SendRec
  BY DEF TypeOK, SendRec
<1> QED
  BY <1>1 DEF TypeOK

LEMMA SndPcOff ==
    ASSUME TypeOK, NEW c \in Conns, NEW p \in SendPC, NEW o \in Nat,
           snd' = [snd EXCEPT ![c].pc = p, ![c].off = o]
    PROVE  snd' \in [Conns -> SendRec]
<1>1. [snd[c] EXCEPT !.pc = p, !.off = o] \in SendRec
  BY DEF TypeOK, SendRec
<1> QED
  BY <1>1 DEF TypeOK

LEMMA ReturnedType ==
    ASSUME TypeOK, NEW c \in Conns, NEW r \in Results, Returned(c, r)
    PROVE  snd' \in [Conns -> SendRec]
<1>1. [snd[c] EXCEPT !.pc = "end", !.res = r] \in SendRec
  BY DEF TypeOK, SendRec, SendPC
<1> QED
  BY <1>1 DEF TypeOK, Returned

LEMMA SendEndsType ==
    ASSUME TypeOK, NEW c \in Conns, NEW t \in Status, NEW h \in Status, SendEnds(c, t, h)
    PROVE  /\ snd' \in [Conns -> SendRec]
           /\ toS' \in [Conns -> Seq(ToSender)]
<1>1. [NewSend EXCEPT !.pc = "done", !.file = snd[c].file, !.task = t, !.hist = h] \in SendRec
  BY DEF TypeOK, NewSend, SendRec, SendPC, Results
<1> QED
  BY <1>1, DroppedType DEF TypeOK, SendEnds

LEMMA RecvEndsType ==
    ASSUME TypeOK, NEW c \in Conns, NEW t \in Status, NEW h \in Status, RecvEnds(c, t, h)
    PROVE  /\ rcv' \in [Conns -> RecvRec]
           /\ toR' \in [Conns -> Seq(ToReceiver)]
<1>1. [NewRecv EXCEPT !.pc = "done", !.task = t, !.hist = h] \in RecvRec
  <2>1. DirectoryOK
    BY DirectoryOK
  <2>2. 1 \in Paths
    BY <2>1 DEF DirectoryOK, Paths
  <2> QED
    BY <2>2 DEF NewRecv, RecvRec, RecvPC
<1> QED
  BY <1>1, DroppedType DEF TypeOK, RecvEnds

LEMMA StatusType ==
    ASSUME TypeOK, NEW c \in Conns, NEW t \in Status
    PROVE  Kept(c, t) \in Status /\ Recorded(c, t) \in Status
BY DEF Kept, Recorded, Status

LEMMA StatusNames ==
    /\ {"none", "Active", "Paused", "Removed"} \subseteq Status
    /\ {"Completed", "Cancelled", "Failed", "Rejected"} \subseteq Status
    /\ \A kind : ErrorStatus(kind) \in Status /\ ErrorRecord(kind) \in Status
BY DEF Status, Final, ErrorStatus, ErrorRecord

LEMMA RcvPc ==
    ASSUME TypeOK, NEW c \in Conns, NEW p \in RecvPC, rcv' = [rcv EXCEPT ![c].pc = p]
    PROVE  rcv' \in [Conns -> RecvRec]
<1>1. [rcv[c] EXCEPT !.pc = p] \in RecvRec
  BY DEF TypeOK, RecvRec
<1> QED
  BY <1>1 DEF TypeOK

\* The record updates of a receive.
LEMMA RcvOff ==
    ASSUME NEW r \in RecvRec, NEW o \in Nat
    PROVE  [r EXCEPT !.off = o] \in RecvRec
BY DEF RecvRec

LEMMA RcvOpened ==
    ASSUME NEW r \in RecvRec, NEW k \in RecvPC, NEW i \in Inodes, NEW t \in Status
    PROVE  [r EXCEPT !.pc = k, !.handle = i, !.task = t] \in RecvRec
BY DEF RecvRec

LEMMA RcvPlanned ==
    ASSUME NEW r \in RecvRec, NEW k \in RecvPC, NEW p \in Paths, NEW o \in Nat,
           NEW w \in {"none", "wait"}
    PROVE  [r EXCEPT !.pc = k, !.pend = w, !.path = p, !.off = o] \in RecvRec
BY DEF RecvRec

LEMMA RcvOffered ==
    ASSUME NEW r \in RecvRec, NEW k \in RecvPC, NEW p \in Paths, NEW o \in Nat,
           NEW w \in {"none", "wait"}, NEW t \in Status
    PROVE  [r EXCEPT !.pc = k, !.pend = w, !.path = p, !.off = o, !.task = t] \in RecvRec
BY DEF RecvRec

LEMMA RecvErrorType ==
    ASSUME TypeOK, NEW c \in Conns, NEW kind, RecvError(c, kind),
           toS' \in [Conns -> Seq(ToSender)]
    PROVE  TypeOK'
<1>1. /\ rcv' \in [Conns -> RecvRec]
      /\ toR' \in [Conns -> Seq(ToReceiver)]
  BY RecvEndsType, StatusType, StatusNames, Zenon DEF RecvError
<1>2. partial' \in [Paths -> Inodes \union {NoFile}]
  BY DEF RecvError, CleanUp, TypeOK
<1> QED
  BY <1>1, <1>2 DEF RecvError, TypeOK, netVars, srcVars

\* The resume offset is how much is there, never more than the file has.
LEMMA ResumeOffsetType ==
    ASSUME DirectoryOK, ConstantsOK, TypeOK, NEW p \in Paths, NEW c \in Conns
    PROVE  /\ ResumeOffset(p, snd[c].file) \in Nat
           /\ ResumeOffset(p, snd[c].file) <= Len(snd[c].file)
<1>1. partial[p] # NoFile => Len(data[partial[p]]) \in Nat
  BY LenProperties DEF TypeOK
<1> QED
  BY <1>1, LenType DEF ResumeOffset, TooLong

LEMMA AfterValidateType ==
    ASSUME TypeOK, NEW p \in Paths, NEW f
    PROVE  AfterValidate(p, f) \in [Paths -> Inodes \union {NoFile}]
BY DEF AfterValidate, TypeOK

LEMMA SenderStepType ==
    ASSUME DirectoryOK, ConstantsOK, TypeOK, NEW c \in Conns, SenderStep(c)
    PROVE  TypeOK'
<1> USE DEF netVars, srcVars, dirVars
<1>1. CASE RecvAccept(c)
  <2>1. Head(toS[c]) \in ToSender /\ toS' \in [Conns -> Seq(ToSender)]
    BY <1>1, TakenType DEF RecvAccept, SenderGets, TypeOK
  <2>2. Head(toS[c]).off \in Nat
    BY <1>1, <2>1 DEF RecvAccept, SenderGets, ToSender
  <2>3. PICK o \in Nat : snd' = [snd EXCEPT ![c].pc = "send", ![c].off = o]
    BY <1>1, <2>2, LenType DEF RecvAccept
  <2>4. snd' \in [Conns -> SendRec]
    BY <2>3, SndPcOff DEF SendPC
  <2> QED
    BY <1>1, <2>1, <2>4 DEF RecvAccept, TypeOK
<1>2. CASE RecvStop(c)
  <2>1. toS' \in [Conns -> Seq(ToSender)]
    BY <1>2, TakenType DEF RecvStop, SenderGets, TypeOK
  <2>2. snd' \in [Conns -> SendRec]
    BY <1>2, ReturnedType DEF RecvStop, Results
  <2> QED
    BY <1>2, <2>1, <2>2 DEF RecvStop, TypeOK
<1>3. CASE SeeCancel(c)
  <2>1. snd' \in [Conns -> SendRec]
    BY <1>3, ReturnedType DEF SeeCancel, Results
  <2> QED
    BY <1>3, <2>1 DEF SeeCancel, TypeOK
<1>4. CASE SendChunk(c)
  <2>1. snd' \in [Conns -> SendRec]
    BY <1>4, SndPc DEF SendChunk, SendPC
  <2>2. snd[c].off \in Nat /\ src \in Seq(Blocks)
    BY DEF TypeOK, SendRec, DirectoryOK, ConstantsOK
  <2>3. src[snd[c].off + 1] \in Blocks
    <3>1. snd[c].off + 1 \in 1..Len(src)
      BY <1>4, <2>2, LenProperties DEF SendChunk
    <3> QED
      BY <2>2, <3>1, ElementOfSeq
  <2>4. toR' \in [Conns -> Seq(ToReceiver)]
    BY <1>4, <2>2, <2>3, MessageTypes, TellReceiverType DEF SendChunk
  <2> QED
    BY <1>4, <2>1, <2>4 DEF SendChunk, TypeOK
<1>5. CASE ChunkSent(c)
  <2>1. snd[c].off + 1 \in Nat
    BY DEF TypeOK, SendRec
  <2>2. snd' = [snd EXCEPT ![c].pc = "send", ![c].off = snd[c].off + 1]
    BY <1>5 DEF ChunkSent, TypeOK, SendRec
  <2>3. snd' \in [Conns -> SendRec]
    BY <2>1, <2>2, SndPcOff DEF SendPC
  <2> QED
    BY <1>5, <2>3 DEF ChunkSent, TypeOK
<1>6. CASE SendComplete(c)
  <2>1. snd' \in [Conns -> SendRec]
    BY <1>6, SndPc DEF SendComplete, SendPC
  <2>2. toR' \in [Conns -> Seq(ToReceiver)]
    BY <1>6, MessageTypes, TellReceiverType DEF SendComplete
  <2> QED
    BY <1>6, <2>1, <2>2 DEF SendComplete, TypeOK
<1>7. CASE RecvVerify(c)
  <2>1. toS' \in [Conns -> Seq(ToSender)]
    BY <1>7, TakenType DEF RecvVerify, SenderGets, TypeOK
  <2>2. snd' \in [Conns -> SendRec]
    BY <1>7, ReturnedType DEF RecvVerify, Results
  <2> QED
    BY <1>7, <2>1, <2>2 DEF RecvVerify, TypeOK
<1>8. CASE SendFails(c)
  <2>1. snd' \in [Conns -> SendRec]
    BY <1>8, ReturnedType DEF SendFails, Results
  <2> QED
    BY <1>8, <2>1 DEF SendFails, TypeOK
<1>9. CASE AfterSend(c)
  <2>1. snd' \in [Conns -> SendRec]
    BY <1>9, SndPc DEF AfterSend, SendPC
  <2>2. toR' \in [Conns -> Seq(ToReceiver)]
    BY <1>9, MessageTypes, TellReceiverType DEF AfterSend, TypeOK
  <2> QED
    BY <1>9, <2>1, <2>2 DEF AfterSend, TypeOK
<1>10. CASE PauseAcked(c)
  <2>1. snd[c].task \in Status /\ "none" \in Status
    BY DEF TypeOK, SendRec, Status
  <2>2. snd' \in [Conns -> SendRec] /\ toS' \in [Conns -> Seq(ToSender)]
    BY <1>10, <2>1, SendEndsType DEF PauseAcked
  <2> QED
    BY <1>10, <2>2 DEF PauseAcked, TypeOK
<1>11. CASE FinishSend(c)
  <2>1. Outcome(snd[c].res) \in Status
    BY DEF Outcome, Status, Final
  <2>2. {"Removed", "none"} \subseteq Status
    BY DEF Status
  <2>3. snd' \in [Conns -> SendRec] /\ toS' \in [Conns -> Seq(ToSender)]
    BY <1>11, <2>1, <2>2, SendEndsType DEF FinishSend
  <2> QED
    BY <1>11, <2>3 DEF FinishSend, TypeOK
<1> QED
  BY <1>1, <1>2, <1>3, <1>4, <1>5, <1>6, <1>7, <1>8, <1>9, <1>10, <1>11 DEF SenderStep

LEMMA ReceiverStepType ==
    ASSUME DirectoryOK, ConstantsOK, TypeOK, NEW c \in Conns, ReceiverStep(c)
    PROVE  TypeOK'
<1> USE DEF netVars, srcVars, dirVars
<1>1. CASE OfferFiltered(c)
  <2>1. /\ rcv' \in [Conns -> RecvRec]
        /\ toR' \in [Conns -> Seq(ToReceiver)]
    BY <1>1, RecvEndsType, StatusNames DEF OfferFiltered
  <2>2. toS' \in [Conns -> Seq(ToSender)]
    BY <1>1, TellSenderType, MessageTypes DEF OfferFiltered
  <2> QED
    BY <1>1, <2>1, <2>2 DEF OfferFiltered, TypeOK
<1>2. CASE OfferDuplicate(c)
  <2>1. /\ rcv' \in [Conns -> RecvRec]
        /\ toR' \in [Conns -> Seq(ToReceiver)]
    BY <1>2, RecvEndsType, StatusNames DEF OfferDuplicate
  <2> DEFINE both == <<AcceptMsg(Len(snd[c].file)), VerifyMsg(TRUE)>>
  <2>2. both \in Seq(ToSender)
    <3>1. AcceptMsg(Len(snd[c].file)) \in ToSender /\ VerifyMsg(TRUE) \in ToSender
      BY LenType, MessageTypes
    <3> QED
      BY <3>1, PairType
  <2>3. toS[c] \o both \in Seq(ToSender)
    BY <2>2, ConcatProperties DEF TypeOK
  <2>4. toS' \in [Conns -> Seq(ToSender)]
    BY <1>2, <2>3 DEF OfferDuplicate, TypeOK
  <2> QED
    BY <1>2, <2>1, <2>4 DEF OfferDuplicate, TypeOK
<1>3. CASE OfferPlanned(c)
  <2> DEFINE p == ResolveSavePath(1)
             o == ResumeOffset(p, snd[c].file)
             k == IF AutoAccept THEN "open" ELSE "confirm"
             w == IF AutoAccept THEN "none" ELSE "wait"
  <2>1. p \in Paths
    <3>1. 1 \in Paths
      BY DEF DirectoryOK, ConstantsOK, Paths
    <3> QED
      BY <1>3, <3>1, SavePathIsFree DEF OfferPlanned
  <2>2. o \in Nat
    BY <2>1, ResumeOffsetType
  <2>3. [rcv[c] EXCEPT !.pc = k, !.pend = w, !.path = p, !.off = o, !.task = "Active"]
           \in RecvRec
    <3>1. rcv[c] \in RecvRec /\ k \in RecvPC /\ w \in {"none", "wait"} /\ "Active" \in Status
      BY StatusNames DEF TypeOK, RecvPC
    <3> HIDE DEF p, o, k, w
    <3> QED
      BY <2>1, <2>2, <3>1, RcvOffered
  <2>4. rcv' \in [Conns -> RecvRec]
    BY <1>3, <2>3 DEF OfferPlanned, TypeOK
  <2>5. partial' \in [Paths -> Inodes \union {NoFile}]
    BY <1>3, <2>1, AfterValidateType DEF OfferPlanned
  <2>6. toS' \in [Conns -> Seq(ToSender)]
    BY <1>3, <2>2, TellSenderType, MessageTypes DEF OfferPlanned, TypeOK
  <2>7. toR' \in [Conns -> Seq(ToReceiver)]
    BY <1>3, TakenType DEF OfferPlanned, GotOffer, ReceiverGets, TypeOK
  <2> QED
    BY <1>3, <2>4, <2>5, <2>6, <2>7 DEF OfferPlanned, TypeOK
<1>4. CASE OfferLost(c)
  <2>1. /\ rcv' \in [Conns -> RecvRec]
        /\ toR' \in [Conns -> Seq(ToReceiver)]
    BY <1>4, RecvEndsType, StatusNames DEF OfferLost
  <2> QED
    BY <1>4, <2>1 DEF OfferLost, TypeOK
<1>5. CASE Accepted(c)
  <2> DEFINE p == ResolveConflict(rcv[c].path, snd[c].file)
             o == ResumeOffset(p, snd[c].file)
  <2>1. p \in Paths
    BY <1>5, ResolveConflictType DEF Accepted, TypeOK, RecvRec
  <2>2. o \in Nat
    BY <2>1, ResumeOffsetType
  <2>3. [rcv[c] EXCEPT !.pc = "open", !.pend = "none", !.path = p, !.off = o] \in RecvRec
    <3>1. rcv[c] \in RecvRec /\ "open" \in RecvPC
      BY DEF TypeOK, RecvPC
    <3> HIDE DEF p, o
    <3> QED
      BY <2>1, <2>2, <3>1, RcvPlanned
  <2>4. rcv' \in [Conns -> RecvRec]
    BY <1>5, <2>3 DEF Accepted, TypeOK
  <2>5. partial' \in [Paths -> Inodes \union {NoFile}]
    BY <1>5, <2>1, AfterValidateType DEF Accepted
  <2>6. toS' \in [Conns -> Seq(ToSender)]
    BY <1>5, <2>2, TellSenderType, MessageTypes DEF Accepted
  <2> QED
    BY <1>5, <2>4, <2>5, <2>6 DEF Accepted, TypeOK
<1>6. CASE Refused(c)
  <2>1. /\ rcv' \in [Conns -> RecvRec]
        /\ toR' \in [Conns -> Seq(ToReceiver)]
    BY <1>6, RecvEndsType, StatusType, StatusNames DEF Refused
  <2>2. toS' \in [Conns -> Seq(ToSender)]
    BY <1>6, TellSenderType, MessageTypes DEF Refused
  <2> QED
    BY <1>6, <2>1, <2>2 DEF Refused, TypeOK
<1>7. CASE OpenPartial(c)
  <2> DEFINE i == IF partial[rcv[c].path] = NoFile THEN c ELSE partial[rcv[c].path]
  <2>1. rcv[c].path \in Paths /\ i \in Inodes
    BY DEF TypeOK, RecvRec, Conns, Inodes, DirectoryOK, ConstantsOK
  <2>2. [rcv[c] EXCEPT !.pc = "recv", !.handle = i, !.task = Kept(c, "Active")] \in RecvRec
    <3>1. rcv[c] \in RecvRec /\ "recv" \in RecvPC /\ Kept(c, "Active") \in Status
      BY StatusType, StatusNames DEF TypeOK, RecvPC
    <3> QED
      BY <2>1, <3>1, RcvOpened
  <2>3. rcv' \in [Conns -> RecvRec]
    BY <1>7, <2>2 DEF OpenPartial, TypeOK
  <2>4. partial' \in [Paths -> Inodes \union {NoFile}]
    BY <1>7, <2>1 DEF OpenPartial, TypeOK
  <2> QED
    BY <1>7, <2>3, <2>4 DEF OpenPartial, TypeOK
<1>8. CASE RecvChunk(c)
  <2> DEFINE m == Head(toR[c])
             i == rcv[c].handle
  <2>1. m \in ToReceiver /\ toR' \in [Conns -> Seq(ToReceiver)]
    BY <1>8, TakenType DEF RecvChunk, ReceiverGets, TypeOK
  <2>2. m.off \in Nat /\ m.blk \in Blocks
    BY <1>8, <2>1 DEF RecvChunk, ReceiverGets, ToReceiver, OfferMsg, CompleteMsg, CancelMsg
  <2>3. i \in Inodes => WriteAt(data[i], m.off, m.blk) \in Disk
    BY <2>2, WriteAtType DEF TypeOK, Disk
  <2>4. data' \in [Inodes -> Seq(Blocks \union {Hole})]
    BY <1>8, <2>3 DEF RecvChunk, TypeOK, Disk
  <2>5. [rcv[c] EXCEPT !.off = rcv[c].off + 1] \in RecvRec
    <3>1. rcv[c] \in RecvRec
      BY DEF TypeOK
    <3>2. rcv[c].off + 1 \in Nat
      BY <3>1 DEF RecvRec
    <3> QED
      BY <3>1, <3>2, RcvOff DEF RecvRec
  <2>6. rcv' \in [Conns -> RecvRec]
    BY <1>8, <2>5 DEF RecvChunk, TypeOK
  <2> QED
    BY <1>8, <2>1, <2>4, <2>6 DEF RecvChunk, TypeOK
<1>9. CASE RecvComplete(c)
  <2>1. rcv' \in [Conns -> RecvRec]
    BY <1>9, RcvPc DEF RecvComplete, RecvPC
  <2>2. toR' \in [Conns -> Seq(ToReceiver)]
    BY <1>9, TakenType DEF RecvComplete, ReceiverGets, TypeOK
  <2> QED
    BY <1>9, <2>1, <2>2 DEF RecvComplete, TypeOK
<1>10. CASE PollDropsChunk(c)
  <2>1. toR' \in [Conns -> Seq(ToReceiver)]
    BY <1>10, TakenType DEF PollDropsChunk, ReceiverGets, TypeOK
  <2> QED
    BY <1>10, <2>1 DEF PollDropsChunk, TypeOK
<1>11. CASE RecvPause(c)
  <2>1. toS' \in [Conns -> Seq(ToSender)]
    BY <1>11, TellSenderType, MessageTypes DEF RecvPause
  <2> QED
    BY <1>11, <2>1, RecvErrorType DEF RecvPause
<1>12. CASE RecvSeesCancel(c)
  <2>1. toS' \in [Conns -> Seq(ToSender)]
    BY <1>12, TellSenderType, MessageTypes DEF RecvSeesCancel
  <2> QED
    BY <1>12, <2>1, RecvErrorType DEF RecvSeesCancel
<1>13. CASE RecvBroken(c)
  BY <1>13, RecvErrorType DEF RecvBroken, TypeOK
<1>14. CASE HashOK(c)
  <2>1. rcv' \in [Conns -> RecvRec]
    BY <1>14, RcvPc DEF HashOK, RecvPC
  <2>2. toS' \in [Conns -> Seq(ToSender)]
    BY <1>14, TellSenderType, MessageTypes DEF HashOK
  <2> QED
    BY <1>14, <2>1, <2>2 DEF HashOK, TypeOK
<1>15. CASE HashDiffers(c)
  <2>1. toS' \in [Conns -> Seq(ToSender)]
    BY <1>15, TellSenderType, MessageTypes DEF HashDiffers
  <2> QED
    BY <1>15, <2>1, RecvErrorType DEF HashDiffers
<1>16. CASE HashFails(c)
  BY <1>16, RecvErrorType DEF HashFails, TypeOK
<1>17. CASE Finalize(c)
  <2>1. /\ rcv' \in [Conns -> RecvRec]
        /\ toR' \in [Conns -> Seq(ToReceiver)]
    BY <1>17, RecvEndsType, StatusType, StatusNames DEF Finalize
  <2>2. rcv[c].path \in Paths
    BY DEF TypeOK, RecvRec
  <2>3. /\ final' \in [Paths -> Inodes \union {NoFile}]
        /\ partial' \in [Paths -> Inodes \union {NoFile}]
    BY <1>17, <2>2 DEF Finalize, FinalizeFile, TypeOK
  <2> QED
    BY <1>17, <2>1, <2>3 DEF Finalize, FinalizeFile, TypeOK
<1>18. CASE FinalizeFails(c)
  <2>1. /\ rcv' \in [Conns -> RecvRec]
        /\ toR' \in [Conns -> Seq(ToReceiver)]
    BY <1>18, RecvEndsType, StatusType, StatusNames DEF FinalizeFails
  <2>2. final' \in [Paths -> Inodes \union {NoFile}]
    BY <1>18 DEF FinalizeFails, FinalizeLost, TypeOK
  <2> QED
    BY <1>18, <2>1, <2>2 DEF FinalizeFails, FinalizeLost, TypeOK
<1> QED
  BY <1>1, <1>2, <1>3, <1>4, <1>5, <1>6, <1>7, <1>8, <1>9, <1>10, <1>11, <1>12, <1>13,
     <1>14, <1>15, <1>16, <1>17, <1>18 DEF ReceiverStep

LEMMA UserStepType ==
    ASSUME DirectoryOK, ConstantsOK, TypeOK, NEW c \in Conns, UserStep(c)
    PROVE  TypeOK'
<1> USE DEF netVars, srcVars, dirVars
<1>1. CASE StartSend(c)
  <2>1. [snd[c] EXCEPT !.pc = "accept", !.file = src, !.task = "Active"] \in SendRec
    <3>1. snd[c] \in SendRec /\ src \in Contents /\ "Active" \in Status /\ "accept" \in SendPC
      BY StatusNames DEF TypeOK, SendPC
    <3> QED
      BY <3>1 DEF SendRec
  <2>2. snd' \in [Conns -> SendRec]
    BY <1>1, <2>1 DEF StartSend, TypeOK
  <2>3. toR' \in [Conns -> Seq(ToReceiver)]
    BY <1>1, TellReceiverType, MessageTypes DEF StartSend
  <2> QED
    BY <1>1, <2>2, <2>3 DEF StartSend, TypeOK
<1>2. CASE PauseSend(c) \/ CancelSend(c)
  <2>1. PICK st \in Status : snd' = [snd EXCEPT ![c].task = st, ![c].flag = TRUE]
    BY <1>2, StatusNames DEF PauseSend, CancelSend, Stop
  <2>2. [snd[c] EXCEPT !.task = st, !.flag = TRUE] \in SendRec
    BY DEF TypeOK, SendRec
  <2>3. snd' \in [Conns -> SendRec]
    BY <2>1, <2>2 DEF TypeOK
  <2> QED
    BY <1>2, <2>3 DEF PauseSend, CancelSend, Stop, TypeOK
<1>3. CASE RemoveSend(c)
  <2>1. [snd[c] EXCEPT !.task = "Removed"] \in SendRec
    <3>1. snd[c] \in SendRec
      BY DEF TypeOK
    <3>2. "Removed" \in Status
      BY DEF Status
    <3> QED
      BY <3>1, <3>2 DEF SendRec
  <2>2. snd' \in [Conns -> SendRec]
    BY <1>3, <2>1 DEF RemoveSend, TypeOK
  <2> QED
    BY <1>3, <2>2 DEF RemoveSend, TypeOK
<1>4. CASE UserAccept(c)
  <2>1. PICK p \in UserPaths \union {1, rcv[c].path} :
          rcv' = [rcv EXCEPT ![c].pend = "accept", ![c].path = p]
    BY <1>4 DEF UserAccept
  <2>2. p \in Paths
    BY DEF DirectoryOK, ConstantsOK, Paths, TypeOK, RecvRec
  <2>3. [rcv[c] EXCEPT !.pend = "accept", !.path = p] \in RecvRec
    <3>1. rcv[c] \in RecvRec
      BY DEF TypeOK
    <3> QED
      BY <2>2, <3>1 DEF RecvRec
  <2>4. rcv' \in [Conns -> RecvRec]
    BY <2>1, <2>3 DEF TypeOK
  <2> QED
    BY <1>4, <2>4 DEF UserAccept, TypeOK
<1>5. CASE UserReject(c)
  <2>1. PICK r \in {"refused", "cancel"} : rcv' = [rcv EXCEPT ![c].pend = r]
    BY <1>5 DEF UserReject
  <2>2. [rcv[c] EXCEPT !.pend = r] \in RecvRec
    <3>1. rcv[c] \in RecvRec
      BY DEF TypeOK
    <3> QED
      BY <2>1, <3>1 DEF RecvRec
  <2>3. rcv' \in [Conns -> RecvRec]
    BY <2>1, <2>2 DEF TypeOK
  <2> QED
    BY <1>5, <2>3 DEF UserReject, TypeOK
<1>6. CASE CancelRecv(c)
  <2> DEFINE fl == rcv[c].pc \in {"recv", "hash", "rename"}
             w == IF rcv[c].pend = "wait" THEN "cancel" ELSE rcv[c].pend
  <2>1. rcv[c] \in RecvRec /\ fl \in BOOLEAN
    BY DEF TypeOK
  <2>2. w \in {"none", "wait", "accept", "refused", "cancel"}
    BY <2>1 DEF RecvRec
  <2>3. rcv' = [rcv EXCEPT ![c].flag = fl, ![c].pend = w, ![c].task = "Cancelled"]
    BY <1>6, <2>1 DEF CancelRecv, TypeOK, RecvRec
  <2>4. [rcv[c] EXCEPT !.flag = fl, !.pend = w, !.task = "Cancelled"] \in RecvRec
    <3> HIDE DEF fl, w
    <3> QED
      BY <2>1, <2>2, StatusNames DEF RecvRec
  <2>5. rcv' \in [Conns -> RecvRec]
    BY <2>3, <2>4 DEF TypeOK
  <2> QED
    BY <1>6, <2>5 DEF CancelRecv, TypeOK
<1>7. CASE RemoveRecv(c)
  <2>1. [rcv[c] EXCEPT !.task = "Removed"] \in RecvRec
    <3>1. rcv[c] \in RecvRec
      BY DEF TypeOK
    <3> QED
      BY <3>1, StatusNames DEF RecvRec
  <2>2. rcv' \in [Conns -> RecvRec]
    BY <1>7, <2>1 DEF RemoveRecv, TypeOK
  <2> QED
    BY <1>7, <2>2 DEF RemoveRecv, TypeOK
<1> QED
  BY <1>1, <1>2, <1>3, <1>4, <1>5, <1>6, <1>7 DEF UserStep

LEMMA LoseType ==
    ASSUME TypeOK, NEW c \in Conns, Lose(c)
    PROVE  TypeOK'
<1>1. toR' \in [Conns -> Seq(ToReceiver)]
  <2>1. toR \in [Conns -> Seq(ToReceiver)]
    BY DEF TypeOK
  <2>2. WithoutLast(toR, c) \in [Conns -> Seq(ToReceiver)]
    BY <2>1, WithoutLastType
  <2> QED
    BY <2>1, <2>2 DEF Lose
<1>2. toS' \in [Conns -> Seq(ToSender)]
  <2>1. toS \in [Conns -> Seq(ToSender)]
    BY DEF TypeOK
  <2>2. WithoutLast(toS, c) \in [Conns -> Seq(ToSender)]
    BY <2>1, WithoutLastType
  <2> QED
    BY <2>1, <2>2 DEF Lose
<1> QED
  BY <1>1, <1>2 DEF Lose, TypeOK, srcVars, dirVars

\* Every state of the QUIC channel is well typed: cursors, statuses, inodes and
\* messages stay in their sets whatever the two devices, their users and the
\* network do, for any number of attempts.
THEOREM TypeCorrect == Spec => []TypeOK
<1>1. Init => TypeOK
  BY InitType, DirectoryOK, ConstantsOK
<1>2. TypeOK /\ [Next]_vars => TypeOK'
  <2> SUFFICES ASSUME TypeOK, [Next]_vars PROVE TypeOK'
    OBVIOUS
  <2>1. CASE UNCHANGED vars
    BY <2>1 DEF TypeOK, vars
  <2>2. CASE EditSource
    <3>1. edits \in 0..MaxEdits /\ MaxEdits \in Nat
      BY DirectoryOK, ConstantsOK DEF TypeOK, DirectoryOK, ConstantsOK
    <3>2. src' \in Contents /\ edits' \in 0..MaxEdits
      BY <2>2, <3>1 DEF EditSource
    <3> QED
      BY <2>2, <3>2 DEF TypeOK, EditSource, netVars, dirVars
  <2>3. ASSUME NEW c \in Conns, UserStep(c) \/ SenderStep(c) \/ ReceiverStep(c) \/ Lose(c)
        PROVE  TypeOK'
    BY <2>3, DirectoryOK, ConstantsOK, UserStepType, SenderStepType, ReceiverStepType, LoseType
  <2> QED
    BY <2>1, <2>2, <2>3 DEF Next
<1> QED
  BY <1>1, <1>2, PTL DEF Spec

-----------------------------------------------------------------------------
(* The two sides agree on offsets.  InStep is the inductive invariant; it  *)
(* speaks of one attempt at a time and only of what SameView lists.        *)

SameView(d) ==
    /\ snd'[d].pc = snd[d].pc /\ snd'[d].off = snd[d].off /\ snd'[d].file = snd[d].file
    /\ rcv'[d].pc = rcv[d].pc /\ rcv'[d].off = rcv[d].off
    /\ toR'[d] = toR[d] /\ toS'[d] = toS[d]
    /\ (d \in lost') = (d \in lost) /\ (d \in stopped') = (d \in stopped)

Good(d) == ChunksInOrder(d) /\ SenderAligned(d)

LEMMA Unseen ==
    ASSUME NEW d \in Conns, Good(d), SameView(d)
    PROVE  Good(d)'
<1>1. ChunksInOrder(d)'
  BY DEF Good, SameView, ChunksInOrder
<1>2. AllChunks(d)' = AllChunks(d)
  BY DEF AllChunks, SameView
<1>3. SenderAligned(d)'
  BY <1>2 DEF Good, SameView, SenderAligned, ReceiverGone, OfferOnItsWay, UserIsAsked,
              AcceptOnItsWay, Behind
<1> QED
  BY <1>1, <1>3 DEF Good

\* Every step of an attempt leaves the others alone.
LEMMA OthersUnseen ==
    ASSUME TypeOK, NEW c \in Conns, NEW d \in Conns, d # c,
           UserStep(c) \/ SenderStep(c) \/ ReceiverStep(c) \/ Lose(c)
    PROVE  SameView(d) /\ snd'[d] = snd[d] /\ rcv'[d] = rcv[d]
<1> USE DEF TypeOK, SameView, netVars, srcVars, dirVars
<1>1. CASE UserStep(c)
  BY <1>1 DEF UserStep, StartSend, PauseSend, CancelSend, Stop, RemoveSend, UserAccept,
              UserReject, CancelRecv, RemoveRecv, TellReceiver
<1>2. CASE SenderStep(c)
  BY <1>2 DEF SenderStep, RecvAccept, RecvStop, SeeCancel, SendChunk, ChunkSent, SendComplete,
              RecvVerify, SendFails, AfterSend, PauseAcked, FinishSend, SendEnds, Returned,
              TellReceiver, Taken, Dropped
<1>3. CASE ReceiverStep(c)
  <2>1. CASE OfferFiltered(c) \/ OfferDuplicate(c) \/ OfferPlanned(c) \/ OfferLost(c)
    BY <2>1 DEF OfferFiltered, OfferDuplicate, OfferPlanned, OfferLost, RecvEnds,
                TellSender, Taken, Dropped
  <2>2. CASE Accepted(c) \/ Refused(c) \/ OpenPartial(c)
    BY <2>2 DEF Accepted, Refused, OpenPartial, RecvEnds, TellSender, Dropped
  <2>3. CASE RecvChunk(c) \/ RecvComplete(c) \/ PollDropsChunk(c)
    BY <2>3 DEF RecvChunk, RecvComplete, PollDropsChunk, Taken
  <2>4. CASE RecvPause(c) \/ RecvSeesCancel(c) \/ RecvBroken(c) \/ HashDiffers(c) \/ HashFails(c)
    BY <2>4 DEF RecvPause, RecvSeesCancel, RecvBroken, HashDiffers, HashFails, RecvError,
                RecvEnds, TellSender, Dropped
  <2>5. CASE HashOK(c) \/ Finalize(c) \/ FinalizeFails(c)
    BY <2>5 DEF HashOK, Finalize, FinalizeFails, RecvEnds, TellSender, Dropped
  <2> QED
    BY <1>3, <2>1, <2>2, <2>3, <2>4, <2>5 DEF ReceiverStep
<1>4. CASE Lose(c)
  BY <1>4 DEF Lose, WithoutLast
<1> QED
  BY <1>1, <1>2, <1>3, <1>4

\* A receiver that ended discards what was on its way to it.
LEMMA ReceiverEnded ==
    ASSUME NEW c \in Conns, rcv'[c].pc = "done", toR'[c] = <<>>
    PROVE  Good(c)'
<1>1. Len(toR'[c]) = 0
  OBVIOUS
<1>2. ChunksInOrder(c)'
  BY <1>1 DEF ChunksInOrder
<1>3. SenderAligned(c)'
  BY DEF SenderAligned, ReceiverGone
<1> QED
  BY <1>2, <1>3 DEF Good

\* A sender that sends no more chunks may append other messages.
LEMMA SenderLeft ==
    ASSUME TypeOK, NEW c \in Conns, ChunksInOrder(c), rcv' = rcv,
           snd'[c].pc \notin {"idle", "accept", "send", "chunk"},
           NEW m \in ToReceiver, m.type # "Chunk",
           toR'[c] = toR[c] \/ toR'[c] = Append(toR[c], m)
    PROVE  Good(c)'
<1>1. toR[c] \in Seq(ToReceiver)
  BY DEF TypeOK
<1>2. CASE toR'[c] = toR[c]
  BY <1>2 DEF Good, ChunksInOrder, SenderAligned
<1>3. CASE toR'[c] = Append(toR[c], m)
  <2>1. /\ Len(toR'[c]) = Len(toR[c]) + 1 /\ Len(toR[c]) \in Nat
        /\ \A k \in 1..Len(toR[c]) : toR'[c][k] = toR[c][k]
        /\ toR'[c][Len(toR[c]) + 1] = m
    BY <1>1, <1>3, AppendProperties, LenProperties
  <2>2. ASSUME NEW k \in 1..Len(toR'[c]), toR'[c][k].type = "Chunk"
        PROVE  /\ rcv'[c].pc \in {"open", "recv"}
               /\ toR'[c][k].off = rcv'[c].off + k - 1
               /\ \A j \in 1..k : toR'[c][j].type = "Chunk"
    <3>1. k \in 1..Len(toR[c]) /\ toR[c][k].type = "Chunk"
      BY <2>1, <2>2
    <3>2. \A j \in 1..k : toR'[c][j] = toR[c][j]
      BY <2>1, <3>1
    <3>3. /\ rcv[c].pc \in {"open", "recv"}
          /\ toR[c][k].off = rcv[c].off + k - 1
          /\ \A j \in 1..k : toR[c][j].type = "Chunk"
      BY <3>1 DEF ChunksInOrder
    <3> QED
      BY <3>1, <3>2, <3>3
  <2>3. ChunksInOrder(c)'
    BY <2>2 DEF ChunksInOrder
  <2> QED
    BY <2>3 DEF Good, SenderAligned
<1> QED
  BY <1>2, <1>3

LEMMA NotChunks ==
    /\ CompleteMsg \in ToReceiver /\ CompleteMsg.type # "Chunk"
    /\ CancelMsg("paused") \in ToReceiver /\ CancelMsg("paused").type # "Chunk"
    /\ OfferMsg \in ToReceiver /\ OfferMsg.type # "Chunk"
BY MessageTypes DEF CompleteMsg, CancelMsg, OfferMsg

LEMMA WhereSenderGoes ==
    ASSUME TypeOK, NEW c \in Conns, NEW r, NEW t, NEW h
    PROVE  /\ Returned(c, r) => snd'[c].pc = "end"
           /\ SendEnds(c, t, h) => snd'[c].pc = "done"
<1>1. Returned(c, r) => snd'[c].pc = "end"
  BY DEF Returned, TypeOK, SendRec
<1>2. SendEnds(c, t, h) => snd'[c].pc = "done"
  BY DEF SendEnds, NewSend, TypeOK
<1> QED
  BY <1>1, <1>2

LEMMA SenderKeepsStep ==
    ASSUME DirectoryOK, ConstantsOK, TypeOK, NEW c \in Conns, Good(c), SenderStep(c)
    PROVE  Good(c)'
<1> USE DEF netVars
<1>t. /\ snd[c] \in SendRec /\ rcv[c] \in RecvRec
      /\ toR[c] \in Seq(ToReceiver) /\ Len(toR[c]) \in Nat
      /\ snd[c].off \in Nat /\ rcv[c].off \in Nat
  BY LenProperties DEF TypeOK, SendRec, RecvRec
<1>1. CASE RecvAccept(c)
  <2>1. /\ toR' = toR /\ rcv' = rcv /\ lost' = lost /\ stopped' = stopped
        /\ snd'[c].pc = "send" /\ snd[c].pc = "accept" /\ toS[c] # <<>>
    BY <1>1 DEF RecvAccept, TypeOK, SenderGets
  <2>2. ChunksInOrder(c)'
    BY <2>1 DEF Good, ChunksInOrder
  <2>3. CASE ReceiverGone(c)
    BY <2>1, <2>2, <2>3 DEF Good, SenderAligned, ReceiverGone
  <2>4. CASE ~ReceiverGone(c)
    <3>1. AcceptOnItsWay(c)
      BY <2>1, <2>4 DEF Good, SenderAligned, OfferOnItsWay, UserIsAsked
    <3>2. Head(toS[c]).off = rcv[c].off
      BY <3>1 DEF AcceptOnItsWay, AcceptMsg
    <3>3. snd'[c].off = rcv[c].off
      BY <1>1, <1>t, <3>1, <3>2, LenType DEF RecvAccept, TypeOK, AcceptOnItsWay
    <3>4. Len(toR[c]) = 0
      BY <3>1 DEF AcceptOnItsWay
    <3>5. Behind(c, snd[c].off)'
      BY <1>t, <2>1, <3>1, <3>3, <3>4 DEF Behind, AcceptOnItsWay, AllChunks
    <3> QED
      BY <2>1, <2>2, <3>5 DEF Good, SenderAligned
  <2> QED
    BY <2>3, <2>4
<1>2. CASE RecvStop(c) \/ SeeCancel(c) \/ RecvVerify(c) \/ SendFails(c)
  <2>1. snd'[c].pc = "end" /\ toR' = toR /\ rcv' = rcv
    BY <1>2, WhereSenderGoes DEF RecvStop, SeeCancel, RecvVerify, SendFails
  <2> QED
    BY <2>1, SenderLeft, NotChunks DEF Good
<1>3. CASE SendChunk(c)
  <2> DEFINE m == ChunkMsg(snd[c].off, src[snd[c].off + 1])
  <2>1. /\ rcv' = rcv /\ lost' = lost /\ stopped' = stopped
        /\ snd[c].pc = "send" /\ snd'[c].pc = "chunk" /\ snd'[c].off = snd[c].off
        /\ TellReceiver(c, m)
    BY <1>3 DEF SendChunk, TypeOK
  <2>2. CASE ReceiverGone(c)
    <3>1. toR' = toR
      BY <2>1, <2>2 DEF TellReceiver
    <3> QED
      BY <2>1, <2>2, <3>1 DEF Good, ChunksInOrder, SenderAligned, ReceiverGone
  <2>3. CASE ~ReceiverGone(c)
    <3>1. Behind(c, snd[c].off)
      BY <2>1, <2>3 DEF Good, SenderAligned
    <3>2. toR'[c] = Append(toR[c], m)
      BY <2>1, <2>3 DEF TellReceiver, TypeOK
    <3>3. /\ Len(toR'[c]) = Len(toR[c]) + 1
          /\ \A k \in 1..Len(toR[c]) : toR'[c][k] = toR[c][k]
          /\ toR'[c][Len(toR[c]) + 1] = m
      <4> HIDE DEF m
      <4>1. toR[c] \in Seq(ToReceiver \union {m})
        BY <1>t, SeqMonotonic
      <4> QED
        BY <3>2, <4>1, AppendProperties
    <3>4. m.type = "Chunk" /\ m.off = snd[c].off
      BY DEF ChunkMsg
    <3> HIDE DEF m
    <3>5. ASSUME NEW k \in 1..Len(toR'[c])
          PROVE  toR'[c][k].type = "Chunk" /\ toR'[c][k].off = rcv[c].off + k - 1
      <4>1. CASE k = Len(toR[c]) + 1
        BY <1>t, <3>1, <3>3, <3>4, <4>1 DEF Behind
      <4>2. CASE k \in 1..Len(toR[c])
        <5>1. toR'[c][k] = toR[c][k] /\ toR[c][k].type = "Chunk"
          BY <3>1, <3>3, <4>2 DEF Behind, AllChunks
        <5> QED
          BY <4>2, <5>1 DEF Good, ChunksInOrder
      <4> QED
        BY <1>t, <3>3, <3>5, <4>1, <4>2
    <3>6. AllChunks(c)'
      BY <3>5 DEF AllChunks
    <3>7. ChunksInOrder(c)'
      <4>1. \A k \in 1..Len(toR'[c]) : \A j \in 1..k : j \in 1..Len(toR'[c])
        BY <1>t, <3>3
      <4> QED
        BY <2>1, <3>1, <3>5, <4>1 DEF ChunksInOrder, Behind
    <3>8. Behind(c, snd[c].off + 1)'
      BY <1>t, <2>1, <3>1, <3>3, <3>6 DEF Behind
    <3> QED
      BY <2>1, <3>7, <3>8 DEF Good, SenderAligned
  <2> QED
    BY <2>2, <2>3
<1>4. CASE ChunkSent(c)
  <2>1. /\ rcv' = rcv /\ toR' = toR /\ lost' = lost /\ stopped' = stopped
        /\ snd[c].pc = "chunk" /\ c \notin stopped /\ ~ReceiverGone(c)
        /\ snd'[c].pc = "send" /\ snd'[c].off = snd[c].off + 1
    BY <1>4 DEF ChunkSent, TypeOK, SendRec
  <2>2. Behind(c, snd[c].off + 1)
    BY <2>1 DEF Good, SenderAligned
  <2> QED
    BY <2>1, <2>2 DEF Good, ChunksInOrder, SenderAligned, Behind, AllChunks
<1>5. CASE SendComplete(c)
  <2>1. snd'[c].pc = "verify" /\ rcv' = rcv
    BY <1>5 DEF SendComplete, TypeOK
  <2>2. toR'[c] = toR[c] \/ toR'[c] = Append(toR[c], CompleteMsg)
    BY <1>5 DEF SendComplete, TellReceiver, TypeOK
  <2> QED
    BY <2>1, <2>2, SenderLeft, NotChunks DEF Good
<1>6. CASE AfterSend(c)
  <2>1. snd'[c].pc \in {"ack", "finish"} /\ rcv' = rcv
    <3>1. \A p : [snd EXCEPT ![c].pc = p][c].pc = p
      BY DEF TypeOK, SendRec
    <3> QED
      BY <1>6, <3>1 DEF AfterSend
  <2>2. toR'[c] = toR[c] \/ toR'[c] = Append(toR[c], CancelMsg("paused"))
    BY <1>6 DEF AfterSend, TellReceiver, TypeOK
  <2> QED
    BY <2>1, <2>2, SenderLeft, NotChunks DEF Good
<1>7. CASE PauseAcked(c) \/ FinishSend(c)
  <2>1. snd'[c].pc = "done" /\ toR' = toR /\ rcv' = rcv
    BY <1>7, WhereSenderGoes DEF PauseAcked, FinishSend
  <2> QED
    BY <2>1, SenderLeft, NotChunks DEF Good
<1> QED
  BY <1>1, <1>2, <1>3, <1>4, <1>5, <1>6, <1>7 DEF SenderStep

LEMMA WhereReceiverGoes ==
    ASSUME TypeOK, NEW c \in Conns, NEW t, NEW h
    PROVE  RecvEnds(c, t, h) => rcv'[c].pc = "done" /\ toR'[c] = <<>>
<1>1. RecvEnds(c, t, h) => rcv'[c].pc = "done"
  BY DEF RecvEnds, NewRecv, TypeOK
<1>2. RecvEnds(c, t, h) => toR'[c] = <<>>
  BY DEF RecvEnds, Dropped, TypeOK
<1> QED
  BY <1>1, <1>2

\* An Accept with the offset the receiver keeps, sent to a sender that waits.
LEMMA AcceptSent ==
    ASSUME TypeOK, NEW c \in Conns, Good(c), snd' = snd, lost' = lost, stopped' = stopped,
           rcv[c].pc \in {"idle", "confirm"},
           NEW o \in Nat, o <= Len(snd[c].file),
           rcv'[c].pc = "open", rcv'[c].off = o, TellSender(c, AcceptMsg(o)),
           ~ReceiverGone(c) => snd[c].pc # "idle",
           snd[c].pc = "accept" /\ ~ReceiverGone(c) => toS[c] = <<>> /\ toR'[c] = <<>>,
           \A k \in 1..Len(toR'[c]) : toR'[c][k].type # "Chunk"
    PROVE  Good(c)'
<1>1. ChunksInOrder(c)'
  BY DEF ChunksInOrder
<1>2. CASE ReceiverGone(c)
  <2>1. ReceiverGone(c)'
    BY <1>2 DEF ReceiverGone
  <2> QED
    BY <1>1, <2>1 DEF Good, SenderAligned
<1>3. CASE ~ReceiverGone(c)
  <2>1. snd[c].pc \notin {"idle", "send"} /\ (snd[c].pc = "chunk" => c \in stopped)
    BY <1>3 DEF Good, SenderAligned, Behind
  <2>2. snd[c].pc = "accept" => AcceptOnItsWay(c)'
    <3>1. snd[c].pc = "accept" => toS'[c] = Append(<<>>, AcceptMsg(o))
      BY <1>3 DEF TellSender, SenderGone, ReceiverGone, TypeOK
    <3>2. Append(<<>>, AcceptMsg(o)) = <<AcceptMsg(o)>>
      OBVIOUS
    <3> QED
      BY <1>3, <3>1, <3>2 DEF AcceptOnItsWay
  <2> QED
    BY <1>1, <2>1, <2>2 DEF Good, SenderAligned
<1> QED
  BY <1>2, <1>3

LEMMA ReceiverKeepsStep ==
    ASSUME DirectoryOK, ConstantsOK, TypeOK, NEW c \in Conns, Good(c), ReceiverStep(c)
    PROVE  Good(c)'
<1> USE DEF netVars
<1>t. /\ snd[c] \in SendRec /\ rcv[c] \in RecvRec
      /\ toR[c] \in Seq(ToReceiver) /\ Len(toR[c]) \in Nat
      /\ snd[c].off \in Nat /\ rcv[c].off \in Nat
  BY LenProperties DEF TypeOK, SendRec, RecvRec
<1>h. toR[c] # <<>> =>
        /\ Len(Tail(toR[c])) = Len(toR[c]) - 1 /\ Len(toR[c]) > 0
        /\ \A k \in 1..(Len(toR[c]) - 1) : Tail(toR[c])[k] = toR[c][k + 1]
        /\ Head(toR[c]) = toR[c][1]
  BY <1>t, HeadTailProperties
<1>k. toR' = Taken(toR, c) => toR'[c] = Tail(toR[c])
  BY DEF Taken, TypeOK
<1>1. CASE OfferFiltered(c) \/ OfferDuplicate(c) \/ OfferLost(c) \/ Refused(c)
  <2>1. rcv'[c].pc = "done" /\ toR'[c] = <<>>
    BY <1>1, WhereReceiverGoes DEF OfferFiltered, OfferDuplicate, OfferLost, Refused
  <2> QED
    BY <2>1, ReceiverEnded
<1>2. CASE RecvPause(c) \/ RecvSeesCancel(c) \/ RecvBroken(c) \/ HashDiffers(c) \/ HashFails(c)
  <2>1. rcv'[c].pc = "done" /\ toR'[c] = <<>>
    BY <1>2, WhereReceiverGoes DEF RecvPause, RecvSeesCancel, RecvBroken, HashDiffers,
                                   HashFails, RecvError
  <2> QED
    BY <2>1, ReceiverEnded
<1>3. CASE Finalize(c) \/ FinalizeFails(c)
  <2>1. rcv'[c].pc = "done" /\ toR'[c] = <<>>
    BY <1>3, WhereReceiverGoes DEF Finalize, FinalizeFails
  <2> QED
    BY <2>1, ReceiverEnded
<1>n. ASSUME rcv[c].pc \notin {"open", "recv"}
      PROVE  \A k \in 1..Len(toR[c]) : toR[c][k].type # "Chunk"
  BY <1>n DEF Good, ChunksInOrder
<1>4. CASE OfferPlanned(c)
  <2> DEFINE o == ResumeOffset(ResolveSavePath(1), snd[c].file)
  <2>1. o \in Nat /\ o <= Len(snd[c].file)
    <3>1. 1 \in Paths
      BY DEF DirectoryOK, ConstantsOK, Paths
    <3> QED
      BY <1>4, <3>1, SavePathIsFree, ResumeOffsetType DEF OfferPlanned
  <2>2. /\ snd' = snd /\ lost' = lost /\ stopped' = stopped
        /\ rcv[c].pc = "idle" /\ toR[c] # <<>> /\ Head(toR[c]).type = "Offer"
        /\ toR' = Taken(toR, c)
    BY <1>4 DEF OfferPlanned, GotOffer, ReceiverGets
  <2>3. Len(toR'[c]) \in Nat /\ \A k \in 1..Len(toR'[c]) : toR'[c][k].type # "Chunk"
    <3>1. Len(toR'[c]) = Len(toR[c]) - 1 /\ Len(toR[c]) > 0
      BY <1>h, <1>k, <2>2
    <3>2. \A k \in 1..Len(toR'[c]) : toR'[c][k] = toR[c][k + 1] /\ k + 1 \in 1..Len(toR[c])
      <4> SUFFICES ASSUME NEW k \in 1..Len(toR'[c])
                   PROVE  toR'[c][k] = toR[c][k + 1] /\ k + 1 \in 1..Len(toR[c])
        OBVIOUS
      <4>1. k \in 1..(Len(toR[c]) - 1)
        BY <3>1
      <4>2. toR'[c][k] = Tail(toR[c])[k]
        BY <1>k, <2>2
      <4> QED
        BY <1>t, <1>h, <2>2, <4>1, <4>2
    <3>3. \A k \in 1..Len(toR[c]) : toR[c][k].type # "Chunk"
      BY <1>n, <2>2
    <3> QED
      BY <1>t, <3>1, <3>2, <3>3
  <2>4. ~ReceiverGone(c) => snd[c].pc # "idle"
    BY <2>2 DEF Good, SenderAligned
  <2>5. snd[c].pc = "accept" /\ ~ReceiverGone(c) => toR[c] = <<OfferMsg>> /\ toS[c] = <<>>
    BY <2>2 DEF Good, SenderAligned, OfferOnItsWay, UserIsAsked, AcceptOnItsWay
  <2>6. snd[c].pc = "accept" /\ ~ReceiverGone(c) => toR'[c] = <<>>
    <3>1. Tail(<<OfferMsg>>) = <<>>
      OBVIOUS
    <3> QED
      BY <1>k, <2>2, <2>5, <3>1
  <2>7. rcv'[c].pc = (IF AutoAccept THEN "open" ELSE "confirm") /\ rcv'[c].off = o
    BY <1>4, <1>t DEF OfferPlanned, TypeOK, RecvRec
  <2>8. CASE AutoAccept
    <3>1. TellSender(c, AcceptMsg(o))
      BY <1>4, <2>8 DEF OfferPlanned
    <3> HIDE DEF o
    <3> QED
      BY <2>1, <2>2, <2>3, <2>4, <2>5, <2>6, <2>7, <2>8, <3>1, AcceptSent
  <2>9. CASE ~AutoAccept
    <3>1. toS' = toS /\ rcv'[c].pc = "confirm"
      BY <1>4, <2>7, <2>9 DEF OfferPlanned
    <3>2. ChunksInOrder(c)'
      BY <2>3 DEF ChunksInOrder
    <3>3. ReceiverGone(c)' => ReceiverGone(c)
      BY <2>2, <3>1 DEF ReceiverGone
    <3>4. ~ReceiverGone(c) => snd[c].pc \notin {"idle", "send"} /\ (snd[c].pc = "chunk" => c \in stopped)
      BY <2>2, <2>4 DEF Good, SenderAligned, Behind
    <3>5. ReceiverGone(c) => ReceiverGone(c)'
      BY <2>2 DEF ReceiverGone
    <3>6. SenderAligned(c)'
      BY <2>2, <2>5, <2>6, <3>1, <3>3, <3>4, <3>5 DEF SenderAligned, UserIsAsked
    <3> QED
      BY <3>2, <3>6 DEF Good
  <2> QED
    BY <2>8, <2>9
<1>5. CASE Accepted(c)
  <2> DEFINE p == ResolveConflict(rcv[c].path, snd[c].file)
             o == ResumeOffset(p, snd[c].file)
  <2>1. o \in Nat /\ o <= Len(snd[c].file)
    <3>1. p \in Paths
      BY <1>5, <1>t, ResolveConflictType DEF Accepted, RecvRec
    <3> QED
      BY <3>1, ResumeOffsetType
  <2>2. /\ snd' = snd /\ lost' = lost /\ stopped' = stopped /\ toR' = toR
        /\ rcv[c].pc = "confirm" /\ TellSender(c, AcceptMsg(o))
    BY <1>5 DEF Accepted
  <2>3. rcv'[c].pc = "open" /\ rcv'[c].off = o
    BY <1>5, <1>t DEF Accepted, TypeOK, RecvRec
  <2>4. \A k \in 1..Len(toR'[c]) : toR'[c][k].type # "Chunk"
    BY <1>n, <2>2
  <2>5. ~ReceiverGone(c) => snd[c].pc # "idle"
    BY <2>2 DEF Good, SenderAligned
  <2>6. snd[c].pc = "accept" /\ ~ReceiverGone(c) => toS[c] = <<>> /\ toR'[c] = <<>>
    BY <2>2 DEF Good, SenderAligned, OfferOnItsWay, UserIsAsked, AcceptOnItsWay
  <2> HIDE DEF o, p
  <2> QED
    BY <2>1, <2>2, <2>3, <2>4, <2>5, <2>6, AcceptSent
<1>6. CASE OpenPartial(c)
  <2>1. /\ snd' = snd /\ toR' = toR /\ toS' = toS /\ lost' = lost /\ stopped' = stopped
        /\ rcv[c].pc = "open" /\ rcv'[c].pc = "recv" /\ rcv'[c].off = rcv[c].off
    BY <1>6, <1>t DEF OpenPartial, TypeOK, RecvRec
  <2>2. ChunksInOrder(c)' /\ ReceiverGone(c)' = ReceiverGone(c)
    BY <2>1 DEF Good, ChunksInOrder, ReceiverGone
  <2>3. SenderAligned(c)'
    BY <2>1, <2>2 DEF Good, SenderAligned, OfferOnItsWay, UserIsAsked, AcceptOnItsWay,
                      Behind, AllChunks
  <2> QED
    BY <2>2, <2>3 DEF Good
<1>7. CASE RecvChunk(c)
  <2>1. /\ snd' = snd /\ toS' = toS /\ lost' = lost /\ stopped' = stopped
        /\ rcv[c].pc = "recv" /\ toR[c] # <<>> /\ toR[c][1].type = "Chunk"
        /\ toR'[c] = Tail(toR[c])
    BY <1>7, <1>h, <1>k DEF RecvChunk, Receiving, ReceiverGets
  <2>2. 1 \in 1..Len(toR[c]) /\ Len(toR'[c]) = Len(toR[c]) - 1
    BY <1>h, <1>t, <2>1
  <2>3. Head(toR[c]).off = rcv[c].off
    BY <1>h, <1>t, <2>1, <2>2 DEF Good, ChunksInOrder
  <2>4. rcv'[c].pc = "recv" /\ rcv'[c].off = rcv[c].off + 1
    BY <1>7, <1>t, <2>1, <2>3 DEF RecvChunk, TypeOK, RecvRec
  <2>5. ASSUME NEW k \in 1..Len(toR'[c])
        PROVE  k + 1 \in 1..Len(toR[c]) /\ toR'[c][k] = toR[c][k + 1]
    BY <1>h, <1>t, <2>1, <2>2
  <2>6. ASSUME NEW k \in 1..Len(toR'[c]), toR'[c][k].type = "Chunk"
        PROVE  /\ toR'[c][k].off = rcv'[c].off + k - 1
               /\ \A j \in 1..k : toR'[c][j].type = "Chunk"
    <3>1. toR[c][k + 1].type = "Chunk" /\ k + 1 \in 1..Len(toR[c])
      BY <2>5, <2>6
    <3>2. toR[c][k + 1].off = rcv[c].off + (k + 1) - 1
          /\ \A j \in 1..(k + 1) : toR[c][j].type = "Chunk"
      BY <3>1 DEF Good, ChunksInOrder
    <3>3. ASSUME NEW j \in 1..k
          PROVE  toR'[c][j].type = "Chunk"
      <4>1. j \in 1..Len(toR'[c]) /\ j + 1 \in 1..(k + 1)
        BY <1>t, <2>2
      <4> QED
        BY <2>5, <3>2, <4>1
    <3>4. toR'[c][k].off = rcv'[c].off + k - 1
      <4>1. toR'[c][k].off = rcv[c].off + (k + 1) - 1
        BY <2>5, <3>2
      <4>2. k \in Nat /\ rcv'[c].off = rcv[c].off + 1
        BY <2>4
      <4> QED
        BY <1>t, <4>1, <4>2
    <3> QED
      BY <3>3, <3>4
  <2>7. ChunksInOrder(c)'
    BY <2>4, <2>6 DEF ChunksInOrder
  <2>8. ASSUME NEW o \in Nat, Behind(c, o)
        PROVE  Behind(c, o)'
    <3>1. AllChunks(c)'
      BY <2>5, <2>8 DEF AllChunks, Behind
    <3>2. o = rcv'[c].off + Len(toR'[c])
      <4>1. o = rcv[c].off + Len(toR[c])
        BY <2>8 DEF Behind
      <4>2. rcv[c].off \in Nat /\ Len(toR[c]) \in Nat
        BY <1>t
      <4>3. o = (rcv[c].off + 1) + (Len(toR[c]) - 1)
        BY <4>1, <4>2
      <4> QED
        BY <2>2, <2>4, <4>3
    <3> QED
      BY <2>4, <3>1, <3>2 DEF Behind
  <2>9. ReceiverGone(c)' = ReceiverGone(c)
    BY <2>1, <2>4 DEF ReceiverGone
  <2>10. ~ReceiverGone(c) => snd[c].pc \notin {"idle", "accept"}
    BY <2>1 DEF Good, SenderAligned, OfferOnItsWay, UserIsAsked, AcceptOnItsWay
  <2>11. SenderAligned(c)'
    <3>1. snd[c].off + 1 \in Nat
      BY <1>t
    <3> QED
      BY <1>t, <2>1, <2>8, <2>9, <2>10, <3>1 DEF Good, SenderAligned
  <2> QED
    BY <2>7, <2>11 DEF Good
<1>8. CASE RecvComplete(c) \/ PollDropsChunk(c)
  <2>1. /\ snd' = snd /\ toS' = toS /\ lost' = lost
        /\ rcv[c].pc = "recv" /\ toR[c] # <<>> /\ toR'[c] = Tail(toR[c])
    BY <1>8, <1>k DEF RecvComplete, PollDropsChunk, Receiving, ReceiverGets
  <2>2. Len(toR'[c]) = Len(toR[c]) - 1
        /\ \A k \in 1..Len(toR'[c]) : toR'[c][k] = toR[c][k + 1] /\ k + 1 \in 1..Len(toR[c])
    BY <1>h, <1>t, <2>1
  <2>3. \A k \in 1..Len(toR'[c]) : toR'[c][k].type # "Chunk"
    <3>1. CASE RecvComplete(c)
      <4>1. toR[c][1].type # "Chunk"
        BY <1>h, <3>1 DEF RecvComplete, ReceiverGets
      <4>2. \A k \in 1..Len(toR[c]) : 1 \in 1..k
        BY <1>t
      <4> QED
        BY <2>2, <4>1, <4>2 DEF Good, ChunksInOrder
    <3>2. CASE PollDropsChunk(c)
      BY <1>t, <2>2, <3>2 DEF PollDropsChunk
    <3> QED
      BY <1>8, <3>1, <3>2
  <2>4. ChunksInOrder(c)'
    BY <2>3 DEF ChunksInOrder
  <2>5. ~ReceiverGone(c) => snd[c].pc \notin {"idle", "accept"}
    BY <2>1 DEF Good, SenderAligned, OfferOnItsWay, UserIsAsked, AcceptOnItsWay
  <2>6. ReceiverGone(c) => ReceiverGone(c)'
    BY <2>1 DEF ReceiverGone
  <2>7. CASE RecvComplete(c)
    <3>1. ~AllChunks(c)
      <4>1. 1 \in 1..Len(toR[c])
        BY <1>h, <1>t, <2>1
      <4>2. toR[c][1].type # "Chunk"
        BY <1>h, <2>7 DEF RecvComplete, ReceiverGets
      <4> QED
        BY <4>1, <4>2 DEF AllChunks
    <3>2. stopped' = stopped
      BY <2>7 DEF RecvComplete
    <3> QED
      BY <2>1, <2>4, <2>5, <2>6, <3>1, <3>2 DEF Good, SenderAligned, Behind
  <2>8. CASE PollDropsChunk(c)
    <3>1. snd[c].pc = "chunk" /\ c \in stopped'
      BY <2>8 DEF PollDropsChunk
    <3> QED
      BY <2>1, <2>4, <2>5, <2>6, <3>1 DEF Good, SenderAligned
  <2> QED
    BY <1>8, <2>7, <2>8
<1>9. CASE HashOK(c)
  <2>1. /\ snd' = snd /\ toR' = toR /\ lost' = lost /\ stopped' = stopped
        /\ rcv[c].pc = "hash" /\ rcv'[c].pc = "rename"
    BY <1>9 DEF HashOK, TypeOK, RecvRec
  <2>2. ChunksInOrder(c)'
    BY <1>n, <2>1 DEF ChunksInOrder
  <2>3. ~ReceiverGone(c) =>
          snd[c].pc \notin {"idle", "accept", "send"} /\ (snd[c].pc = "chunk" => c \in stopped)
    BY <2>1 DEF Good, SenderAligned, OfferOnItsWay, UserIsAsked, AcceptOnItsWay, Behind
  <2> QED
    BY <2>1, <2>2, <2>3 DEF Good, SenderAligned, ReceiverGone
<1> QED
  BY <1>1, <1>2, <1>3, <1>4, <1>5, <1>6, <1>7, <1>8, <1>9 DEF ReceiverStep

LEMMA UserKeepsStep ==
    ASSUME TypeOK, NEW c \in Conns, Good(c), UserStep(c)
    PROVE  Good(c)'
<1> USE DEF netVars
<1>1. CASE StartSend(c)
  <2>1. /\ rcv' = rcv /\ toS' = toS /\ lost' = lost /\ stopped' = stopped
        /\ snd[c].pc = "idle" /\ snd'[c].pc = "accept" /\ TellReceiver(c, OfferMsg)
    BY <1>1 DEF StartSend, MayStart, TypeOK, SendRec
  <2>2. CASE ReceiverGone(c)
    <3>1. toR' = toR
      BY <2>1, <2>2 DEF TellReceiver
    <3> QED
      BY <2>1, <2>2, <3>1 DEF Good, ChunksInOrder, SenderAligned, ReceiverGone
  <2>3. CASE ~ReceiverGone(c)
    <3>1. rcv[c].pc = "idle" /\ toR[c] = <<>> /\ toS[c] = <<>>
      BY <2>1, <2>3 DEF Good, SenderAligned
    <3>2. toR'[c] = <<OfferMsg>>
      <4>1. toR'[c] = Append(<<>>, OfferMsg)
        BY <2>1, <2>3, <3>1 DEF TellReceiver, TypeOK
      <4> QED
        BY <4>1
    <3>3. Len(toR'[c]) = 1 /\ toR'[c][1].type # "Chunk"
      BY <3>2, NotChunks
    <3>4. ChunksInOrder(c)'
      BY <3>3 DEF ChunksInOrder
    <3>5. OfferOnItsWay(c)'
      BY <2>1, <3>1, <3>2 DEF OfferOnItsWay
    <3> QED
      BY <2>1, <3>4, <3>5 DEF Good, SenderAligned
  <2> QED
    BY <2>2, <2>3
<1>2. CASE PauseSend(c) \/ CancelSend(c) \/ RemoveSend(c)
  <2>1. SameView(c)
    BY <1>2 DEF PauseSend, CancelSend, Stop, RemoveSend, SameView, TypeOK, SendRec
  <2> QED
    BY <2>1, Unseen
<1>3. CASE UserAccept(c) \/ UserReject(c) \/ CancelRecv(c) \/ RemoveRecv(c)
  <2>1. SameView(c)
    BY <1>3 DEF UserAccept, UserReject, CancelRecv, RemoveRecv, SameView, TypeOK, RecvRec
  <2> QED
    BY <2>1, Unseen
<1> QED
  BY <1>1, <1>2, <1>3 DEF UserStep

LEMMA LoseKeepsStep ==
    ASSUME TypeOK, NEW c \in Conns, Good(c), Lose(c)
    PROVE  Good(c)'
<1>1. rcv' = rcv /\ c \in lost'
  BY DEF Lose
<1>2. toR[c] \in Seq(ToReceiver) /\ Len(toR[c]) \in Nat
  BY LenProperties DEF TypeOK
<1>3. /\ Len(toR'[c]) \in Nat /\ Len(toR'[c]) <= Len(toR[c])
      /\ \A k \in 1..Len(toR'[c]) : toR'[c][k] = toR[c][k]
  <2>1. CASE toR' = toR
    BY <1>2, <2>1
  <2>2. CASE toR' = WithoutLast(toR, c)
    <3> DEFINE s == toR[c]
               n == Len(toR[c]) - 1
    <3>1. toR'[c] = SubSeq(s, 1, n)
      BY <2>2 DEF WithoutLast, TypeOK
    <3>2. n \in Int /\ \A i \in 1..n : s[i] \in ToReceiver
      BY <1>2, ElementOfSeq
    <3>3. /\ Len(SubSeq(s, 1, n)) = IF 1 <= n THEN n - 1 + 1 ELSE 0
          /\ \A i \in 1..(n - 1 + 1) : SubSeq(s, 1, n)[i] = s[1 + i - 1]
      BY <3>2, SubSeqProperties
    <3> QED
      BY <1>2, <3>1, <3>3
  <2> QED
    BY <2>1, <2>2 DEF Lose
<1>4. ChunksInOrder(c)'
  <2>1. ASSUME NEW k \in 1..Len(toR'[c]), toR'[c][k].type = "Chunk"
        PROVE  /\ rcv'[c].pc \in {"open", "recv"}
               /\ toR'[c][k].off = rcv'[c].off + k - 1
               /\ \A j \in 1..k : toR'[c][j].type = "Chunk"
    <3>1. k \in 1..Len(toR[c]) /\ toR[c][k].type = "Chunk"
      BY <1>2, <1>3, <2>1
    <3>2. \A j \in 1..k : toR'[c][j] = toR[c][j]
      BY <1>3
    <3>3. /\ rcv[c].pc \in {"open", "recv"}
          /\ toR[c][k].off = rcv[c].off + k - 1
          /\ \A j \in 1..k : toR[c][j].type = "Chunk"
      BY <3>1 DEF Good, ChunksInOrder
    <3>4. k \in 1..k
      BY <3>1
    <3> QED
      BY <1>1, <3>2, <3>3, <3>4
  <2> QED
    BY <2>1 DEF ChunksInOrder
<1> QED
  BY <1>1, <1>4 DEF Good, SenderAligned, ReceiverGone

LEMMA InitInStep == Init => InStep
<1> SUFFICES ASSUME Init, NEW c \in Conns PROVE Good(c)
  BY DEF InStep, Good
<1>1. toR[c] = <<>> /\ toS[c] = <<>> /\ snd[c].pc = "idle" /\ rcv[c].pc = "idle"
  BY DEF Init, NewSend, NewRecv
<1>2. Len(toR[c]) = 0
  BY <1>1
<1> QED
  BY <1>1, <1>2 DEF Good, ChunksInOrder, SenderAligned

\* The inductive invariant: the chunks on their way follow one another from the
\* offset the receiver expects.
THEOREM AlwaysInStep == Spec => []InStep
<1>1. Init => InStep
  BY InitInStep
<1>2. TypeOK /\ InStep /\ [Next]_vars => InStep'
  <2> SUFFICES ASSUME TypeOK, InStep, [Next]_vars, NEW d \in Conns PROVE Good(d)'
    BY DEF InStep, Good
  <2>0. Good(d)
    BY DEF InStep, Good
  <2>1. CASE UNCHANGED vars
    BY <2>0, <2>1, Unseen DEF SameView, vars
  <2>2. CASE EditSource
    BY <2>0, <2>2, Unseen DEF SameView, EditSource, netVars
  <2>3. ASSUME NEW c \in Conns, UserStep(c) \/ SenderStep(c) \/ ReceiverStep(c) \/ Lose(c)
        PROVE  Good(d)'
    <3>1. CASE d # c
      BY <2>0, <2>3, <3>1, OthersUnseen, Unseen
    <3>2. CASE d = c
      BY <2>0, <2>3, <3>2, DirectoryOK, ConstantsOK, UserKeepsStep, SenderKeepsStep, ReceiverKeepsStep,
         LoseKeepsStep
    <3> QED
      BY <3>1, <3>2
  <2> QED
    BY <2>1, <2>2, <2>3 DEF Next
<1> QED
  BY <1>1, <1>2, TypeCorrect, PTL DEF Spec

\* Resuming never misplaces data: for any number of attempts, overlapping or
\* not, the chunk a receiver takes next is the one it expects.
THEOREM ResumeOffsetsAgree == Spec => []OffsetsAgree
<1>1. TypeOK /\ InStep => OffsetsAgree
  <2> SUFFICES ASSUME TypeOK, InStep, NEW c \in Conns, ReceiverGets(c, "Chunk")
               PROVE  Head(toR[c]).off = rcv[c].off
    BY DEF OffsetsAgree
  <2>1. /\ toR[c] \in Seq(ToReceiver) /\ toR[c] # <<>> /\ Head(toR[c]).type = "Chunk"
        /\ rcv[c].off \in Nat
    BY DEF ReceiverGets, TypeOK, RecvRec
  <2>2. 1 \in 1..Len(toR[c]) /\ Head(toR[c]) = toR[c][1]
    BY <2>1, EmptySeq
  <2> QED
    BY <2>1, <2>2 DEF InStep, ChunksInOrder
<1> QED
  BY <1>1, TypeCorrect, AlwaysInStep, PTL

-----------------------------------------------------------------------------
(* The invariants of one attempt at a time.                                *)

\* One attempt runs, the others have not begun or are over; one that has not begun
\* has no receiver.  Only a receiver that waits for its user has a question open,
\* and only one that ended has written a record.
Alone     == \A c, d \in Conns : ~Quiet(c) /\ ~Quiet(d) => c = d
Unstarted == \A c \in Conns : snd[c].pc = "idle" => rcv[c].pc = "idle" /\ toR[c] = <<>>
Offered   == \A c \in Conns : snd[c].pc # "idle" => snd[c].file \in Contents
Asked     == \A c \in Conns : rcv[c].pc # "confirm" => rcv[c].pend = "none"
Unended   == \A c \in Conns : rcv[c].pc # "done" => rcv[c].hist = "none"

\* A receive that writes, hashes or renames still finds its own file under the
\* partial name.
Writing(c) == rcv[c].pc \in {"recv", "hash", "rename"}

HoldsPartial ==
    \A c \in Conns : Writing(c) =>
        rcv[c].handle # NoFile /\ partial[rcv[c].path] = rcv[c].handle

\* The file an attempt may create is not there before; a partial file has one name.
Fresh ==
    \A c \in Conns : rcv[c].pc \in {"idle", "confirm", "open"} =>
        data[c] = <<>> /\ \A p \in Paths : c \notin {partial[p], final[p]}

OneName ==
    \A p, q \in Paths : partial[p] # NoFile =>
        partial[p] # final[q] /\ (p # q => partial[p] # partial[q])

\* What is about to be renamed is still what was verified.
Verified == \A c \in Conns : rcv[c].pc = "rename" => AboutToSave(c)

OneAttempt == /\ Alone /\ Unstarted /\ Offered /\ Asked /\ Unended
              /\ HoldsPartial /\ Fresh /\ OneName /\ Verified

\* The name a receive was given stays free until its rename; one whose user still
\* decides may fall back to the plain name, which then holds no duplicate.
PathFree ==
    \A c \in Conns :
        /\ rcv[c].pc = "confirm" => /\ ~Duplicate(snd[c].file)
                                    /\ rcv[c].path = 1 \/ Free(rcv[c].path)
        /\ rcv[c].pc = "open" \/ Writing(c) => Free(rcv[c].path)

\* No partial file stands beside a final one, final files are whole, and what is
\* recorded as received is there.
NothingPartial == \A p \in Paths : partial[p] # NoFile => Free(p)
FinalWhole     == \A p \in Paths : ~Free(p) => data[final[p]] \in Contents
RecordedKept   == \A c \in Conns : rcv[c].hist = "Completed" => Saved(snd[c].file)

PlainNames == PathFree /\ NothingPartial /\ FinalWhole /\ RecordedKept

Assured(c) == Saved(snd[c].file) \/ AboutToSave(c)

VerifiedMsg == VerifyMsg(TRUE)

\* What makes a sender sure of its delivery: a Verify on its way, or its own record.
Sure(c) == \/ \E k \in 1..Len(toS[c]) : toS[c][k] = VerifiedMsg
           \/ snd[c].res = "ok"
           \/ "Completed" \in {snd[c].task, snd[c].hist}

Confirmed == \A c \in Conns : Sure(c) => snd[c].pc # "idle" /\ Assured(c)

\* Nothing is written but the content that is sent, from its first block on.
IsPrefix(s, f) == Len(s) <= Len(f) /\ \A k \in 1..Len(s) : s[k] = f[k]

SameSource    == \A c \in Conns : snd[c].pc # "idle" => snd[c].file = src
PartialPrefix == \A p \in Paths : partial[p] # NoFile => IsPrefix(data[partial[p]], src)

Cursor(c) ==
    /\ snd[c].pc = "send" => snd[c].off <= Len(snd[c].file)
    /\ snd[c].pc = "chunk" => snd[c].off < Len(snd[c].file)

\* A chunk carries the block that stands at its offset, and Complete comes when
\* the receiver has, after the chunks before it, everything.
Right(r, f, k, m) ==
    /\ m.type = "Chunk" => m.off < Len(f) /\ m.blk = f[m.off + 1]
    /\ m.type = "Complete" => r.pc \in {"open", "recv"} /\ r.off + k - 1 = Len(f)

OnTheWay(c) == \A k \in 1..Len(toR[c]) : Right(rcv[c], src, k, toR[c][k])

\* The offset a receiver expects is the length of what it has.
Expected(c) ==
    /\ rcv[c].pc = "open" =>
          rcv[c].off = IF partial[rcv[c].path] = NoFile THEN 0
                       ELSE Len(data[partial[rcv[c].path]])
    /\ rcv[c].pc = "recv" => rcv[c].off = Len(data[rcv[c].handle])
    /\ rcv[c].pc = "hash" => data[rcv[c].handle] = src

Content == /\ PartialPrefix
           /\ \A c \in Conns : Cursor(c) /\ OnTheWay(c) /\ Expected(c)

\* A sender that was paused tells its receiver before it goes, and a receiver fails
\* only when its sender went without a word.
CancelOnItsWay(c) == \E k \in 1..Len(toR[c]) : toR[c][k].type = "Cancel"

PauseTold(c) ==
    /\ snd[c].pc = "ack" => snd[c].task \in {"Paused", "Removed"}
    /\ snd[c].pc = "done" => snd[c].task # "Active"
    /\ rcv[c].hist = "Failed" /\ c \notin lost =>
          snd[c].pc = "done" /\ snd[c].task # "Paused"
    /\ c \notin lost /\ snd[c].pc \in {"ack", "done"} /\ snd[c].task = "Paused" =>
          rcv[c].pc \in {"hash", "rename", "done"} \/ CancelOnItsWay(c)
-----------------------------------------------------------------------------
(* What the steps of each side leave alone.                                *)

\* A coroutine that ends keeps only what it reports.
LEMMA SendEndsWith ==
    ASSUME TypeOK, NEW c \in Conns, NEW t, NEW h, SendEnds(c, t, h)
    PROVE  /\ snd'[c].pc = "done" /\ snd'[c].file = snd[c].file /\ snd'[c].res = "none"
           /\ snd'[c].task = t /\ snd'[c].hist = h
           /\ toS'[c] = <<>>
BY DEF TypeOK, SendEnds, NewSend, Dropped

\* The same of a receiver that ends: its log is discarded with it.
LEMMA RecvEndsWith ==
    ASSUME TypeOK, NEW c \in Conns, NEW t, NEW h, RecvEnds(c, t, h)
    PROVE  /\ rcv'[c].pc = "done" /\ rcv'[c].pend = "none" /\ rcv'[c].hist = h
           /\ toR'[c] = <<>>
BY DEF TypeOK, RecvEnds, NewRecv, Dropped

\* A step of a sender: its coroutine has begun and not ended, nothing else is
\* touched but what is on its way.
LEMMA SenderFrame ==
    ASSUME TypeOK, NEW c \in Conns, SenderStep(c)
    PROVE  /\ snd[c].pc \notin {"idle", "done"} /\ snd'[c].pc # "idle"
           /\ snd'[c].file = snd[c].file
           /\ UNCHANGED <<rcv, netVars, srcVars, dirVars>>
<1>1. CASE RecvAccept(c) \/ RecvStop(c) \/ SeeCancel(c) \/ SendChunk(c) \/ ChunkSent(c)
  BY <1>1 DEF RecvAccept, RecvStop, SeeCancel, SendChunk, ChunkSent, SendRec, TypeOK, Returned
<1>2. CASE SendComplete(c) \/ RecvVerify(c) \/ SendFails(c) \/ AfterSend(c)
  BY <1>2 DEF SendComplete, RecvVerify, SendFails, AfterSend, SendRec, TypeOK, Returned
<1>3. CASE PauseAcked(c) \/ FinishSend(c)
  BY <1>3, SendEndsWith DEF PauseAcked, FinishSend
<1> QED
  BY <1>1, <1>2, <1>3 DEF SenderStep

\* A step of a receiver: its coroutine has not ended, and has something to do
\* only when the sender has begun.
LEMMA ReceiverFrame ==
    ASSUME TypeOK, Unstarted, NEW c \in Conns, ReceiverStep(c)
    PROVE  /\ snd[c].pc # "idle" /\ rcv[c].pc # "done" /\ rcv'[c].pc # "idle"
           /\ UNCHANGED <<snd, lost, srcVars>>
<1> USE DEF netVars
<1>0. snd[c].pc # "idle" \/ (rcv[c].pc = "idle" /\ toR[c] = <<>>)
  BY DEF Unstarted
<1>1. CASE OfferFiltered(c) \/ OfferDuplicate(c) \/ OfferLost(c) \/ Refused(c)
  BY <1>0, <1>1, RecvEndsWith DEF OfferFiltered, OfferDuplicate, OfferLost, GotOffer,
                                  ReceiverGets, Refused
<1>2. CASE OfferPlanned(c)
  <2>1. rcv'[c].pc \in {"open", "confirm"}
    BY <1>2 DEF OfferPlanned, TypeOK, RecvRec
  <2> QED
    BY <1>0, <1>2, <2>1 DEF OfferPlanned, GotOffer, ReceiverGets
<1>3. CASE Accepted(c) \/ OpenPartial(c)
  BY <1>0, <1>3 DEF Accepted, OpenPartial, RecvRec, TypeOK
<1>4. CASE RecvChunk(c) \/ RecvComplete(c) \/ PollDropsChunk(c)
  BY <1>0, <1>4 DEF RecvChunk, RecvComplete, PollDropsChunk, Receiving, RecvRec, TypeOK
<1>5. CASE RecvPause(c) \/ RecvSeesCancel(c) \/ RecvBroken(c) \/ HashDiffers(c) \/ HashFails(c)
  BY <1>0, <1>5, RecvEndsWith DEF RecvPause, RecvSeesCancel, RecvBroken, HashDiffers, HashFails,
                                  RecvError, Receiving
<1>6. CASE HashOK(c)
  BY <1>0, <1>6 DEF HashOK, RecvRec, TypeOK
<1>7. CASE Finalize(c) \/ FinalizeFails(c)
  BY <1>0, <1>7, RecvEndsWith DEF Finalize, FinalizeFails
<1> QED
  BY <1>1, <1>2, <1>3, <1>4, <1>5, <1>6, <1>7 DEF ReceiverStep

\* The moves of the users and of the network: no coroutine moves, a decision
\* changes the path of a receive that waits for it, the directory stays.
OutsideStep(c) == PauseSend(c) \/ CancelSend(c) \/ RemoveSend(c) \/ UserAccept(c)
                    \/ UserReject(c) \/ CancelRecv(c) \/ RemoveRecv(c) \/ Lose(c)

\* What such a move may change of its attempt.
LEMMA OutsideFrame ==
    ASSUME TypeOK, Asked, NEW c \in Conns, OutsideStep(c)
    PROVE  /\ snd'[c].pc = snd[c].pc /\ snd'[c].file = snd[c].file
           /\ snd'[c].off = snd[c].off /\ snd'[c].res = snd[c].res
           /\ snd'[c].hist = snd[c].hist
           /\ \/ snd'[c].task = snd[c].task
              \/ snd'[c].task \in {"Paused", "Cancelled"} /\ snd[c].task = "Active"
              \/ snd'[c].task = "Removed" /\ snd[c].pc # "done"
           /\ rcv'[c].pc = rcv[c].pc /\ rcv'[c].handle = rcv[c].handle
           /\ rcv'[c].off = rcv[c].off /\ rcv'[c].hist = rcv[c].hist
           /\ rcv'[c].pend = rcv[c].pend \/ rcv[c].pc = "confirm"
           /\ \/ rcv'[c].path = rcv[c].path
              \/ rcv[c].pc = "confirm" /\ rcv'[c].path \in UserPaths \union {1}
           /\ UNCHANGED <<stopped, srcVars, dirVars>>
<1> USE DEF netVars, srcVars, dirVars
<1>1. CASE PauseSend(c) \/ CancelSend(c)
  BY <1>1 DEF PauseSend, CancelSend, Stop, SendRec, TypeOK
<1>2. CASE RemoveSend(c)
  BY <1>2 DEF RemoveSend, SendRec, TypeOK
<1>3. CASE UserAccept(c)
  BY <1>3 DEF UserAccept, RecvRec, Asked, TypeOK
<1>4. CASE UserReject(c)
  BY <1>4 DEF UserReject, RecvRec, Asked, TypeOK
<1>5. CASE CancelRecv(c)
  BY <1>5 DEF CancelRecv, RecvRec, Asked, TypeOK
<1>6. CASE RemoveRecv(c)
  BY <1>6 DEF RemoveRecv, RecvRec, Asked, TypeOK
<1>7. CASE Lose(c)
  BY <1>7 DEF Lose
<1> QED
  BY <1>1, <1>2, <1>3, <1>4, <1>5, <1>6, <1>7 DEF OutsideStep
-----------------------------------------------------------------------------
(* One attempt at a time.                                                  *)

\* Before the first attempt everything is quiet and nothing is partial.
LEMMA InitOneAttempt == DirectoryOK /\ ConstantsOK /\ Init => OneAttempt
<1> SUFFICES ASSUME DirectoryOK, ConstantsOK, Init PROVE OneAttempt
  OBVIOUS
<1>1. \A c \in Conns : /\ snd[c].pc = "idle" /\ rcv[c].pc = "idle" /\ rcv[c].pend = "none"
                       /\ rcv[c].hist = "none" /\ toR[c] = <<>>
  BY DEF Init, NewSend, NewRecv
<1>2. Alone /\ Unstarted /\ Offered /\ Asked /\ Unended /\ HoldsPartial /\ Verified
  BY <1>1 DEF Alone, Unstarted, Offered, Asked, Unended, HoldsPartial, Verified, Quiet, Writing
<1>3. \A p \in Paths : partial[p] = NoFile /\ final[p] \in {Old, NoFile}
  BY DEF Init, InitDirectory
<1>4. PICK old \in Contents, there \in {Old, NoFile} :
          data = [i \in Inodes |-> IF i = there THEN old ELSE <<>>]
  BY DEF Init, InitDirectory
<1>5. \A c \in Conns : c \in Inodes /\ c # Old /\ c # NoFile
  BY DEF Conns, Inodes, ConstantsOK, Old, NoFile
<1>6. Fresh /\ OneName
  BY <1>3, <1>4, <1>5 DEF Fresh, OneName
<1> QED
  BY <1>2, <1>6 DEF OneAttempt

\* With the directory unchanged and no receiver moving on, nothing changes.
LEMMA StillOneAttempt ==
    ASSUME OneAttempt, NEW c \in Conns, UNCHANGED dirVars,
           \A d \in Conns : d # c => /\ snd'[d] = snd[d] /\ rcv'[d] = rcv[d]
                                     /\ toR'[d] = toR[d],
           snd[c].pc # "idle" \/ toR'[c] = toR[c],
           rcv'[c].pc = rcv[c].pc, rcv'[c].hist = rcv[c].hist,
           rcv'[c].handle = rcv[c].handle,
           rcv'[c].pend = rcv[c].pend \/ rcv[c].pc = "confirm",
           rcv'[c].path = rcv[c].path \/ rcv[c].pc = "confirm",
           \/ snd'[c].pc = snd[c].pc /\ snd'[c].file = snd[c].file
           \/ /\ snd[c].pc \notin {"idle", "done"} /\ snd'[c].pc # "idle"
              /\ snd'[c].file = snd[c].file
    PROVE  OneAttempt'
<1>1. \A d \in Conns : Quiet(d) => Quiet(d)'
  BY DEF Quiet, OneAttempt, Unstarted
<1>2. Alone'
  BY <1>1 DEF Alone, OneAttempt
<1>3. Unstarted' /\ Offered' /\ Asked' /\ Unended'
  BY DEF OneAttempt, Unstarted, Offered, Asked, Unended
<1>4. HoldsPartial' /\ Fresh' /\ OneName'
  BY DEF OneAttempt, HoldsPartial, Fresh, OneName, Writing, dirVars
<1>5. Verified'
  BY DEF OneAttempt, Verified, AboutToSave, dirVars
<1> QED
  BY <1>2, <1>3, <1>4, <1>5 DEF OneAttempt

\* The moves of users and network keep one attempt at a time.
LEMMA OutsideKeepsOne ==
    ASSUME TypeOK, OneAttempt, NEW c \in Conns, OutsideStep(c)
    PROVE  OneAttempt'
<1>1. \A d \in Conns : d # c => /\ snd'[d] = snd[d] /\ rcv'[d] = rcv[d] /\ toR'[d] = toR[d]
  BY OthersUnseen DEF OutsideStep, UserStep, SameView
<1>2. snd[c].pc # "idle" \/ toR'[c] = toR[c]
  BY DEF OutsideStep, PauseSend, CancelSend, Stop, RemoveSend, UserAccept, UserReject,
         CancelRecv, RemoveRecv, Lose, OneAttempt, Unstarted
<1> QED
  BY <1>1, <1>2, OutsideFrame, StillOneAttempt DEF OneAttempt

\* So do the steps of a sender.
LEMMA SenderKeepsOne ==
    ASSUME TypeOK, OneAttempt, NEW c \in Conns, SenderStep(c)
    PROVE  OneAttempt'
<1>1. \A d \in Conns : d # c => /\ snd'[d] = snd[d] /\ rcv'[d] = rcv[d] /\ toR'[d] = toR[d]
  BY OthersUnseen DEF SameView
<1> QED
  BY <1>1, SenderFrame, StillOneAttempt

\* An attempt starts when every other one is quiet.
LEMMA StartKeepsOne ==
    ASSUME ~Overlap, TypeOK, OneAttempt, NEW c \in Conns, StartSend(c)
    PROVE  OneAttempt'
<1>1. /\ snd[c].pc = "idle" /\ rcv[c].pc = "idle"
      /\ \A d \in Conns : Quiet(d)
      /\ UNCHANGED <<rcv, dirVars>>
  BY DEF StartSend, MayStart, OneAttempt, Unstarted
<1>2. snd'[c].pc = "accept" /\ snd'[c].file = src /\ src \in Contents
  BY DEF StartSend, TypeOK, SendRec
<1>3. \A d \in Conns : d # c => snd'[d] = snd[d] /\ toR'[d] = toR[d]
  BY OthersUnseen DEF UserStep, SameView
<1>4. Alone'
  BY <1>1, <1>3 DEF Alone, Quiet
<1>5. Unstarted' /\ Offered' /\ Asked' /\ Unended'
  BY <1>1, <1>2, <1>3 DEF OneAttempt, Unstarted, Offered, Asked, Unended
<1>6. HoldsPartial' /\ Fresh' /\ OneName'
  BY <1>1 DEF OneAttempt, HoldsPartial, Fresh, OneName, Writing, dirVars
<1>7. Verified'
  BY <1>1, <1>3 DEF OneAttempt, Verified, AboutToSave, dirVars
<1> QED
  BY <1>4, <1>5, <1>6, <1>7 DEF OneAttempt

\* While a receiver moves, every other attempt is quiet.
LEMMA OthersQuiet ==
    ASSUME OneAttempt, NEW c \in Conns, snd[c].pc # "idle", rcv[c].pc # "done",
           NEW d \in Conns, d # c
    PROVE  rcv[d].pc \in {"idle", "done"}
BY DEF OneAttempt, Alone, Quiet, Unstarted

\* A receiver's step keeps what does not speak of the directory.
LEMMA ReceiverKeepsAlone ==
    ASSUME TypeOK, OneAttempt, NEW c \in Conns, ReceiverStep(c)
    PROVE  /\ Alone' /\ Unstarted' /\ Offered'
           /\ \A d \in Conns : d # c => rcv[d].pc \in {"idle", "done"} /\ rcv'[d] = rcv[d]
           /\ snd' = snd /\ snd[c].pc # "idle" /\ rcv[c].pc # "done" /\ rcv'[c].pc # "idle"
<1>1. /\ snd[c].pc # "idle" /\ rcv[c].pc # "done" /\ rcv'[c].pc # "idle"
      /\ snd' = snd
  BY ReceiverFrame DEF OneAttempt
<1>2. \A d \in Conns : d # c => /\ rcv[d].pc \in {"idle", "done"} /\ rcv'[d] = rcv[d]
                                /\ toR'[d] = toR[d]
  BY <1>1, OthersUnseen, OthersQuiet DEF SameView
<1>3. \A d \in Conns : Quiet(d) => Quiet(d)'
  BY <1>1, <1>2 DEF Quiet
<1>4. Alone' /\ Unstarted' /\ Offered'
  BY <1>1, <1>2, <1>3 DEF OneAttempt, Alone, Unstarted, Offered
<1> QED
  BY <1>1, <1>2, <1>4

\* A receive that ends and leaves the directory with fewer partial files.
LEMMA EndKeepsOne ==
    ASSUME TypeOK, OneAttempt, NEW c \in Conns, ReceiverStep(c),
           rcv'[c].pc = "done", rcv'[c].pend = "none",
           data' = data, final' = final,
           \A p \in Paths : partial'[p] \in {partial[p], NoFile}
    PROVE  OneAttempt'
<1>1. /\ Alone' /\ Unstarted' /\ Offered'
      /\ \A d \in Conns : d # c => rcv[d].pc \in {"idle", "done"} /\ rcv'[d] = rcv[d]
      /\ snd' = snd
  BY ReceiverKeepsAlone
<1>2. Asked' /\ Unended'
  BY <1>1 DEF OneAttempt, Asked, Unended
<1>3. HoldsPartial' /\ Verified'
  BY <1>1 DEF HoldsPartial, Verified, Writing
<1>4. Fresh'
  BY <1>1 DEF OneAttempt, Fresh, Conns, NoFile
<1>5. OneName'
  BY DEF OneAttempt, OneName
<1> QED
  BY <1>1, <1>2, <1>3, <1>4, <1>5 DEF OneAttempt

\* A plan or a decision: the path is settled, a partial file that is too long
\* deleted.
LEMMA PlanKeepsOne ==
    ASSUME TypeOK, OneAttempt, NEW c \in Conns, ReceiverStep(c),
           rcv[c].pc \in {"idle", "confirm"}, rcv'[c].pc \in {"confirm", "open"},
           rcv'[c].pc = "open" => rcv'[c].pend = "none", rcv'[c].hist = rcv[c].hist,
           data' = data, final' = final,
           \A p \in Paths : partial'[p] \in {partial[p], NoFile}
    PROVE  OneAttempt'
<1>1. /\ Alone' /\ Unstarted' /\ Offered'
      /\ \A d \in Conns : d # c => rcv[d].pc \in {"idle", "done"} /\ rcv'[d] = rcv[d]
      /\ snd' = snd
  BY ReceiverKeepsAlone
<1>2. Asked' /\ Unended'
  BY <1>1 DEF OneAttempt, Asked, Unended
<1>3. HoldsPartial' /\ Verified'
  BY <1>1 DEF HoldsPartial, Verified, Writing
<1>4. Fresh'
  BY <1>1 DEF OneAttempt, Fresh, Conns, NoFile
<1>5. OneName'
  BY DEF OneAttempt, OneName
<1> QED
  BY <1>1, <1>2, <1>3, <1>4, <1>5 DEF OneAttempt

\* The partial file is opened or created.
LEMMA OpenKeepsOne ==
    ASSUME TypeOK, OneAttempt, NEW c \in Conns, OpenPartial(c)
    PROVE  OneAttempt'
<1>1. /\ Alone' /\ Unstarted' /\ Offered'
      /\ \A d \in Conns : d # c => rcv[d].pc \in {"idle", "done"} /\ rcv'[d] = rcv[d]
      /\ snd' = snd
  BY ReceiverKeepsAlone DEF ReceiverStep
<1> DEFINE path == rcv[c].path
           i == IF partial[path] = NoFile THEN c ELSE partial[path]
<1>2. /\ rcv'[c].pc = "recv" /\ rcv'[c].handle = i /\ rcv'[c].path = path
      /\ rcv'[c].pend = rcv[c].pend /\ rcv'[c].hist = rcv[c].hist
      /\ partial' = [partial EXCEPT ![path] = i] /\ data' = data /\ final' = final
      /\ rcv[c].pc = "open"
  BY DEF OpenPartial, TypeOK, RecvRec
<1>3. path \in Paths /\ partial'[path] = i /\ i # NoFile /\ c # NoFile
  BY <1>2 DEF TypeOK, RecvRec, Conns, NoFile
<1>4. Asked' /\ Unended'
  BY <1>1, <1>2 DEF OneAttempt, Asked, Unended
<1>5. HoldsPartial' /\ Verified'
  BY <1>1, <1>2, <1>3 DEF HoldsPartial, Verified, Writing
<1>6. \A p \in Paths : c \notin {partial[p], final[p]}
  BY <1>2 DEF OneAttempt, Fresh
<1>7. Fresh'
  <2> SUFFICES ASSUME NEW d \in Conns, rcv'[d].pc \in {"idle", "confirm", "open"}
               PROVE  data'[d] = <<>> /\ \A p \in Paths : d \notin {partial'[p], final'[p]}
    BY DEF Fresh
  <2>1. d # c /\ rcv[d].pc \in {"idle", "confirm", "open"}
    BY <1>1, <1>2
  <2>2. data[d] = <<>> /\ \A p \in Paths : d \notin {partial[p], final[p]}
    BY <2>1 DEF OneAttempt, Fresh
  <2> QED
    BY <1>2, <1>3, <2>1, <2>2 DEF TypeOK
<1>8. OneName'
  <2> SUFFICES ASSUME NEW p \in Paths, NEW q \in Paths, partial'[p] # NoFile
               PROVE  partial'[p] # final'[q] /\ (p # q => partial'[p] # partial'[q])
    BY DEF OneName
  <2>1. CASE partial[path] = NoFile
    BY <1>2, <1>3, <1>6, <2>1 DEF OneAttempt, OneName, TypeOK
  <2>2. CASE partial[path] # NoFile
    BY <1>2, <1>3, <2>2 DEF OneAttempt, OneName, TypeOK
  <2> QED
    BY <2>1, <2>2
<1> QED
  BY <1>1, <1>4, <1>5, <1>7, <1>8 DEF OneAttempt

\* A chunk is written to the partial file of its receive, to no other file.
LEMMA WriteKeepsOne ==
    ASSUME TypeOK, OneAttempt, NEW c \in Conns, ReceiverStep(c),
           rcv[c].pc = "recv", rcv'[c].pc \in {"recv", "hash"},
           rcv'[c].pend = rcv[c].pend, rcv'[c].hist = rcv[c].hist,
           rcv'[c].handle = rcv[c].handle, rcv'[c].path = rcv[c].path,
           partial' = partial, final' = final,
           \A i \in Inodes : i # rcv[c].handle => data'[i] = data[i]
    PROVE  OneAttempt'
<1>1. /\ Alone' /\ Unstarted' /\ Offered'
      /\ \A d \in Conns : d # c => rcv[d].pc \in {"idle", "done"} /\ rcv'[d] = rcv[d]
      /\ snd' = snd
  BY ReceiverKeepsAlone
<1>2. Asked' /\ Unended'
  BY <1>1 DEF OneAttempt, Asked, Unended
<1>3. HoldsPartial' /\ Verified' /\ OneName'
  BY <1>1 DEF OneAttempt, HoldsPartial, Verified, OneName, Writing
<1>4. Fresh'
  <2> SUFFICES ASSUME NEW d \in Conns, rcv'[d].pc \in {"idle", "confirm", "open"}
               PROVE  data'[d] = <<>> /\ \A p \in Paths : d \notin {partial'[p], final'[p]}
    BY DEF Fresh
  <2>1. d # c /\ rcv[d].pc \in {"idle", "confirm", "open"}
    BY <1>1
  <2>2. data[d] = <<>> /\ \A p \in Paths : d \notin {partial[p], final[p]}
    BY <2>1 DEF OneAttempt, Fresh
  <2>3. d # rcv[c].handle /\ d \in Inodes
    BY <2>2 DEF OneAttempt, HoldsPartial, Writing, TypeOK, RecvRec, Conns, Inodes
  <2> QED
    BY <2>2, <2>3
<1> QED
  BY <1>1, <1>2, <1>3, <1>4 DEF OneAttempt

\* What was verified is the partial file that will be renamed.
LEMMA HashKeepsOne ==
    ASSUME TypeOK, OneAttempt, NEW c \in Conns, HashOK(c)
    PROVE  OneAttempt'
<1>1. /\ Alone' /\ Unstarted' /\ Offered'
      /\ \A d \in Conns : d # c => rcv[d].pc \in {"idle", "done"} /\ rcv'[d] = rcv[d]
      /\ snd' = snd
  BY ReceiverKeepsAlone DEF ReceiverStep
<1>2. /\ rcv'[c].pc = "rename" /\ rcv'[c].handle = rcv[c].handle /\ rcv'[c].path = rcv[c].path
      /\ rcv'[c].pend = rcv[c].pend /\ rcv'[c].hist = rcv[c].hist
      /\ UNCHANGED dirVars /\ rcv[c].pc = "hash"
      /\ partial[rcv[c].path] # NoFile /\ data[partial[rcv[c].path]] = snd[c].file
  BY DEF HashOK, HashOf, TypeOK, RecvRec
<1>3. Asked' /\ Unended'
  BY <1>1, <1>2 DEF OneAttempt, Asked, Unended
<1>4. HoldsPartial' /\ Fresh' /\ OneName'
  BY <1>1, <1>2 DEF OneAttempt, HoldsPartial, Fresh, OneName, Writing, dirVars
<1>5. Verified'
  BY <1>1, <1>2 DEF Verified, AboutToSave, dirVars
<1> QED
  BY <1>1, <1>3, <1>4, <1>5 DEF OneAttempt

\* finalize moves one file from its partial name to its final one.
LEMMA FinalizeKeepsOne ==
    ASSUME TypeOK, OneAttempt, NEW c \in Conns, Finalize(c) \/ FinalizeFails(c)
    PROVE  OneAttempt'
<1>1. /\ Alone' /\ Unstarted' /\ Offered'
      /\ \A d \in Conns : d # c => rcv[d].pc \in {"idle", "done"} /\ rcv'[d] = rcv[d]
      /\ snd' = snd
  BY ReceiverKeepsAlone DEF ReceiverStep
<1> DEFINE path == rcv[c].path
<1>2. /\ rcv'[c].pc = "done" /\ rcv'[c].pend = "none" /\ data' = data /\ path \in Paths
      /\ \/ /\ partial[path] # NoFile
            /\ final' = [final EXCEPT ![path] = partial[path]]
            /\ partial' = [partial EXCEPT ![path] = NoFile]
         \/ /\ partial' = partial
            /\ final' \in {final, [final EXCEPT ![path] = NoFile]}
  BY RecvEndsWith DEF Finalize, FinalizeFails, FinalizeFile, FinalizeLost, TypeOK, RecvRec
<1>3. Asked' /\ Unended' /\ HoldsPartial' /\ Verified'
  BY <1>1, <1>2 DEF OneAttempt, Asked, Unended, HoldsPartial, Verified, Writing
<1>4. Fresh'
  <2> SUFFICES ASSUME NEW d \in Conns, rcv'[d].pc \in {"idle", "confirm", "open"}
               PROVE  data'[d] = <<>> /\ \A p \in Paths : d \notin {partial'[p], final'[p]}
    BY DEF Fresh
  <2>1. data[d] = <<>> /\ \A p \in Paths : d \notin {partial[p], final[p]}
    BY <1>1, <1>2 DEF OneAttempt, Fresh
  <2>2. \A p \in Paths : /\ partial'[p] \in {partial[p], NoFile}
                         /\ final'[p] \in {final[p], NoFile, partial[path]}
    BY <1>2 DEF TypeOK
  <2> QED
    BY <1>2, <2>1, <2>2 DEF Conns, NoFile
<1>5. OneName'
  BY <1>1, <1>2 DEF OneAttempt, OneName, TypeOK
<1> QED
  BY <1>1, <1>3, <1>4, <1>5 DEF OneAttempt

\* And every step of a receiver.
LEMMA ReceiverKeepsOne ==
    ASSUME TypeOK, OneAttempt, NEW c \in Conns, ReceiverStep(c)
    PROVE  OneAttempt'
<1>1. CASE OfferFiltered(c) \/ OfferDuplicate(c) \/ OfferLost(c) \/ Refused(c)
  BY <1>1, RecvEndsWith, EndKeepsOne DEF OfferFiltered, OfferDuplicate, OfferLost, Refused, dirVars
<1>2. CASE OfferPlanned(c) \/ Accepted(c)
  <2>1. /\ data' = data /\ final' = final
        /\ \A p \in Paths : partial'[p] \in {partial[p], NoFile}
    BY <1>2 DEF OfferPlanned, Accepted, AfterValidate, TypeOK
  <2>2. /\ rcv[c].pc \in {"idle", "confirm"} /\ rcv'[c].pc \in {"confirm", "open"}
        /\ rcv'[c].pc = "open" => rcv'[c].pend = "none"
        /\ rcv'[c].hist = rcv[c].hist
    <3>1. CASE OfferPlanned(c)
      BY <3>1 DEF OfferPlanned, GotOffer, TypeOK, RecvRec
    <3>2. CASE Accepted(c)
      BY <3>2 DEF Accepted, TypeOK, RecvRec
    <3> QED
      BY <1>2, <3>1, <3>2
  <2> QED
    BY <2>1, <2>2, PlanKeepsOne
<1>3. CASE RecvChunk(c) \/ RecvComplete(c) \/ PollDropsChunk(c)
  <2>1. /\ rcv[c].pc = "recv" /\ rcv'[c].pc \in {"recv", "hash"}
        /\ rcv'[c].pend = rcv[c].pend /\ rcv'[c].hist = rcv[c].hist
        /\ rcv'[c].handle = rcv[c].handle /\ rcv'[c].path = rcv[c].path
        /\ partial' = partial /\ final' = final
    BY <1>3 DEF RecvChunk, RecvComplete, PollDropsChunk, Receiving, dirVars, TypeOK, RecvRec
  <2>2. \A i \in Inodes : i # rcv[c].handle => data'[i] = data[i]
    BY <1>3 DEF RecvChunk, RecvComplete, PollDropsChunk, dirVars, TypeOK
  <2> QED
    BY <1>3, <2>1, <2>2, WriteKeepsOne DEF ReceiverStep
<1>4. CASE RecvPause(c) \/ RecvSeesCancel(c) \/ RecvBroken(c) \/ HashDiffers(c) \/ HashFails(c)
  <2>1. PICK kind : RecvError(c, kind)
    BY <1>4 DEF RecvPause, RecvSeesCancel, RecvBroken, HashDiffers, HashFails
  <2>2. /\ data' = data /\ final' = final
        /\ \A p \in Paths : partial'[p] \in {partial[p], NoFile}
    BY <2>1 DEF RecvError, CleanUp, TypeOK
  <2> QED
    BY <2>1, <2>2, RecvEndsWith, EndKeepsOne DEF RecvError
<1> QED
  BY <1>1, <1>2, <1>3, <1>4, OpenKeepsOne, HashKeepsOne, FinalizeKeepsOne DEF ReceiverStep

\* What one attempt at a time gives: a receive owns its partial file, no file has
\* two names, and what was verified is what will be renamed.
THEOREM OneAttemptAtATime ==
    ASSUME ~Overlap
    PROVE  Spec => []OneAttempt
<1>1. Init => OneAttempt
  BY InitOneAttempt, DirectoryOK, ConstantsOK
<1>2. TypeOK /\ OneAttempt /\ [Next]_vars => OneAttempt'
  <2> SUFFICES ASSUME TypeOK, OneAttempt, [Next]_vars PROVE OneAttempt'
    OBVIOUS
  <2>1. CASE UNCHANGED vars \/ EditSource
    <3>1. UNCHANGED <<snd, rcv, toR, data, partial, final>>
      BY <2>1 DEF vars, EditSource, dirVars
    <3> QED
      BY <3>1 DEF OneAttempt, Alone, Quiet, Unstarted, Offered, Asked, Unended, HoldsPartial,
                  Writing, Fresh, OneName, Verified, AboutToSave
  <2>2. ASSUME NEW c \in Conns, UserStep(c) \/ SenderStep(c) \/ ReceiverStep(c) \/ Lose(c)
        PROVE  OneAttempt'
    BY <2>2, StartKeepsOne, OutsideKeepsOne, SenderKeepsOne, ReceiverKeepsOne
       DEF UserStep, OutsideStep
  <2> QED
    BY <2>1, <2>2 DEF Next
<1> QED
  BY <1>1, <1>2, TypeCorrect, PTL DEF Spec

-----------------------------------------------------------------------------
(* Plain names: the user takes the planned name or the plain one.          *)

\* No file that has its final name changes, in any step.
FilesStay == \A p \in Paths : ~Free(p) => final'[p] = final[p] /\ data'[final[p]] = data[final[p]]

\* A content that is saved stays saved while the final files stay.
LEMMA SavedStays ==
    ASSUME TypeOK, NEW f, FilesStay, Saved(f)
    PROVE  Saved(f)'
BY DEF FilesStay, Saved, Free, TypeOK

\* At first there is a whole file under the plain name or nothing.
LEMMA InitPlainNames == DirectoryOK /\ ConstantsOK /\ Init => PlainNames
<1> SUFFICES ASSUME DirectoryOK, ConstantsOK, Init PROVE PlainNames
  OBVIOUS
<1>1. \A c \in Conns : rcv[c].pc = "idle" /\ rcv[c].hist = "none"
  BY DEF Init, NewRecv
<1>2. PathFree /\ RecordedKept
  BY <1>1 DEF PathFree, RecordedKept, Writing
<1>3. NothingPartial
  BY DEF NothingPartial, Init, InitDirectory
<1>4. FinalWhole
  <2>1. PICK old \in Contents, there \in {Old, NoFile} :
            /\ data = [i \in Inodes |-> IF i = there THEN old ELSE <<>>]
            /\ final = [p \in Paths |-> IF p = 1 THEN there ELSE NoFile]
    BY DEF Init, InitDirectory
  <2>2. Old \in Inodes
    BY DEF Old, Inodes, ConstantsOK
  <2> QED
    BY <2>1, <2>2 DEF FinalWhole, Free
<1> QED
  BY <1>2, <1>3, <1>4 DEF PlainNames

\* The plan of an offer, and the name settled after the user's answer, are free.
LEMMA PlannedIsFree ==
    ASSUME DirectoryOK, TypeOK, OneAttempt, PlainNames, NEW c \in Conns,
           OfferPlanned(c) \/ Accepted(c)
    PROVE  /\ rcv'[c].path \in Paths /\ Free(rcv'[c].path)
           /\ OfferPlanned(c) => ~Duplicate(snd[c].file)
           /\ rcv[c].pc \in {"idle", "confirm"} /\ rcv'[c].pc \in {"confirm", "open"}
           /\ Accepted(c) => rcv'[c].pc = "open"
           /\ rcv'[c].hist = rcv[c].hist
<1>1. CASE OfferPlanned(c)
  <2>1. 1 \in Paths /\ FreeFrom(1) # {} /\ rcv'[c].path = ResolveSavePath(1)
    BY <1>1 DEF OfferPlanned, TypeOK, RecvRec, DirectoryOK, Paths
  <2> QED
    BY <1>1, <2>1, SavePathIsFree DEF OfferPlanned, GotOffer, TypeOK, RecvRec, Accepted
<1>2. CASE Accepted(c)
  <2> DEFINE p == rcv[c].path
  <2>1. /\ p \in Paths /\ FreeFrom(p) # {} /\ rcv'[c].path = ResolveConflict(p, snd[c].file)
        /\ rcv[c].pc = "confirm" /\ rcv'[c].pc = "open" /\ rcv'[c].hist = rcv[c].hist
    BY <1>2 DEF Accepted, TypeOK, RecvRec
  <2>2. ~Duplicate(snd[c].file) /\ (p = 1 \/ Free(p))
    BY <2>1 DEF PlainNames, PathFree
  <2>3. Free(p) \/ ResolveConflict(p, snd[c].file) = ResolveSavePath(p)
    BY <2>1, <2>2 DEF ResolveConflict, Duplicate, PlainNames, NothingPartial
  <2>4. Free(p) => ResolveConflict(p, snd[c].file) = p
    BY DEF ResolveConflict
  <2>5. ResolveSavePath(p) \in Paths /\ Free(ResolveSavePath(p))
    BY <2>1, SavePathIsFree
  <2>6. rcv'[c].path \in Paths /\ Free(rcv'[c].path)
    BY <2>1, <2>3, <2>4, <2>5
  <2> QED
    BY <2>1, <2>6 DEF OfferPlanned, GotOffer
<1> QED
  BY <1>1, <1>2

\* What a step of a receiver does to the files that have their final name.
LEMMA ReceiverFilesStay ==
    ASSUME TypeOK, OneAttempt, PlainNames, NEW c \in Conns, ReceiverStep(c)
    PROVE  FilesStay
<1>1. CASE RecvChunk(c)
  <2>1. rcv[c].pc = "recv" /\ final' = final
    BY <1>1 DEF RecvChunk, Receiving
  <2>2. /\ rcv[c].handle # NoFile /\ partial[rcv[c].path] = rcv[c].handle
        /\ rcv[c].path \in Paths
    BY <2>1 DEF OneAttempt, HoldsPartial, Writing, TypeOK, RecvRec
  <2>3. \A q \in Paths : final[q] # rcv[c].handle
    BY <2>2 DEF OneAttempt, OneName
  <2>4. \A i \in Inodes : i # rcv[c].handle => data'[i] = data[i]
    BY <1>1 DEF RecvChunk, TypeOK
  <2> QED
    BY <2>1, <2>3, <2>4 DEF FilesStay, Free, TypeOK
<1>2. CASE Finalize(c) \/ FinalizeFails(c)
  <2>1. rcv[c].pc = "rename" /\ rcv[c].path \in Paths
    BY <1>2 DEF Finalize, FinalizeFails, TypeOK, RecvRec
  <2>2. Free(rcv[c].path)
    BY <2>1 DEF PlainNames, PathFree, Writing
  <2>3. \A p \in Paths : p # rcv[c].path => final'[p] = final[p]
    BY <1>2 DEF Finalize, FinalizeFails, FinalizeFile, FinalizeLost, TypeOK
  <2> QED
    BY <1>2, <2>2, <2>3 DEF FilesStay, Finalize, FinalizeFails
<1>3. CASE ~RecvChunk(c) /\ ~Finalize(c) /\ ~FinalizeFails(c)
  <2>1. CASE OfferFiltered(c) \/ OfferDuplicate(c) \/ OfferPlanned(c) \/ OfferLost(c)
               \/ Accepted(c) \/ Refused(c) \/ OpenPartial(c)
    BY <2>1 DEF OfferFiltered, OfferDuplicate, OfferPlanned, OfferLost, Accepted, Refused,
                OpenPartial, dirVars, FilesStay
  <2>2. CASE RecvComplete(c) \/ PollDropsChunk(c) \/ RecvPause(c) \/ RecvSeesCancel(c)
               \/ RecvBroken(c) \/ HashOK(c) \/ HashDiffers(c) \/ HashFails(c)
    BY <2>2 DEF RecvComplete, PollDropsChunk, RecvPause, RecvSeesCancel, RecvBroken, HashOK,
                HashDiffers, HashFails, RecvError, dirVars, FilesStay
  <2> QED
    BY <1>3, <2>1, <2>2 DEF ReceiverStep
<1> QED
  BY <1>1, <1>2, <1>3

\* Every step of an attempt leaves the files alone that have their final name.
LEMMA StepFilesStay ==
    ASSUME TypeOK, OneAttempt, PlainNames, [Next]_vars
    PROVE  FilesStay
<1>1. ASSUME NEW c \in Conns, UserStep(c) \/ SenderStep(c) \/ Lose(c) PROVE UNCHANGED dirVars
  BY <1>1, SenderFrame, OutsideFrame DEF UserStep, OutsideStep, StartSend, OneAttempt
<1>2. CASE UNCHANGED dirVars
  BY <1>2 DEF FilesStay, dirVars
<1> QED
  BY <1>1, <1>2, ReceiverFilesStay DEF Next, EditSource, vars, dirVars

\* No new file and no new record: nothing the user was promised about.
LEMMA HiddenStep ==
    ASSUME TypeOK, FilesStay, final' = final,
           \A d \in Conns : /\ (rcv'[d].hist = "Completed") = (rcv[d].hist = "Completed")
                            /\ rcv[d].hist = "Completed" => snd'[d].file = snd[d].file
    PROVE  Shelf' = Shelf /\ Received' = Received
<1>1. Shelf' = Shelf
  BY DEF FilesStay, Shelf, Free
<1>2. Received' = Received
  BY DEF Received
<1> QED
  BY <1>1, <1>2

\* The steps that touch neither the directory nor a receiving coroutine.
LEMMA StillPlain ==
    ASSUME TypeOK, OneAttempt, PlainNames, UNCHANGED dirVars,
           \A d \in Conns :
              /\ rcv'[d].pc = rcv[d].pc /\ rcv'[d].hist = rcv[d].hist
              /\ rcv[d].pc # "idle" => snd'[d].file = snd[d].file
              /\ rcv'[d].path = rcv[d].path \/ (rcv[d].pc = "confirm" /\ rcv'[d].path = 1)
    PROVE  PlainNames' /\ Shelf' = Shelf /\ Received' = Received
<1>1. PathFree'
  BY DEF PlainNames, PathFree, Writing, Duplicate, Free, dirVars
<1>2. NothingPartial' /\ FinalWhole'
  BY DEF PlainNames, NothingPartial, FinalWhole, Free, dirVars
<1>3. FilesStay /\ final' = final
  BY DEF FilesStay, dirVars
<1>4. \A d \in Conns : rcv[d].hist = "Completed" => rcv[d].pc # "idle"
  BY DEF OneAttempt, Unended
<1>5. RecordedKept'
  BY <1>3, <1>4, SavedStays DEF PlainNames, RecordedKept, Saved, Free, dirVars
<1>6. Shelf' = Shelf /\ Received' = Received
  BY <1>3, <1>4, HiddenStep
<1> QED
  BY <1>1, <1>2, <1>5, <1>6 DEF PlainNames

\* Users, network and senders change nothing of what was promised.
LEMMA OutsideKeepsPlain ==
    ASSUME UserPaths \subseteq {1}, TypeOK, OneAttempt, PlainNames, NEW c \in Conns,
           OutsideStep(c) \/ SenderStep(c) \/ StartSend(c)
    PROVE  PlainNames' /\ Shelf' = Shelf /\ Received' = Received
<1>1. \A d \in Conns : d # c => snd'[d] = snd[d] /\ rcv'[d] = rcv[d]
  BY OthersUnseen DEF OutsideStep, UserStep
<1>2. CASE OutsideStep(c)
  BY <1>1, <1>2, OutsideFrame, StillPlain DEF OneAttempt
<1>3. CASE SenderStep(c)
  BY <1>1, <1>3, SenderFrame, StillPlain
<1>4. CASE StartSend(c)
  BY <1>1, <1>4, StillPlain DEF StartSend, MayStart, OneAttempt, Unstarted
<1> QED
  BY <1>2, <1>3, <1>4

\* The steps of a receiver that bring no file under its final name: what is left
\* to show of each is that its path stays free, that no partial file stands beside
\* a final one, and that a record of success was earned.
LEMMA HiddenKeepsPlain ==
    ASSUME TypeOK, OneAttempt, PlainNames, NEW c \in Conns, ReceiverStep(c), final' = final,
           rcv'[c].pc = "confirm" => ~Duplicate(snd[c].file)' /\ Free(rcv'[c].path),
           rcv'[c].pc = "open" \/ Writing(c)' => Free(rcv'[c].path),
           \A p \in Paths : partial'[p] # NoFile => partial[p] # NoFile \/ Free(p),
           rcv'[c].hist = "Completed" => Saved(snd[c].file)
    PROVE  PlainNames'
<1>1. /\ \A d \in Conns : d # c => rcv[d].pc \in {"idle", "done"} /\ rcv'[d] = rcv[d]
      /\ snd' = snd /\ FilesStay
  BY ReceiverKeepsAlone, ReceiverFilesStay
<1>2. PathFree'
  <2>1. \A d \in Conns : d # c =>
            /\ rcv'[d].pc # "confirm" /\ rcv'[d].pc # "open" /\ ~Writing(d)'
    BY <1>1 DEF Writing
  <2>2. Free(rcv'[c].path) => final'[rcv'[c].path] = NoFile
    BY DEF Free
  <2> QED
    BY <2>1, <2>2 DEF PathFree, Free
<1>3. NothingPartial'
  BY DEF PlainNames, NothingPartial, Free
<1>4. FinalWhole'
  BY <1>1 DEF PlainNames, FinalWhole, FilesStay, Free
<1>5. RecordedKept'
  BY <1>1, SavedStays DEF PlainNames, RecordedKept, Saved, Free, FilesStay
<1> QED
  BY <1>2, <1>3, <1>4, <1>5 DEF PlainNames

\* A receive that ends without success.
LEMMA FailKeepsPlain ==
    ASSUME TypeOK, OneAttempt, PlainNames, NEW c \in Conns, ReceiverStep(c), final' = final,
           rcv'[c].pc = "done", rcv'[c].hist # "Completed",
           \A p \in Paths : partial'[p] \in {partial[p], NoFile}
    PROVE  PlainNames' /\ Shelf' = Shelf /\ Received' = Received
<1>1. /\ \A d \in Conns : d # c => rcv'[d] = rcv[d]
      /\ snd' = snd /\ rcv[c].pc # "done" /\ FilesStay
  BY ReceiverKeepsAlone, ReceiverFilesStay
<1>2. PlainNames'
  BY HiddenKeepsPlain DEF Writing
<1>3. rcv[c].hist # "Completed"
  BY <1>1 DEF OneAttempt, Unended
<1> QED
  BY <1>1, <1>2, <1>3, HiddenStep

\* The file is there already: recorded as received, under the plain name.
LEMMA DuplicateIsRecorded ==
    ASSUME DirectoryOK, TypeOK, OneAttempt, PlainNames, NEW c \in Conns, OfferDuplicate(c)
    PROVE  PlainNames' /\ Delivery!Next
<1>1. /\ \A d \in Conns : d # c => rcv'[d] = rcv[d]
      /\ snd' = snd /\ rcv[c].pc # "done" /\ snd[c].pc # "idle" /\ FilesStay
  BY ReceiverKeepsAlone, ReceiverFilesStay DEF ReceiverStep
<1>2. /\ rcv'[c].pc = "done" /\ rcv'[c].hist = "Completed" /\ UNCHANGED dirVars
      /\ 1 \in Paths /\ ~Free(1) /\ data[final[1]] = snd[c].file
  BY RecvEndsWith DEF OfferDuplicate, Duplicate, DirectoryOK, Paths
<1>3. Saved(snd[c].file) /\ snd[c].file \in Contents
  BY <1>1, <1>2 DEF Saved, OneAttempt, Offered
<1>4. PlainNames'
  BY <1>2, <1>3, HiddenKeepsPlain DEF ReceiverStep, Writing, dirVars
<1>5. Shelf[1] = snd[c].file /\ Shelf' = Shelf
  BY <1>2 DEF Shelf, Free, dirVars
<1>6. Received' = Received \union {snd[c].file}
  BY <1>1, <1>2 DEF Received
<1>7. Delivery!Record(snd[c].file)
  BY <1>2, <1>5, <1>6 DEF Delivery!Record
<1> QED
  BY <1>3, <1>4, <1>7 DEF Delivery!Next

\* The rename brings the offered content under a free name.
LEMMA FinalizeDelivers ==
    ASSUME TypeOK, OneAttempt, PlainNames, NEW c \in Conns, Finalize(c)
    PROVE  PlainNames' /\ Delivery!Next
<1> DEFINE path == rcv[c].path
           f == snd[c].file
<1>1. /\ \A d \in Conns : d # c => rcv[d].pc \in {"idle", "done"} /\ rcv'[d] = rcv[d]
      /\ snd' = snd /\ rcv[c].pc # "done" /\ snd[c].pc # "idle" /\ FilesStay
  BY ReceiverKeepsAlone, ReceiverFilesStay DEF ReceiverStep
<1>2. /\ rcv[c].pc = "rename" /\ path \in Paths /\ partial[path] # NoFile
      /\ final' = [final EXCEPT ![path] = partial[path]]
      /\ partial' = [partial EXCEPT ![path] = NoFile]
      /\ data' = data /\ rcv'[c].pc = "done" /\ rcv'[c].hist \in {"none", "Completed"}
  BY RecvEndsWith DEF Finalize, FinalizeFile, Recorded, TypeOK, RecvRec
<1>3. /\ Free(path) /\ data[partial[path]] = f /\ f \in Contents
      /\ rcv[c].hist = "none"
  BY <1>1, <1>2 DEF PlainNames, PathFree, Writing, OneAttempt, Verified, AboutToSave, Offered,
                    Unended
<1>4. PathFree'
  BY <1>1, <1>2 DEF PathFree, Writing
<1>5. NothingPartial'
  BY <1>2 DEF PlainNames, NothingPartial, Free, TypeOK
<1>6. FinalWhole'
  BY <1>2, <1>3 DEF PlainNames, FinalWhole, Free, TypeOK
<1>7. Saved(f)'
  BY <1>1, <1>2, <1>3 DEF Saved, Free, TypeOK
<1>8. RecordedKept'
  <2> SUFFICES ASSUME NEW d \in Conns, rcv'[d].hist = "Completed" PROVE Saved(snd[d].file)'
    BY DEF RecordedKept
  <2>1. CASE d = c
    BY <1>1, <1>7, <2>1
  <2>2. CASE d # c
    <3>1. Saved(snd[d].file)
      BY <1>1, <2>2 DEF PlainNames, RecordedKept
    <3> QED
      BY <1>1, <3>1 DEF FilesStay, Saved, Free, TypeOK
  <2> QED
    BY <2>1, <2>2
<1>9. Shelf[path] = <<Hole>> /\ Shelf' = [Shelf EXCEPT ![path] = f]
  <2>1. Shelf[path] = <<Hole>>
    BY <1>2, <1>3 DEF Shelf
  <2>2. \A p \in Paths : Shelf'[p] = IF p = path THEN f ELSE Shelf[p]
    BY <1>2, <1>3 DEF Shelf, Free, TypeOK, NoFile
  <2> QED
    BY <2>1, <2>2 DEF Shelf
<1>10. Received' \in {Received, Received \union {f}}
  <2>1. CASE rcv'[c].hist = "none"
    BY <1>1, <1>3, <2>1 DEF Received
  <2>2. CASE rcv'[c].hist = "Completed"
    BY <1>1, <2>2 DEF Received
  <2> QED
    BY <1>2, <2>1, <2>2
<1>11. Delivery!Deliver(path, f)
  BY <1>9, <1>10 DEF Delivery!Deliver
<1> QED
  BY <1>2, <1>3, <1>4, <1>5, <1>6, <1>8, <1>11 DEF PlainNames, Delivery!Next

\* Each step of a receiver delivers, records, or changes nothing of it.
LEMMA ReceiverKeepsPlain ==
    ASSUME DirectoryOK, TypeOK, OneAttempt, PlainNames, NEW c \in Conns, ReceiverStep(c)
    PROVE  PlainNames' /\ ((Shelf' = Shelf /\ Received' = Received) \/ Delivery!Next)
<1>0. /\ \A d \in Conns : d # c => rcv[d].pc \in {"idle", "done"} /\ rcv'[d] = rcv[d]
      /\ snd' = snd /\ rcv[c].pc # "done" /\ rcv[c].hist # "Completed" /\ FilesStay
  BY ReceiverKeepsAlone, ReceiverFilesStay DEF OneAttempt, Unended
<1>1. CASE OfferFiltered(c) \/ OfferLost(c) \/ Refused(c)
  BY <1>1, RecvEndsWith, FailKeepsPlain DEF OfferFiltered, OfferLost, Refused, dirVars
<1>2. CASE RecvPause(c) \/ RecvSeesCancel(c) \/ RecvBroken(c) \/ HashDiffers(c) \/ HashFails(c)
  <2>1. PICK kind : RecvError(c, kind)
    BY <1>2 DEF RecvPause, RecvSeesCancel, RecvBroken, HashDiffers, HashFails
  <2>2. /\ final' = final /\ \A p \in Paths : partial'[p] \in {partial[p], NoFile}
    BY <2>1 DEF RecvError, CleanUp, TypeOK
  <2>3. rcv'[c].pc = "done" /\ rcv'[c].hist # "Completed"
    BY <2>1, RecvEndsWith DEF RecvError, Recorded, ErrorRecord, ErrorStatus
  <2> QED
    BY <2>2, <2>3, FailKeepsPlain
<1>3. CASE FinalizeFails(c)
  <2>1. rcv[c].pc = "rename" /\ rcv[c].path \in Paths
    BY <1>3 DEF FinalizeFails, TypeOK, RecvRec
  <2>2. Free(rcv[c].path)
    BY <2>1 DEF PlainNames, PathFree, Writing
  <2>3. final' = final /\ partial' = partial
    BY <1>3, <2>1, <2>2 DEF FinalizeFails, FinalizeLost, Free, TypeOK
  <2>4. rcv'[c].pc = "done" /\ rcv'[c].hist # "Completed"
    BY <1>3, RecvEndsWith DEF FinalizeFails, Recorded
  <2> QED
    BY <2>3, <2>4, FailKeepsPlain
<1>4. CASE OfferPlanned(c) \/ Accepted(c)
  <2>1. /\ rcv'[c].path \in Paths /\ Free(rcv'[c].path)
        /\ OfferPlanned(c) => ~Duplicate(snd[c].file)
        /\ rcv'[c].pc \in {"confirm", "open"}
        /\ Accepted(c) => rcv'[c].pc = "open"
        /\ rcv'[c].hist = rcv[c].hist
    BY <1>4, PlannedIsFree
  <2>2. /\ data' = data /\ final' = final
        /\ \A p \in Paths : partial'[p] \in {partial[p], NoFile}
        /\ \A p \in Paths : p # rcv'[c].path => partial'[p] = partial[p]
    BY <1>4 DEF OfferPlanned, Accepted, AfterValidate, TypeOK, RecvRec
  <2>3. rcv'[c].pc = "confirm" => ~Duplicate(snd[c].file)'
    BY <1>0, <1>4, <2>1, <2>2 DEF Duplicate, Free, DirectoryOK, Paths
  <2>4. PlainNames'
    BY <1>0, <2>1, <2>2, <2>3, HiddenKeepsPlain
  <2> QED
    BY <1>0, <2>1, <2>2, <2>4, HiddenStep
<1>5. CASE OpenPartial(c)
  <2>1. /\ rcv[c].pc = "open" /\ rcv'[c].path = rcv[c].path /\ rcv'[c].pc = "recv"
        /\ rcv'[c].hist = rcv[c].hist /\ final' = final
        /\ \A p \in Paths : p # rcv[c].path => partial'[p] = partial[p]
    BY <1>5 DEF OpenPartial, TypeOK, RecvRec
  <2>2. Free(rcv[c].path)
    BY <2>1 DEF PlainNames, PathFree
  <2>3. PlainNames'
    BY <1>0, <2>1, <2>2, HiddenKeepsPlain
  <2> QED
    BY <1>0, <2>1, <2>3, HiddenStep
<1>6. CASE RecvChunk(c) \/ RecvComplete(c) \/ PollDropsChunk(c) \/ HashOK(c)
  <2>1. /\ rcv[c].pc \in {"recv", "hash"} /\ rcv'[c].pc \in {"recv", "hash", "rename"}
        /\ rcv'[c].path = rcv[c].path /\ rcv'[c].hist = rcv[c].hist
        /\ final' = final /\ partial' = partial
    <3>1. CASE RecvChunk(c)
      BY <3>1 DEF RecvChunk, Receiving, TypeOK, RecvRec
    <3>2. CASE RecvComplete(c) \/ PollDropsChunk(c)
      BY <3>2 DEF RecvComplete, PollDropsChunk, Receiving, TypeOK, RecvRec, dirVars
    <3>3. CASE HashOK(c)
      BY <3>3 DEF HashOK, TypeOK, RecvRec, dirVars
    <3> QED
      BY <1>6, <3>1, <3>2, <3>3
  <2>2. Free(rcv[c].path)
    BY <2>1 DEF PlainNames, PathFree, Writing
  <2>3. PlainNames'
    BY <1>0, <2>1, <2>2, HiddenKeepsPlain
  <2> QED
    BY <1>0, <2>1, <2>3, HiddenStep
<1> QED
  BY <1>1, <1>2, <1>3, <1>4, <1>5, <1>6, DuplicateIsRecorded, FinalizeDelivers DEF ReceiverStep

\* With plain names, every step of the channel delivers, records or is hidden.
LEMMA NextKeepsPlain ==
    ASSUME UserPaths \subseteq {1}, TypeOK, OneAttempt, PlainNames, [Next]_vars
    PROVE  PlainNames' /\ [Delivery!Next]_<<Shelf, Received>>
<1>1. CASE UNCHANGED vars \/ EditSource
  <2>1. UNCHANGED <<snd, rcv, data, partial, final>>
    BY <1>1 DEF vars, EditSource, dirVars
  <2> QED
    BY <2>1, StillPlain DEF dirVars
<1>2. ASSUME NEW c \in Conns, UserStep(c) \/ SenderStep(c) \/ ReceiverStep(c) \/ Lose(c)
      PROVE  PlainNames' /\ [Delivery!Next]_<<Shelf, Received>>
  BY <1>2, OutsideKeepsPlain, ReceiverKeepsPlain, DirectoryOK DEF UserStep, OutsideStep
<1> QED
  BY <1>1, <1>2 DEF Next

\* The invariant of the plain names.
LEMMA PlainNamesHold ==
    ASSUME ~Overlap, UserPaths \subseteq {1}
    PROVE  Spec => []PlainNames
<1>1. Init => PlainNames
  BY InitPlainNames, DirectoryOK, ConstantsOK
<1>2. TypeOK /\ OneAttempt /\ PlainNames /\ [Next]_vars => PlainNames'
  BY NextKeepsPlain
<1> QED
  BY <1>1, <1>2, TypeCorrect, OneAttemptAtATime, PTL DEF Spec

\* The QUIC channel keeps the promise of FileDelivery: as long as a name is sent
\* in one attempt at a time and the user takes the offered name or the plain one,
\* a receive brings a whole file under a free name or nothing, and records a
\* success only when the offered content is there - with any losses, refusals,
\* cancellations, edits of the source and failures of the disk.
THEOREM ReceivesAreDelivered ==
    ASSUME ~Overlap, UserPaths \subseteq {1}
    PROVE  Spec => Delivers
<1>1. Init => Delivery!Init
  <2> SUFFICES ASSUME Init PROVE Delivery!Init
    OBVIOUS
  <2>1. \A c \in Conns : rcv[c].hist = "none"
    BY DEF Init, NewRecv
  <2>2. PlainNames
    BY InitPlainNames, DirectoryOK, ConstantsOK
  <2>3. Shelf \in [Paths -> Contents \union {<<Hole>>}]
    BY <2>2 DEF PlainNames, FinalWhole, Shelf
  <2>4. Received = {}
    BY <2>1 DEF Received
  <2> QED
    BY <2>3, <2>4 DEF Delivery!Init
<1>2. TypeOK /\ OneAttempt /\ PlainNames /\ [Next]_vars => [Delivery!Next]_<<Shelf, Received>>
  BY NextKeepsPlain
<1>3. [Delivery!Next]_<<Shelf, Received>> => [Delivery!Next]_(Delivery!deliveryVars)
  BY DEF Delivery!deliveryVars
<1> QED
  BY <1>1, <1>2, <1>3, TypeCorrect, OneAttemptAtATime, PlainNamesHold, PTL
     DEF Spec, Delivers, Delivery!Spec

\* The same conditions keep what was received: a content that the history records as
\* received stands under some name from then on, whatever attempts come after it and
\* however they end, and under every name there is a whole content or nothing
\* (finish_receive, resolve_save_path, finalize).  The promise of FileDelivery is
\* enough for it: a file is recorded when it is there, and only free names are filled.
THEOREM ReceivedFilesStay ==
    ASSUME ~Overlap, UserPaths \subseteq {1}
    PROVE  Spec => [](Delivery!Whole /\ Delivery!Kept)
<1> DEFINE Promised == Delivery!Whole /\ Delivery!Kept
<1>1. Delivery!Init => Promised
  BY DEF Delivery!Init, Delivery!Whole, Delivery!Kept
<1>2. Promised /\ [Delivery!Next]_(Delivery!deliveryVars) => Promised'
  <2> SUFFICES ASSUME Promised, [Delivery!Next]_(Delivery!deliveryVars) PROVE Promised'
    OBVIOUS
  <2>1. <<Hole>> \notin Contents
    <3>1. Len(<<Hole>>) = 1 /\ <<Hole>>[1] = Hole
      OBVIOUS
    <3>2. ASSUME <<Hole>> \in Seq(Blocks) PROVE Hole \in Blocks
      BY <3>1, <3>2, ElementOfSeq
    <3> QED
      BY <3>2, DirectoryOK
  <2>2. Delivery!Whole'
    BY DEF Delivery!Whole, Delivery!Next, Delivery!Deliver, Delivery!Record, Delivery!deliveryVars
  <2>3. ASSUME NEW f \in Contents, Delivery!Record(f) PROVE Delivery!Kept'
    BY <2>3 DEF Delivery!Record, Delivery!Kept
  <2>4. ASSUME NEW f \in Contents, NEW n \in Paths, Delivery!Deliver(n, f) PROVE Delivery!Kept'
    <3> SUFFICES ASSUME NEW g \in Received' PROVE \E m \in Paths : Shelf'[m] = g
      BY DEF Delivery!Kept
    <3>1. Shelf'[n] = f
      BY <2>4 DEF Delivery!Deliver, Delivery!Whole
    <3>2. CASE g \in Received
      <4>1. PICK m \in Paths : Shelf[m] = g
        BY <3>2 DEF Delivery!Kept
      <4>2. m # n
        BY <2>1, <2>4, <3>2, <4>1 DEF Delivery!Deliver, Delivery!Whole
      <4> QED
        BY <2>4, <4>1, <4>2 DEF Delivery!Deliver, Delivery!Whole
    <3> QED
      BY <2>4, <3>1, <3>2 DEF Delivery!Deliver
  <2>5. ASSUME UNCHANGED Delivery!deliveryVars PROVE Delivery!Kept'
    BY <2>5 DEF Delivery!deliveryVars, Delivery!Kept
  <2>6. Delivery!Kept'
    BY <2>3, <2>4, <2>5 DEF Delivery!Next
  <2> QED
    BY <2>2, <2>6
<1> HIDE DEF Promised
<1>3. Delivery!Spec => []Promised
  BY <1>1, <1>2, PTL DEF Delivery!Spec
<1>4. Spec => Delivery!Spec
  BY ReceivesAreDelivered DEF Delivers
<1> QED
  BY <1>3, <1>4, PTL DEF Promised

\* Under the same conditions no file in the save directory is ever overwritten or
\* removed by a receive.  Two attempts at once break it: the run of QuicOverlap.cfg.
THEOREM FilesAreKept ==
    ASSUME ~Overlap, UserPaths \subseteq {1}
    PROVE  Spec => NoOverwrite
<1>1. TypeOK /\ OneAttempt /\ PlainNames /\ [Next]_vars
        => [\A p \in Paths : ~Free(p) =>
               final'[p] # NoFile /\ data'[final'[p]] = data[final[p]]]_dirVars
  BY StepFilesStay DEF FilesStay, Free
<1> QED
  BY <1>1, TypeCorrect, OneAttemptAtATime, PlainNamesHold, PTL DEF Spec, NoOverwrite

-----------------------------------------------------------------------------
(* A send that is shown as completed was delivered.                        *)

\* At first no sender is sure of anything.
LEMMA InitConfirmed == Init => Confirmed
<1> SUFFICES ASSUME Init PROVE Confirmed
  OBVIOUS
<1>1. \A c \in Conns : /\ Len(toS[c]) = 0 /\ snd[c].res = "none"
                       /\ snd[c].task = "none" /\ snd[c].hist = "none"
  BY DEF Init, NewSend
<1> QED
  BY <1>1 DEF Confirmed, Sure

\* A sender's own steps make it no surer than a Verify on its way did.
LEMMA SenderGetsSure ==
    ASSUME TypeOK, NEW c \in Conns, SenderStep(c), Sure(c)' PROVE Sure(c)
<1>0. toS[c] \in Seq(ToSender)
  BY DEF TypeOK
<1>1. ASSUME toS[c] # <<>>, toS' = Taken(toS, c),
             NEW k \in 1..Len(toS'[c]), toS'[c][k] = VerifiedMsg
      PROVE  Sure(c)
  <2>1. toS'[c] = Tail(toS[c])
    BY <1>1 DEF Taken, TypeOK
  <2>2. Len(toS[c]) \in Nat /\ Len(toS'[c]) = Len(toS[c]) - 1 /\ toS'[c][k] = toS[c][k + 1]
    BY <1>0, <1>1, <2>1
  <2>3. k + 1 \in 1..Len(toS[c]) /\ toS[c][k + 1] = VerifiedMsg
    BY <1>1, <2>2
  <2> QED
    BY <2>3 DEF Sure
<1>2. CASE RecvAccept(c)
  <2>1. /\ snd'[c].res = snd[c].res /\ snd'[c].task = snd[c].task /\ snd'[c].hist = snd[c].hist
        /\ toS[c] # <<>> /\ toS' = Taken(toS, c)
    BY <1>2 DEF RecvAccept, SenderGets, TypeOK, SendRec
  <2> QED
    BY <1>1, <2>1 DEF Sure
<1>3. CASE RecvStop(c)
  <2>1. /\ snd'[c].res # "ok" /\ snd'[c].task = snd[c].task /\ snd'[c].hist = snd[c].hist
        /\ toS[c] # <<>> /\ toS' = Taken(toS, c)
    BY <1>3 DEF RecvStop, Returned, SenderGets, TypeOK, SendRec
  <2> QED
    BY <1>1, <2>1 DEF Sure
<1>4. CASE RecvVerify(c)
  <2>1. /\ snd'[c].task = snd[c].task /\ snd'[c].hist = snd[c].hist
        /\ toS[c] # <<>> /\ toS' = Taken(toS, c) /\ Head(toS[c]).type = "Verify"
        /\ snd'[c].res = IF Head(toS[c]).ok THEN "ok" ELSE "fail"
    BY <1>4 DEF RecvVerify, Returned, SenderGets, TypeOK, SendRec
  <2>2. CASE snd'[c].res = "ok"
    <3>1. Head(toS[c]) \in ToSender /\ Head(toS[c]) = toS[c][1] /\ Len(toS[c]) \in Nat \ {0}
      BY <1>0, <2>1, HeadTailProperties, LenProperties, EmptySeq
    <3>2. Head(toS[c]) = VerifiedMsg
      BY <2>1, <2>2, <3>1 DEF ToSender, VerifiedMsg, VerifyMsg
    <3> QED
      BY <3>1, <3>2 DEF Sure
  <2>3. CASE snd'[c].res # "ok"
    BY <1>1, <2>1, <2>3 DEF Sure
  <2> QED
    BY <2>2, <2>3
<1>5. CASE SeeCancel(c) \/ SendFails(c)
  <2>1. /\ snd'[c].res # "ok" /\ snd'[c].task = snd[c].task /\ snd'[c].hist = snd[c].hist
        /\ toS' = toS
    BY <1>5 DEF SeeCancel, SendFails, Returned, TypeOK, SendRec
  <2> QED
    BY <2>1 DEF Sure
<1>6. CASE SendChunk(c) \/ ChunkSent(c) \/ SendComplete(c) \/ AfterSend(c)
  <2>1. /\ snd'[c].res = snd[c].res /\ snd'[c].task = snd[c].task /\ snd'[c].hist = snd[c].hist
        /\ toS' = toS
    BY <1>6 DEF SendChunk, ChunkSent, SendComplete, AfterSend, TypeOK, SendRec
  <2> QED
    BY <2>1 DEF Sure
<1>7. CASE PauseAcked(c) \/ FinishSend(c)
  <2>1. /\ toS'[c] = <<>> /\ snd'[c].res = "none"
        /\ \/ snd'[c].task = snd[c].task /\ snd'[c].hist = "none"
           \/ snd'[c].task = "Removed" /\ snd'[c].hist = "none"
           \/ snd'[c].task = Outcome(snd[c].res) /\ snd'[c].hist = Outcome(snd[c].res)
    BY <1>7, SendEndsWith DEF PauseAcked, FinishSend
  <2>2. Outcome(snd[c].res) = "Completed" => snd[c].res = "ok"
    BY DEF Outcome
  <2> QED
    BY <2>1, <2>2 DEF Sure
<1> QED
  BY <1>2, <1>3, <1>4, <1>5, <1>6, <1>7 DEF SenderStep

\* A receiver makes its sender sure in two steps only.
LEMMA TellsOther ==
    ASSUME TypeOK, NEW c \in Conns, snd' = snd, NEW m, m # VerifiedMsg, Sure(c)',
           toS' = toS \/ TellSender(c, m)
    PROVE  Sure(c)
<1>0. toS[c] \in Seq(ToSender) /\ Len(toS[c]) \in Nat
  BY LenProperties DEF TypeOK
<1>1. CASE toS' = toS
  BY <1>1 DEF Sure
<1>2. CASE toS' = [toS EXCEPT ![c] = Append(@, m)]
  <2>1. toS'[c] = Append(toS[c], m)
    BY <1>2 DEF TypeOK
  <2>2. /\ Len(toS'[c]) = Len(toS[c]) + 1
        /\ \A k \in 1..Len(toS[c]) : toS'[c][k] = toS[c][k]
        /\ toS'[c][Len(toS[c]) + 1] = m
    BY <1>0, <2>1
  <2> QED
    BY <1>0, <2>2 DEF Sure
<1> QED
  BY <1>1, <1>2 DEF TellSender

\* What makes a sender sure: a duplicate that is there, or a verified partial file.
LEMMA ReceiverMakesSure ==
    ASSUME TypeOK, OneAttempt, NEW c \in Conns, ReceiverStep(c), Sure(c)'
    PROVE  Sure(c) \/ Duplicate(snd[c].file) \/ AboutToSave(c)'
<1>0. snd' = snd
  BY ReceiverFrame DEF OneAttempt
<1>1. CASE OfferFiltered(c) \/ OfferPlanned(c) \/ OfferLost(c) \/ Accepted(c) \/ Refused(c)
  <2>1. \A o, r : AcceptMsg(o) # VerifiedMsg /\ RejectMsg(r) # VerifiedMsg
    BY DEF AcceptMsg, RejectMsg, VerifiedMsg, VerifyMsg
  <2>2. PICK m : m # VerifiedMsg /\ (toS' = toS \/ TellSender(c, m))
    BY <1>1, <2>1 DEF OfferFiltered, OfferPlanned, OfferLost, Accepted, Refused
  <2> QED
    BY <1>0, <2>2, TellsOther
<1>2. CASE OpenPartial(c) \/ RecvChunk(c) \/ RecvComplete(c) \/ PollDropsChunk(c)
             \/ RecvBroken(c) \/ HashFails(c) \/ Finalize(c) \/ FinalizeFails(c)
  <2>1. toS' = toS
    BY <1>2 DEF OpenPartial, RecvChunk, RecvComplete, PollDropsChunk, RecvBroken, HashFails,
                Finalize, FinalizeFails
  <2> QED
    BY <1>0, <2>1 DEF Sure
<1>3. CASE RecvPause(c) \/ RecvSeesCancel(c) \/ HashDiffers(c)
  <2>1. (\A r : CancelMsg(r) # VerifiedMsg) /\ VerifyMsg(FALSE) # VerifiedMsg
    BY DEF CancelMsg, VerifiedMsg, VerifyMsg
  <2>2. PICK m : m # VerifiedMsg /\ TellSender(c, m)
    BY <1>3, <2>1 DEF RecvPause, RecvSeesCancel, HashDiffers
  <2> QED
    BY <1>0, <2>2, TellsOther
<1>4. CASE OfferDuplicate(c)
  BY <1>4 DEF OfferDuplicate
<1>5. CASE HashOK(c)
  <2>1. /\ rcv'[c].pc = "rename" /\ rcv'[c].path = rcv[c].path /\ UNCHANGED dirVars
        /\ partial[rcv[c].path] # NoFile /\ data[partial[rcv[c].path]] = snd[c].file
    BY <1>5 DEF HashOK, HashOf, TypeOK, RecvRec
  <2> QED
    BY <1>0, <2>1 DEF AboutToSave, dirVars
<1> QED
  BY <1>1, <1>2, <1>3, <1>4, <1>5 DEF ReceiverStep

\* A verified file is renamed, when the disk does not fail, and stays until then.
LEMMA AboutToSaveStays ==
    ASSUME ~DiskFails, TypeOK, OneAttempt, NEW c \in Conns, NEW d \in Conns,
           UserStep(d) \/ SenderStep(d) \/ ReceiverStep(d) \/ Lose(d), AboutToSave(c)
    PROVE  Assured(c)'
<1>0. /\ rcv[c].pc = "rename" /\ snd[c].pc # "idle" /\ rcv[c].path \in Paths
      /\ partial[rcv[c].path] # NoFile /\ data[partial[rcv[c].path]] = snd[c].file
  BY DEF AboutToSave, OneAttempt, Unstarted, TypeOK, RecvRec
<1>1. d # c => snd'[c] = snd[c] /\ rcv'[c] = rcv[c]
  BY OthersUnseen
<1>2. CASE OutsideStep(d) \/ SenderStep(d) \/ StartSend(d)
  <2>1. UNCHANGED dirVars
    BY <1>2, OutsideFrame, SenderFrame DEF StartSend, OneAttempt
  <2>2. /\ rcv'[c].pc = rcv[c].pc /\ rcv'[c].path = rcv[c].path
        /\ snd'[c].file = snd[c].file
    BY <1>0, <1>1, <1>2, OutsideFrame, SenderFrame DEF StartSend, MayStart, OneAttempt
  <2> QED
    BY <1>0, <2>1, <2>2 DEF Assured, AboutToSave, dirVars
<1>3. CASE ReceiverStep(d)
  <2>1. d = c /\ snd' = snd
    BY <1>0, <1>3, ReceiverKeepsAlone
  <2>2. Finalize(c)
    <3>1. ~FinalizeFails(c)
      BY <1>0 DEF FinalizeFails, FinalizeLost, Unreadable
    <3>2. ~OfferFiltered(c) /\ ~OfferDuplicate(c) /\ ~OfferPlanned(c) /\ ~OfferLost(c)
            /\ ~Accepted(c) /\ ~Refused(c) /\ ~OpenPartial(c)
      BY <1>0 DEF OfferFiltered, OfferDuplicate, OfferPlanned, OfferLost, Accepted, Refused,
                  OpenPartial, GotOffer
    <3>3. ~RecvChunk(c) /\ ~RecvComplete(c) /\ ~PollDropsChunk(c) /\ ~RecvPause(c)
            /\ ~RecvSeesCancel(c) /\ ~RecvBroken(c)
      BY <1>0 DEF RecvChunk, RecvComplete, PollDropsChunk, RecvPause, RecvSeesCancel,
                  RecvBroken, Receiving
    <3>4. ~HashOK(c) /\ ~HashDiffers(c) /\ ~HashFails(c)
      BY <1>0 DEF HashOK, HashDiffers, HashFails
    <3> QED
      BY <1>3, <2>1, <3>1, <3>2, <3>3, <3>4 DEF ReceiverStep
  <2>3. Saved(snd[c].file)'
    BY <1>0, <2>1, <2>2 DEF Finalize, FinalizeFile, Saved, Free, TypeOK
  <2> QED
    BY <2>3 DEF Assured
<1> QED
  BY <1>2, <1>3 DEF UserStep, OutsideStep

\* The break of a connection may take the last message with it.
LEMMA WithoutLastShorter ==
    ASSUME TypeOK, NEW c \in Conns, toS' = WithoutLast(toS, c)
    PROVE  /\ Len(toS'[c]) <= Len(toS[c])
           /\ \A k \in 1..Len(toS'[c]) : k \in 1..Len(toS[c]) /\ toS'[c][k] = toS[c][k]
<1> DEFINE s == toS[c]
           n == Len(toS[c]) - 1
<1>0. s \in Seq(ToSender) /\ Len(s) \in Nat
  BY LenProperties DEF TypeOK
<1>1. toS'[c] = SubSeq(s, 1, n)
  BY DEF WithoutLast, TypeOK
<1>2. n \in Int /\ \A i \in 1..n : s[i] \in ToSender
  BY <1>0, ElementOfSeq
<1>3. /\ Len(SubSeq(s, 1, n)) = IF 1 <= n THEN n - 1 + 1 ELSE 0
      /\ \A i \in 1..(n - 1 + 1) : SubSeq(s, 1, n)[i] = s[1 + i - 1]
  BY <1>2, SubSeqProperties
<1> QED
  BY <1>0, <1>1, <1>3

\* That nothing takes away a file that was offered and saved.
SavedFilesStay ==
    \A c \in Conns : snd[c].pc # "idle" /\ Saved(snd[c].file) => Saved(snd[c].file)'

\* A sure sender is right, step by step.
LEMMA NextKeepsConfirmed ==
    ASSUME ~DiskFails, TypeOK, OneAttempt, Confirmed, [Next]_vars, SavedFilesStay
    PROVE  Confirmed'
<1>1. CASE UNCHANGED vars \/ EditSource
  <2>1. UNCHANGED <<snd, rcv, toS, data, partial, final>>
    BY <1>1 DEF vars, EditSource, netVars, dirVars
  <2> QED
    BY <2>1 DEF Confirmed, Sure, Assured, AboutToSave, Saved, Free
<1>2. ASSUME NEW d \in Conns, UserStep(d) \/ SenderStep(d) \/ ReceiverStep(d) \/ Lose(d),
             NEW c \in Conns, Sure(c)'
      PROVE  snd'[c].pc # "idle" /\ Assured(c)'
  <2>1. CASE Sure(c)
    <3>1. Assured(c) /\ snd[c].pc # "idle"
      BY <2>1 DEF Confirmed
    <3>2. Assured(c)'
      BY <1>2, <3>1, AboutToSaveStays DEF Assured, SavedFilesStay
    <3>3. snd'[c].pc # "idle"
      <4>1. CASE c # d
        BY <1>2, <3>1, <4>1, OthersUnseen
      <4>2. CASE c = d
        BY <1>2, <3>1, <4>2, OutsideFrame, SenderFrame, ReceiverFrame
           DEF UserStep, OutsideStep, OneAttempt, StartSend, TypeOK, SendRec
      <4> QED
        BY <4>1, <4>2
    <3> QED
      BY <3>2, <3>3
  <2>2. CASE ~Sure(c)
    <3>1. c = d
      <4>1. ASSUME c # d PROVE FALSE
        <5>1. snd'[c] = snd[c] /\ toS'[c] = toS[c]
          BY <1>2, <4>1, OthersUnseen DEF SameView
        <5> QED
          BY <1>2, <2>2, <5>1 DEF Sure
      <4> QED
        BY <4>1
    <3>2. ~SenderStep(c)
      BY <1>2, <2>2, SenderGetsSure
    <3>3. ~OutsideStep(c) /\ ~StartSend(c)
      <4>1. ASSUME OutsideStep(c) \/ StartSend(c) PROVE FALSE
        <5>1. /\ snd'[c].res = snd[c].res /\ snd'[c].hist = snd[c].hist
              /\ snd'[c].task = "Completed" => snd[c].task = "Completed"
          <6>1. CASE OutsideStep(c)
            BY <6>1, OutsideFrame DEF OneAttempt
          <6>2. CASE StartSend(c)
            BY <6>2 DEF StartSend, TypeOK, SendRec
          <6> QED
            BY <4>1, <6>1, <6>2
        <5>2. \E k \in 1..Len(toS'[c]) : toS'[c][k] = VerifiedMsg
          BY <1>2, <2>2, <5>1 DEF Sure
        <5>3. toS' # toS
          BY <2>2, <5>2 DEF Sure
        <5>4. Lose(c) /\ toS' = WithoutLast(toS, c)
          BY <4>1, <5>3 DEF OutsideStep, PauseSend, CancelSend, Stop, RemoveSend, UserAccept,
                            UserReject, CancelRecv, RemoveRecv, StartSend, Lose
        <5>5. /\ Len(toS'[c]) <= Len(toS[c])
              /\ \A k \in 1..Len(toS'[c]) : k \in 1..Len(toS[c]) /\ toS'[c][k] = toS[c][k]
          BY <5>4, WithoutLastShorter
        <5> QED
          BY <2>2, <5>2, <5>5 DEF Sure
      <4> QED
        BY <4>1
    <3>4. ReceiverStep(c)
      BY <1>2, <3>1, <3>2, <3>3 DEF UserStep, OutsideStep
    <3>5. snd' = snd /\ snd[c].pc # "idle"
      BY <3>4, ReceiverFrame DEF OneAttempt
    <3>6. Duplicate(snd[c].file) \/ AboutToSave(c)'
      BY <1>2, <2>2, <3>4, ReceiverMakesSure
    <3>7. Duplicate(snd[c].file) => Saved(snd[c].file)
      BY DirectoryOK DEF Duplicate, Saved, DirectoryOK, Paths
    <3> QED
      BY <3>5, <3>6, <3>7 DEF Assured, SavedFilesStay
  <2> QED
    BY <2>1, <2>2
<1> QED
  BY <1>1, <1>2 DEF Next, Confirmed

\* Without edits every attempt sends the same content.
LEMMA SameSourceHolds ==
    ASSUME ~Overlap, MaxEdits = 0
    PROVE  Spec => []SameSource
<1>1. Init => SameSource
  BY DEF Init, SameSource, NewSend
<1>2. TypeOK /\ OneAttempt /\ SameSource /\ [Next]_vars => SameSource'
  <2> SUFFICES ASSUME TypeOK, OneAttempt, SameSource, [Next]_vars PROVE SameSource'
    OBVIOUS
  <2>1. ~EditSource
    BY DEF EditSource, TypeOK
  <2>2. CASE UNCHANGED vars
    BY <2>2 DEF vars, SameSource, srcVars
  <2>3. ASSUME NEW d \in Conns, UserStep(d) \/ SenderStep(d) \/ ReceiverStep(d) \/ Lose(d)
        PROVE  SameSource'
    <3>1. \A c \in Conns : c # d => snd'[c] = snd[c]
      BY <2>3, OthersUnseen
    <3>2. CASE StartSend(d)
      BY <3>1, <3>2 DEF StartSend, SameSource, TypeOK, SendRec, srcVars
    <3>3. CASE OutsideStep(d) \/ SenderStep(d) \/ ReceiverStep(d)
      BY <3>1, <3>3, OutsideFrame, SenderFrame, ReceiverFrame DEF SameSource, srcVars, OneAttempt
    <3> QED
      BY <2>3, <3>2, <3>3 DEF UserStep, OutsideStep
  <2> QED
    BY <2>1, <2>2, <2>3 DEF Next
<1> QED
  BY <1>1, <1>2, TypeCorrect, OneAttemptAtATime, PTL DEF Spec

\* Without edits a file under a final name is replaced by the very same content,
\* whatever name the user picks.
LEMMA UneditedFilesStay ==
    ASSUME ~DiskFails, TypeOK, OneAttempt, SameSource, SameSource', [Next]_vars
    PROVE  SavedFilesStay
<1> SUFFICES ASSUME NEW b \in Conns, snd[b].pc # "idle", Saved(snd[b].file)
             PROVE  Saved(snd[b].file)'
  BY DEF SavedFilesStay
<1>1. PICK q \in Paths : final[q] # NoFile /\ data[final[q]] = snd[b].file
  BY DEF Saved, Free
<1>2. ASSUME UNCHANGED dirVars, snd'[b].file = snd[b].file PROVE Saved(snd[b].file)'
  BY <1>1, <1>2 DEF Saved, Free, dirVars
<1>3. CASE UNCHANGED vars \/ EditSource
  BY <1>2, <1>3 DEF vars, EditSource, dirVars
<1>4. ASSUME NEW d \in Conns, StartSend(d) \/ SenderStep(d) \/ OutsideStep(d)
      PROVE  Saved(snd[b].file)'
  <2>1. UNCHANGED dirVars
    BY <1>4, OutsideFrame, SenderFrame DEF StartSend, OneAttempt
  <2>2. snd'[b].file = snd[b].file
    <3>1. CASE b # d
      BY <1>4, <3>1, OthersUnseen DEF UserStep, OutsideStep
    <3>2. CASE b = d
      BY <1>4, <3>2, OutsideFrame, SenderFrame DEF StartSend, MayStart, OneAttempt
    <3> QED
      BY <3>1, <3>2
  <2> QED
    BY <1>2, <2>1, <2>2
<1>5. ASSUME NEW d \in Conns, ReceiverStep(d) PROVE Saved(snd[b].file)'
  <2>1. snd' = snd /\ snd[d].pc # "idle" /\ snd[b].file = snd[d].file
    BY <1>5, ReceiverFrame DEF OneAttempt, SameSource
  <2>2. CASE final' = final /\ data' = data
    BY <1>1, <2>1, <2>2 DEF Saved, Free
  <2>3. CASE RecvChunk(d)
    <3>1. rcv[d].pc = "recv" /\ final' = final /\ rcv[d].path \in Paths
      BY <2>3 DEF RecvChunk, Receiving, TypeOK, RecvRec
    <3>2. final[q] # rcv[d].handle
      BY <1>1, <3>1 DEF OneAttempt, HoldsPartial, OneName, Writing
    <3>3. data'[final[q]] = data[final[q]]
      BY <1>1, <2>3, <3>2 DEF RecvChunk, TypeOK
    <3> QED
      BY <1>1, <2>1, <3>1, <3>3 DEF Saved, Free
  <2>4. CASE Finalize(d)
    <3>1. /\ rcv[d].pc = "rename" /\ rcv[d].path \in Paths /\ data' = data
          /\ partial[rcv[d].path] # NoFile
          /\ final' = [final EXCEPT ![rcv[d].path] = partial[rcv[d].path]]
      BY <2>4 DEF Finalize, FinalizeFile, TypeOK, RecvRec
    <3>2. data[partial[rcv[d].path]] = snd[d].file
      BY <3>1 DEF OneAttempt, Verified, AboutToSave
    <3> QED
      BY <2>1, <3>1, <3>2 DEF Saved, Free, TypeOK
  <2>5. ~FinalizeFails(d)
    <3>1. ASSUME rcv[d].pc = "rename" PROVE partial[rcv[d].path] # NoFile
      BY <3>1 DEF OneAttempt, Verified, AboutToSave
    <3> QED
      BY <3>1 DEF FinalizeFails, FinalizeLost, Unreadable
  <2>6. CASE ~RecvChunk(d) /\ ~Finalize(d)
    <3>1. CASE OfferFiltered(d) \/ OfferDuplicate(d) \/ OfferPlanned(d) \/ OfferLost(d)
                 \/ Accepted(d) \/ Refused(d) \/ OpenPartial(d)
      BY <2>2, <3>1 DEF OfferFiltered, OfferDuplicate, OfferPlanned, OfferLost, Accepted, Refused,
                        OpenPartial, dirVars
    <3>2. CASE RecvComplete(d) \/ PollDropsChunk(d) \/ RecvPause(d) \/ RecvSeesCancel(d)
                 \/ RecvBroken(d) \/ HashOK(d) \/ HashDiffers(d) \/ HashFails(d)
      BY <2>2, <3>2 DEF RecvComplete, PollDropsChunk, RecvPause, RecvSeesCancel, RecvBroken, HashOK,
                        HashDiffers, HashFails, RecvError, dirVars
    <3> QED
      BY <1>5, <2>5, <2>6, <3>1, <3>2 DEF ReceiverStep
  <2> QED
    BY <2>3, <2>4, <2>6
<1> QED
  BY <1>3, <1>4, <1>5 DEF Next, UserStep, OutsideStep

\* With plain names no file changes at all.
LEMMA PlainFilesStay ==
    ASSUME UserPaths \subseteq {1}, TypeOK, OneAttempt, PlainNames, [Next]_vars
    PROVE  SavedFilesStay
<1>1. FilesStay
  BY StepFilesStay
<1>2. \A c \in Conns : snd[c].pc # "idle" => snd'[c].file = snd[c].file
  <2> SUFFICES ASSUME NEW c \in Conns, snd[c].pc # "idle" PROVE snd'[c].file = snd[c].file
    OBVIOUS
  <2>1. CASE UNCHANGED vars \/ EditSource
    BY <2>1 DEF vars, EditSource
  <2>2. ASSUME NEW d \in Conns, UserStep(d) \/ SenderStep(d) \/ ReceiverStep(d) \/ Lose(d)
        PROVE  snd'[c].file = snd[c].file
    <3>1. CASE c # d
      BY <2>2, <3>1, OthersUnseen
    <3>2. CASE c = d
      BY <2>2, <3>2, OutsideFrame, SenderFrame, ReceiverFrame
         DEF UserStep, OutsideStep, StartSend, MayStart, OneAttempt
    <3> QED
      BY <3>1, <3>2
  <2> QED
    BY <2>1, <2>2 DEF Next
<1>3. ASSUME NEW c \in Conns, snd[c].pc # "idle", Saved(snd[c].file)
      PROVE  Saved(snd[c].file)'
  <2>1. PICK p \in Paths : ~Free(p) /\ data[final[p]] = snd[c].file
    BY <1>3 DEF Saved
  <2>2. final'[p] = final[p] /\ data'[final[p]] = snd'[c].file
    BY <1>1, <1>2, <1>3, <2>1 DEF FilesStay
  <2> QED
    BY <2>1, <2>2 DEF Saved, Free
<1> QED
  BY <1>3 DEF SavedFilesStay

\* A send shown as completed was delivered, when the disk does not fail and a name
\* is sent in one attempt at a time: for any losses and moves of the users, either
\* with the names the program offers and a source that is edited, or with any
\* names and a source that is not.
THEOREM SendsAreDelivered ==
    ASSUME ~Overlap, ~DiskFails, UserPaths \subseteq {1} \/ MaxEdits = 0
    PROVE  Spec => []SentMeansDelivered
<1>1. Init => Confirmed
  BY InitConfirmed
<1>2. Confirmed => SentMeansDelivered
  BY DEF Confirmed, Sure, Assured, SentMeansDelivered
<1>3. CASE UserPaths \subseteq {1}
  <2>1. TypeOK /\ OneAttempt /\ PlainNames /\ Confirmed /\ [Next]_vars => Confirmed'
    BY <1>3, PlainFilesStay, NextKeepsConfirmed
  <2>2. Spec => []PlainNames
    BY <1>3, PlainNamesHold
  <2> QED
    BY <1>1, <1>2, <2>1, <2>2, TypeCorrect, OneAttemptAtATime, PTL DEF Spec
<1>4. CASE MaxEdits = 0
  <2>1. TypeOK /\ OneAttempt /\ SameSource /\ SameSource' /\ Confirmed /\ [Next]_vars
          => Confirmed'
    BY UneditedFilesStay, NextKeepsConfirmed
  <2>2. Spec => []SameSource
    BY <1>4, SameSourceHolds
  <2> QED
    BY <1>1, <1>2, <2>1, <2>2, TypeCorrect, OneAttemptAtATime, PTL DEF Spec
<1> QED
  BY <1>3, <1>4

-----------------------------------------------------------------------------
(* Content: with a source that nobody edits and a disk that does not fail, *)
(* what is written is a prefix of what is sent.                            *)

\* Messages that stay where they are stay right.
LEMMA SameMessages ==
    ASSUME NEW c \in Conns, OnTheWay(c), src' = src,
           rcv'[c].pc = rcv[c].pc, rcv'[c].off = rcv[c].off,
           Len(toR[c]) \in Nat, Len(toR'[c]) \in Nat,
           \A k \in 1..Len(toR'[c]) : \/ k <= Len(toR[c]) /\ toR'[c][k] = toR[c][k]
                                      \/ Right(rcv'[c], src', k, toR'[c][k])
    PROVE  OnTheWay(c)'
<1> SUFFICES ASSUME NEW k \in 1..Len(toR'[c]) PROVE Right(rcv'[c], src', k, toR'[c][k])
  BY DEF OnTheWay
<1>1. CASE k <= Len(toR[c]) /\ toR'[c][k] = toR[c][k]
  <2>1. Right(rcv[c], src, k, toR[c][k])
    BY <1>1 DEF OnTheWay
  <2> QED
    BY <1>1, <2>1 DEF Right
<1> QED
  BY <1>1

\* A message appended behind the others.
LEMMA NextMessage ==
    ASSUME TypeOK, NEW c \in Conns, OnTheWay(c), src' = src, rcv' = rcv,
           NEW m \in ToReceiver, TellReceiver(c, m),
           ~ReceiverGone(c) => Right(rcv[c], src, Len(toR[c]) + 1, m)
    PROVE  OnTheWay(c)'
<1>0. toR[c] \in Seq(ToReceiver) /\ Len(toR[c]) \in Nat
  BY LenProperties DEF TypeOK
<1>1. CASE ReceiverGone(c)
  BY <1>0, <1>1, SameMessages DEF TellReceiver
<1>2. CASE ~ReceiverGone(c)
  <2>1. toR'[c] = Append(toR[c], m)
    BY <1>2 DEF TellReceiver, TypeOK
  <2>2. /\ Len(toR'[c]) = Len(toR[c]) + 1
        /\ \A k \in 1..Len(toR[c]) : toR'[c][k] = toR[c][k]
        /\ toR'[c][Len(toR[c]) + 1] = m
    BY <1>0, <2>1
  <2>3. \A k \in 1..Len(toR'[c]) : \/ k <= Len(toR[c]) /\ toR'[c][k] = toR[c][k]
                                   \/ Right(rcv'[c], src', k, toR'[c][k])
    BY <1>0, <1>2, <2>2
  <2>4. Len(toR'[c]) \in Nat
    BY <1>0, <2>2
  <2> QED
    BY <1>0, <2>3, <2>4, SameMessages
<1> QED
  BY <1>1, <1>2

\* A sender's step: the cursor never passes the end, and Complete comes when
\* everything is on its way.
LEMMA SenderKeepsWay ==
    ASSUME TypeOK, OneAttempt, InStep, SameSource, NEW c \in Conns, Cursor(c), OnTheWay(c),
           SenderStep(c) \/ StartSend(c)
    PROVE  Cursor(c)' /\ OnTheWay(c)'
<1>0. /\ rcv' = rcv /\ src' = src /\ Len(toR[c]) \in Nat
      /\ snd[c].off \in Nat /\ Len(snd[c].file) \in Nat /\ Len(src) \in Nat
      /\ src \in Seq(Blocks)
  BY SenderFrame, LenProperties, LenType, DirectoryOK, ConstantsOK
     DEF StartSend, TypeOK, srcVars, SendRec, DirectoryOK
<1>1. ASSUME toR' = toR PROVE OnTheWay(c)'
  BY <1>0, <1>1, SameMessages
<1>2. CASE RecvAccept(c)
  <2>1. /\ toR' = toR /\ snd'[c].pc = "send" /\ snd'[c].file = snd[c].file
        /\ snd'[c].off <= Len(snd[c].file)
    <3>1. Head(toS[c]) \in ToSender
      BY <1>2, TakenType DEF RecvAccept, SenderGets, TypeOK
    <3>2. Head(toS[c]).off \in Nat
      BY <1>2, <3>1 DEF RecvAccept, SenderGets, ToSender
    <3> QED
      BY <1>0, <1>2, <3>2 DEF RecvAccept, TypeOK, SendRec
  <2> QED
    BY <1>1, <2>1 DEF Cursor
<1>3. CASE RecvStop(c) \/ SeeCancel(c) \/ RecvVerify(c) \/ SendFails(c)
  <2>1. toR' = toR /\ snd'[c].pc = "end"
    BY <1>3 DEF RecvStop, SeeCancel, RecvVerify, SendFails, Returned, TypeOK, SendRec
  <2> QED
    BY <1>1, <2>1 DEF Cursor
<1>4. CASE SendChunk(c)
  <2> DEFINE o == snd[c].off
             m == ChunkMsg(o, src[o + 1])
  <2>1. /\ snd'[c].pc = "chunk" /\ snd'[c].off = o /\ snd'[c].file = snd[c].file
        /\ o < Len(snd[c].file) /\ o < Len(src) /\ TellReceiver(c, m)
    BY <1>4 DEF SendChunk, TypeOK, SendRec
  <2>2. m \in ToReceiver
    <3>1. src[o + 1] \in Blocks
      BY <1>0, <2>1, ElementOfSeq
    <3> QED
      BY <1>0, <3>1, MessageTypes
  <2>3. Right(rcv[c], src, Len(toR[c]) + 1, m)
    BY <2>1 DEF Right, ChunkMsg
  <2> QED
    BY <1>0, <2>1, <2>2, <2>3, NextMessage DEF Cursor
<1>5. CASE ChunkSent(c)
  <2>1. /\ toR' = toR /\ snd[c].pc = "chunk" /\ snd'[c].pc = "send"
        /\ snd'[c].off = snd[c].off + 1 /\ snd'[c].file = snd[c].file
    BY <1>5 DEF ChunkSent, TypeOK, SendRec
  <2> QED
    BY <1>0, <1>1, <2>1 DEF Cursor
<1>6. CASE SendComplete(c)
  <2>1. /\ snd[c].pc = "send" /\ snd'[c].pc = "verify" /\ TellReceiver(c, CompleteMsg)
        /\ ~ReceiverGone(c)
        /\ snd[c].off >= Len(snd[c].file) \/ snd[c].off >= Len(src)
    BY <1>6 DEF SendComplete, TypeOK, SendRec
  <2>2. snd[c].file = src /\ snd[c].off = Len(src)
    BY <1>0, <1>6, <2>1 DEF SameSource, Cursor, SendComplete
  <2>3. rcv[c].pc \in {"open", "recv"} /\ snd[c].off = rcv[c].off + Len(toR[c])
    BY <1>6, <2>1 DEF InStep, SenderAligned, Behind, SendComplete
  <2>4. Right(rcv[c], src, Len(toR[c]) + 1, CompleteMsg)
    <3>1. rcv[c].off \in Nat
      BY DEF TypeOK, RecvRec
    <3> QED
      BY <1>0, <2>2, <2>3, <3>1 DEF Right, CompleteMsg
  <2> QED
    BY <1>0, <2>1, <2>4, NextMessage, MessageTypes DEF Cursor
<1>7. CASE AfterSend(c)
  <2>1. snd'[c].pc \in {"ack", "finish"} /\ (toR' = toR \/ TellReceiver(c, CancelMsg("paused")))
    BY <1>7 DEF AfterSend, TypeOK, SendRec
  <2>2. Right(rcv[c], src, Len(toR[c]) + 1, CancelMsg("paused"))
    BY DEF Right, CancelMsg
  <2> QED
    BY <1>0, <1>1, <2>1, <2>2, NextMessage, MessageTypes DEF Cursor
<1>8. CASE PauseAcked(c) \/ FinishSend(c)
  <2>1. toR' = toR /\ snd'[c].pc = "done"
    BY <1>8, SendEndsWith DEF PauseAcked, FinishSend
  <2> QED
    BY <1>1, <2>1 DEF Cursor
<1>9. CASE StartSend(c)
  <2>1. snd'[c].pc = "accept" /\ TellReceiver(c, OfferMsg)
    BY <1>9 DEF StartSend, TypeOK, SendRec
  <2>2. Right(rcv[c], src, Len(toR[c]) + 1, OfferMsg)
    BY DEF Right, OfferMsg
  <2> QED
    BY <1>0, <2>1, <2>2, NextMessage, MessageTypes DEF Cursor
<1> QED
  BY <1>2, <1>3, <1>4, <1>5, <1>6, <1>7, <1>8, <1>9 DEF SenderStep

\* Users and network: the last message may be lost, nothing else moves.
LEMMA OutsideKeepsWay ==
    ASSUME TypeOK, OneAttempt, NEW c \in Conns, Cursor(c), OnTheWay(c), OutsideStep(c)
    PROVE  Cursor(c)' /\ OnTheWay(c)'
<1>0. /\ snd'[c].pc = snd[c].pc /\ snd'[c].off = snd[c].off /\ snd'[c].file = snd[c].file
      /\ rcv'[c].pc = rcv[c].pc /\ rcv'[c].off = rcv[c].off /\ src' = src
      /\ toR[c] \in Seq(ToReceiver) /\ Len(toR[c]) \in Nat
  BY OutsideFrame, LenProperties DEF OneAttempt, srcVars, TypeOK
<1>1. toR' = toR \/ toR' = WithoutLast(toR, c)
  BY DEF OutsideStep, PauseSend, CancelSend, Stop, RemoveSend, UserAccept, UserReject,
         CancelRecv, RemoveRecv, Lose
<1>2. CASE toR' = toR
  BY <1>0, <1>2, SameMessages DEF Cursor
<1>3. CASE toR' = WithoutLast(toR, c)
  <2> DEFINE s == toR[c]
             n == Len(toR[c]) - 1
  <2>1. toR'[c] = SubSeq(s, 1, n)
    BY <1>3 DEF WithoutLast, TypeOK
  <2>2. n \in Int /\ \A i \in 1..n : s[i] \in ToReceiver
    BY <1>0, ElementOfSeq
  <2>3. /\ Len(SubSeq(s, 1, n)) = IF 1 <= n THEN n - 1 + 1 ELSE 0
        /\ \A i \in 1..(n - 1 + 1) : SubSeq(s, 1, n)[i] = s[1 + i - 1]
    BY <2>2, SubSeqProperties
  <2>4. /\ Len(toR'[c]) \in Nat /\ Len(toR'[c]) <= Len(toR[c])
        /\ \A k \in 1..Len(toR'[c]) : toR'[c][k] = toR[c][k]
    BY <1>0, <2>1, <2>3
  <2> QED
    BY <1>0, <2>4, SameMessages DEF Cursor
<1> QED
  BY <1>1, <1>2, <1>3

\* What a receive writes goes on from where its partial file ends.
LEMMA ChunkFits ==
    ASSUME DirectoryOK, TypeOK, OneAttempt, InStep, PartialPrefix, NEW c \in Conns,
           OnTheWay(c), Expected(c), RecvChunk(c)
    PROVE  /\ rcv[c].handle \in Inodes /\ partial' = partial /\ final' = final
           /\ \A i \in Inodes : i # rcv[c].handle => data'[i] = data[i]
           /\ Len(data'[rcv[c].handle]) = rcv[c].off + 1
           /\ IsPrefix(data'[rcv[c].handle], src)
           /\ rcv'[c].pc = "recv" /\ rcv'[c].off = rcv[c].off + 1
           /\ rcv'[c].handle = rcv[c].handle /\ rcv'[c].path = rcv[c].path
           /\ toR'[c] = Tail(toR[c]) /\ toR[c] # <<>> /\ rcv[c].pc = "recv"
           /\ rcv[c].off < Len(src)
<1> DEFINE h == rcv[c].handle
           o == rcv[c].off
           m == Head(toR[c])
<1>1. /\ rcv[c].pc = "recv" /\ toR[c] # <<>> /\ m.type = "Chunk" /\ toR' = Taken(toR, c)
      /\ partial' = partial /\ final' = final
  BY DEF RecvChunk, Receiving, ReceiverGets
<1>2. /\ toR[c] \in Seq(ToReceiver) /\ Len(toR[c]) \in Nat /\ m = toR[c][1]
      /\ 1 \in 1..Len(toR[c]) /\ o \in Nat
  BY <1>1, LenProperties, EmptySeq DEF TypeOK, RecvRec
<1>3. m.off = o
  BY <1>1, <1>2 DEF InStep, ChunksInOrder
<1>4. o < Len(src) /\ m.blk = src[o + 1]
  BY <1>1, <1>2, <1>3 DEF OnTheWay, Right
<1>5. /\ h # NoFile /\ partial[rcv[c].path] = h /\ rcv[c].path \in Paths
      /\ h \in Inodes /\ data[h] \in Disk /\ Len(data[h]) = o
  BY <1>1 DEF OneAttempt, HoldsPartial, Writing, TypeOK, RecvRec, Disk, Expected
<1>6. IsPrefix(data[h], src)
  BY <1>5 DEF PartialPrefix
<1>7. /\ data' = [data EXCEPT ![h] = WriteAt(@, m.off, m.blk)]
      /\ rcv' = [rcv EXCEPT ![c].off = @ + 1]
  BY <1>3 DEF RecvChunk
<1>8. data'[h] = WriteAt(data[h], Len(data[h]), m.blk)
  BY <1>3, <1>5, <1>7 DEF TypeOK
<1>9. /\ Len(data'[h]) = o + 1 /\ data'[h][o + 1] = m.blk
      /\ \A k \in 1..o : data'[h][k] = data[h][k]
  BY <1>5, <1>8, WriteAtEnd
<1>10. IsPrefix(data'[h], src)
  <2>1. Len(src) \in Nat
    BY LenProperties DEF TypeOK, DirectoryOK
  <2>2. \A k \in 1..o : data'[h][k] = src[k]
    BY <1>5, <1>6, <1>9 DEF IsPrefix
  <2>3. \A k \in 1..(o + 1) : data'[h][k] = src[k]
    <3>1. data'[h][o + 1] = src[o + 1]
      BY <1>4, <1>9
    <3>2. \A k \in 1..(o + 1) : k \in 1..o \/ k = o + 1
      BY <1>2
    <3> QED
      BY <2>2, <3>1, <3>2
  <2>4. Len(data'[h]) <= Len(src)
    BY <1>2, <1>4, <1>9, <2>1
  <2> QED
    BY <1>9, <2>3, <2>4 DEF IsPrefix
<1> QED
  BY <1>1, <1>4, <1>5, <1>7, <1>9, <1>10 DEF TypeOK, RecvRec, Taken

\* Taking the first message off keeps the others right, if the offset moves with a
\* chunk, and if after any other message no chunk and no Complete follows.
LEMMA TakenMessage ==
    ASSUME TypeOK, NEW c \in Conns, OnTheWay(c), src' = src, toR[c] # <<>>,
           toR'[c] = Tail(toR[c]),
           \/ /\ rcv'[c].pc = rcv[c].pc /\ rcv'[c].off = rcv[c].off + 1
           \/ \A k \in 1..Len(toR[c]) : k > 1 => toR[c][k].type \notin {"Chunk", "Complete"}
    PROVE  OnTheWay(c)'
<1>0. /\ toR[c] \in Seq(ToReceiver) /\ Len(toR[c]) \in Nat /\ rcv[c].off \in Nat
      /\ Len(toR'[c]) = Len(toR[c]) - 1
      /\ \A k \in 1..Len(toR'[c]) : toR'[c][k] = toR[c][k + 1]
  BY LenProperties, HeadTailProperties DEF TypeOK, RecvRec
<1> SUFFICES ASSUME NEW k \in 1..Len(toR'[c]) PROVE Right(rcv'[c], src', k, toR'[c][k])
  BY DEF OnTheWay
<1>1. /\ k + 1 \in 1..Len(toR[c]) /\ k + 1 > 1 /\ toR'[c][k] = toR[c][k + 1]
      /\ k \in Nat
  BY <1>0
<1> DEFINE m == toR[c][k + 1]
<1>2. Right(rcv[c], src, k + 1, m) /\ toR'[c][k] = m
  BY <1>1 DEF OnTheWay
<1> HIDE DEF m
<1>3. CASE rcv'[c].pc = rcv[c].pc /\ rcv'[c].off = rcv[c].off + 1
  <2>1. rcv'[c].off + k - 1 = rcv[c].off + (k + 1) - 1
    BY <1>0, <1>1, <1>3
  <2> QED
    BY <1>2, <1>3, <2>1 DEF Right
<1>4. CASE m.type \notin {"Chunk", "Complete"}
  BY <1>2, <1>4 DEF Right
<1> QED
  BY <1>1, <1>3, <1>4 DEF m

\* While a receiver neither opens nor receives, no chunk and no Complete are on
\* their way to it.
LEMMA NoChunkYet ==
    ASSUME TypeOK, InStep, NEW c \in Conns, OnTheWay(c), rcv[c].pc \notin {"open", "recv"}
    PROVE  \A k \in 1..Len(toR[c]) : toR[c][k].type \notin {"Chunk", "Complete"}
BY DEF InStep, ChunksInOrder, OnTheWay, Right

\* A receiver's step keeps the messages behind the one it takes right.
LEMMA ReceiverKeepsWay ==
    ASSUME DirectoryOK, TypeOK, OneAttempt, InStep, PartialPrefix, NEW c \in Conns,
           OnTheWay(c), Expected(c), ReceiverStep(c)
    PROVE  OnTheWay(c)'
<1>0. /\ src' = src /\ toR[c] \in Seq(ToReceiver) /\ Len(toR[c]) \in Nat
      /\ toR[c] # <<>> => Head(toR[c]) = toR[c][1] /\ 1 \in 1..Len(toR[c])
  BY ReceiverFrame, LenProperties, EmptySeq DEF OneAttempt, srcVars, TypeOK
<1>1. ASSUME toR'[c] = <<>> PROVE OnTheWay(c)'
  <2>1. Len(toR'[c]) = 0
    BY <1>1
  <2> QED
    BY <2>1 DEF OnTheWay
<1>2. CASE OfferFiltered(c) \/ OfferDuplicate(c) \/ OfferLost(c) \/ Refused(c)
             \/ RecvPause(c) \/ RecvSeesCancel(c) \/ RecvBroken(c) \/ HashDiffers(c)
             \/ HashFails(c) \/ Finalize(c) \/ FinalizeFails(c)
  BY <1>1, <1>2, RecvEndsWith
     DEF OfferFiltered, OfferDuplicate, OfferLost, Refused, RecvPause, RecvSeesCancel, RecvBroken,
         HashDiffers, HashFails, RecvError, Finalize, FinalizeFails
<1>3. CASE OfferPlanned(c)
  <2>1. /\ rcv[c].pc = "idle" /\ toR[c] # <<>> /\ toR'[c] = Tail(toR[c])
    BY <1>3 DEF OfferPlanned, GotOffer, ReceiverGets, Taken, TypeOK
  <2>2. \A k \in 1..Len(toR[c]) : toR[c][k].type \notin {"Chunk", "Complete"}
    BY <2>1, NoChunkYet
  <2> QED
    BY <1>0, <2>1, <2>2, TakenMessage
<1>4. CASE Accepted(c) \/ HashOK(c)
  <2>1. rcv[c].pc \notin {"open", "recv"} /\ toR' = toR
    BY <1>4 DEF Accepted, HashOK
  <2>2. \A k \in 1..Len(toR[c]) : toR[c][k].type \notin {"Chunk", "Complete"}
    BY <2>1, NoChunkYet
  <2> QED
    BY <2>1, <2>2 DEF OnTheWay, Right
<1>5. CASE OpenPartial(c)
  <2>1. /\ rcv[c].pc = "open" /\ rcv'[c].pc = "recv" /\ rcv'[c].off = rcv[c].off /\ toR' = toR
    BY <1>5 DEF OpenPartial, TypeOK, RecvRec
  <2> QED
    BY <1>0, <2>1 DEF OnTheWay, Right
<1>6. CASE RecvChunk(c)
  <2>1. /\ rcv'[c].pc = rcv[c].pc /\ rcv'[c].off = rcv[c].off + 1
        /\ toR'[c] = Tail(toR[c]) /\ toR[c] # <<>>
    BY <1>6, ChunkFits
  <2> QED
    BY <1>0, <2>1, TakenMessage
<1>7. CASE RecvComplete(c)
  <2>1. /\ rcv[c].pc = "recv" /\ toR[c] # <<>> /\ toR'[c] = Tail(toR[c])
        /\ Head(toR[c]).type = "Complete"
    BY <1>7 DEF RecvComplete, Receiving, ReceiverGets, Taken, TypeOK
  <2>2. rcv[c].off = Len(src) /\ toR[c][1].type = "Complete"
    <3>1. Right(rcv[c], src, 1, toR[c][1])
      BY <1>0, <2>1 DEF OnTheWay
    <3>2. rcv[c].off \in Nat
      BY DEF TypeOK, RecvRec
    <3> QED
      BY <1>0, <2>1, <3>1, <3>2 DEF Right
  <2>3. \A k \in 1..Len(toR[c]) : k > 1 => toR[c][k].type # "Complete"
    BY <2>2 DEF OnTheWay, Right, TypeOK, RecvRec
  <2>4. \A k \in 1..Len(toR[c]) : toR[c][k].type # "Chunk"
    <3> SUFFICES ASSUME NEW k \in 1..Len(toR[c]), toR[c][k].type = "Chunk" PROVE FALSE
      OBVIOUS
    <3>1. \A j \in 1..k : toR[c][j].type = "Chunk"
      BY DEF InStep, ChunksInOrder
    <3>2. 1 \in 1..k
      BY <1>0
    <3> QED
      BY <2>2, <3>1, <3>2
  <2> QED
    BY <1>0, <2>1, <2>3, <2>4, TakenMessage
<1>8. CASE PollDropsChunk(c)
  <2>1. toR'[c] = Tail(toR[c]) /\ Len(toR[c]) = 1 /\ toR[c] # <<>>
    BY <1>8 DEF PollDropsChunk, ReceiverGets, Taken, TypeOK
  <2>2. Len(toR'[c]) = 0
    BY <1>0, <2>1, HeadTailProperties
  <2> QED
    BY <2>2 DEF OnTheWay
<1> QED
  BY <1>2, <1>3, <1>4, <1>5, <1>6, <1>7, <1>8 DEF ReceiverStep

\* An empty file is a prefix of every content.
LEMMA EmptyPrefix ==
    ASSUME DirectoryOK, TypeOK
    PROVE  Len(<<>>) = 0 /\ IsPrefix(<<>>, src)
<1>1. Len(src) \in Nat
  BY LenProperties DEF TypeOK, DirectoryOK
<1> QED
  BY <1>1 DEF IsPrefix

\* A receiver's step keeps partial files the beginning of what is sent.
LEMMA ReceiverKeepsPrefix ==
    ASSUME DirectoryOK, ConstantsOK, TypeOK, OneAttempt, InStep, SameSource, PartialPrefix,
           NEW c \in Conns, OnTheWay(c), Expected(c), ReceiverStep(c)
    PROVE  PartialPrefix' /\ Expected(c)'
<1>0. /\ src' = src /\ snd' = snd
  BY ReceiverFrame DEF OneAttempt, srcVars
<1>1. ASSUME data' = data, \A p \in Paths : partial'[p] \in {partial[p], NoFile}
      PROVE  PartialPrefix'
  BY <1>0, <1>1 DEF PartialPrefix
<1>2. CASE OfferFiltered(c) \/ OfferDuplicate(c) \/ OfferLost(c) \/ Refused(c)
             \/ RecvPause(c) \/ RecvSeesCancel(c) \/ RecvBroken(c) \/ HashDiffers(c)
             \/ HashFails(c) \/ Finalize(c) \/ FinalizeFails(c)
  <2>1. rcv'[c].pc = "done"
    BY <1>2, RecvEndsWith
       DEF OfferFiltered, OfferDuplicate, OfferLost, Refused, RecvPause, RecvSeesCancel,
           RecvBroken, HashDiffers, HashFails, RecvError, Finalize, FinalizeFails
  <2>2. data' = data /\ \A p \in Paths : partial'[p] \in {partial[p], NoFile}
    <3>1. CASE OfferFiltered(c) \/ OfferDuplicate(c) \/ OfferLost(c) \/ Refused(c)
      BY <3>1 DEF OfferFiltered, OfferDuplicate, OfferLost, Refused, dirVars
    <3>2. CASE RecvPause(c) \/ RecvSeesCancel(c) \/ RecvBroken(c) \/ HashDiffers(c)
                 \/ HashFails(c)
      BY <3>2 DEF RecvPause, RecvSeesCancel, RecvBroken, HashDiffers, HashFails, RecvError,
                  CleanUp, TypeOK
    <3>3. CASE Finalize(c) \/ FinalizeFails(c)
      BY <3>3 DEF Finalize, FinalizeFails, FinalizeFile, FinalizeLost, TypeOK
    <3> QED
      BY <1>2, <3>1, <3>2, <3>3
  <2> QED
    BY <1>1, <2>1, <2>2 DEF Expected
<1>3. CASE OfferPlanned(c) \/ Accepted(c)
  <2>1. /\ data' = data /\ rcv'[c].pc \in {"confirm", "open"}
        /\ rcv'[c].off = ResumeOffset(rcv'[c].path, snd[c].file)
        /\ partial' = AfterValidate(rcv'[c].path, snd[c].file)
        /\ rcv'[c].path \in Paths
    <3>1. rcv'[c].path \in Paths
      <4>1. CASE OfferPlanned(c)
        BY <4>1, SavePathIsFree DEF OfferPlanned, TypeOK, RecvRec, DirectoryOK, Paths
      <4>2. CASE Accepted(c)
        BY <4>2, ResolveConflictType DEF Accepted, TypeOK, RecvRec
      <4> QED
        BY <1>3, <4>1, <4>2
    <3> QED
      BY <1>3, <3>1 DEF OfferPlanned, Accepted, TypeOK, RecvRec
  <2>2. \A p \in Paths : partial'[p] \in {partial[p], NoFile}
    BY <2>1 DEF AfterValidate, TypeOK
  <2>3. Expected(c)'
    BY <2>1 DEF Expected, ResumeOffset, AfterValidate, TooLong, TypeOK
  <2> QED
    BY <1>1, <2>1, <2>2, <2>3
<1>4. CASE OpenPartial(c)
  <2> DEFINE p == rcv[c].path
             i == IF partial[p] = NoFile THEN c ELSE partial[p]
  <2>1. /\ rcv[c].pc = "open" /\ p \in Paths /\ rcv'[c].pc = "recv" /\ rcv'[c].handle = i
        /\ rcv'[c].off = rcv[c].off
        /\ partial' = [partial EXCEPT ![p] = i] /\ data' = data
    BY <1>4 DEF OpenPartial, TypeOK, RecvRec
  <2>2. data[c] = <<>>
    BY <2>1 DEF OneAttempt, Fresh
  <2>3. rcv[c].off = Len(data[i])
    BY <2>1, <2>2, EmptyPrefix DEF Expected
  <2>4. IsPrefix(data[i], src)
    BY <2>1, <2>2, EmptyPrefix DEF PartialPrefix
  <2>5. PartialPrefix'
    BY <1>0, <2>1, <2>4 DEF PartialPrefix, TypeOK
  <2> QED
    BY <2>1, <2>3, <2>5 DEF Expected
<1>5. CASE RecvChunk(c)
  <2> DEFINE h == rcv[c].handle
  <2>1. /\ partial' = partial /\ \A i \in Inodes : i # h => data'[i] = data[i]
        /\ Len(data'[h]) = rcv[c].off + 1 /\ IsPrefix(data'[h], src)
        /\ rcv'[c].pc = "recv" /\ rcv'[c].off = rcv[c].off + 1 /\ rcv'[c].handle = h
    BY <1>5, ChunkFits
  <2>2. PartialPrefix'
    <3> SUFFICES ASSUME NEW p \in Paths, partial[p] # NoFile
                 PROVE  IsPrefix(data'[partial[p]], src)
      BY <1>0, <2>1 DEF PartialPrefix
    <3>1. CASE partial[p] = h
      BY <2>1, <3>1
    <3>2. CASE partial[p] # h
      BY <2>1, <3>2 DEF PartialPrefix, TypeOK
    <3> QED
      BY <3>1, <3>2
  <2> QED
    BY <2>1, <2>2 DEF Expected
<1>6. CASE RecvComplete(c)
  <2> DEFINE h == rcv[c].handle
  <2>1. /\ rcv[c].pc = "recv" /\ toR[c] # <<>> /\ Head(toR[c]).type = "Complete"
        /\ rcv'[c].pc = "hash" /\ rcv'[c].handle = h /\ UNCHANGED dirVars
    BY <1>6 DEF RecvComplete, Receiving, ReceiverGets, TypeOK, RecvRec
  <2>2. rcv[c].off = Len(src)
    <3>1. Head(toR[c]) = toR[c][1] /\ 1 \in 1..Len(toR[c])
      BY <2>1, LenProperties, EmptySeq DEF TypeOK
    <3>2. Right(rcv[c], src, 1, toR[c][1])
      BY <3>1 DEF OnTheWay
    <3>3. rcv[c].off \in Nat
      BY DEF TypeOK, RecvRec
    <3> QED
      BY <2>1, <3>1, <3>2, <3>3 DEF Right
  <2>3. Len(data[h]) = Len(src)
    BY <2>1, <2>2 DEF Expected
  <2>4. IsPrefix(data[h], src)
    BY <2>1 DEF OneAttempt, HoldsPartial, Writing, PartialPrefix, TypeOK, RecvRec
  <2>5. data[h] \in Disk /\ src \in Disk
    <3>1. h \in Inodes
      BY <2>1 DEF OneAttempt, HoldsPartial, Writing, TypeOK, RecvRec
    <3>2. Contents \subseteq Disk
      BY SeqMonotonic DEF DirectoryOK, Disk
    <3> QED
      BY <3>1, <3>2 DEF TypeOK, Disk
  <2>6. data[h] = src
    BY <2>3, <2>4, <2>5, SeqEqual DEF IsPrefix, Disk
  <2> QED
    BY <1>0, <1>1, <2>1, <2>6 DEF Expected, dirVars
<1>7. CASE PollDropsChunk(c)
  BY <1>0, <1>1, <1>7 DEF PollDropsChunk, Expected, dirVars
<1>8. CASE HashOK(c)
  <2>1. UNCHANGED dirVars /\ rcv'[c].pc = "rename"
    BY <1>8 DEF HashOK, TypeOK, RecvRec
  <2> QED
    BY <1>0, <1>1, <2>1 DEF Expected, dirVars
<1> QED
  BY <1>2, <1>3, <1>4, <1>5, <1>6, <1>7, <1>8 DEF ReceiverStep

\* Every partial file is the beginning of the content that is sent, and what a
\* receiver expects next is what follows it.
LEMMA ContentHolds ==
    ASSUME ~Overlap, MaxEdits = 0
    PROVE  Spec => []Content
<1>1. Init => Content
  <2> SUFFICES ASSUME Init PROVE Content
    OBVIOUS
  <2>1. \A c \in Conns : /\ snd[c].pc = "idle" /\ rcv[c].pc = "idle" /\ Len(toR[c]) = 0
    BY DEF Init, NewSend, NewRecv
  <2>2. \A p \in Paths : partial[p] = NoFile
    BY DEF Init, InitDirectory
  <2> QED
    BY <2>1, <2>2 DEF Content, PartialPrefix, Cursor, OnTheWay, Expected
<1>2. TypeOK /\ OneAttempt /\ InStep /\ SameSource /\ Content /\ [Next]_vars => Content'
  <2> SUFFICES ASSUME TypeOK, OneAttempt, InStep, SameSource, Content, [Next]_vars
               PROVE  Content'
    OBVIOUS
  <2>1. CASE UNCHANGED vars
    BY <2>1 DEF vars, Content, PartialPrefix, Cursor, OnTheWay, Expected, dirVars, netVars,
                srcVars
  <2>2. ~EditSource
    BY DEF EditSource, TypeOK
  <2>3. ASSUME NEW d \in Conns, UserStep(d) \/ SenderStep(d) \/ ReceiverStep(d) \/ Lose(d)
        PROVE  Content'
    <3>1. ASSUME NEW c \in Conns, c # d
          PROVE  /\ snd'[c] = snd[c] /\ rcv'[c] = rcv[c] /\ toR'[c] = toR[c]
                 /\ ReceiverStep(d) => rcv[c].pc \in {"idle", "done"}
      BY <2>3, <3>1, OthersUnseen, ReceiverKeepsAlone DEF SameView
    <3>2. src' = src
      BY <2>3, OutsideFrame, SenderFrame, ReceiverFrame
         DEF UserStep, OutsideStep, StartSend, srcVars, OneAttempt
    <3>3. Cursor(d) /\ OnTheWay(d) /\ Expected(d) /\ PartialPrefix
      BY DEF Content
    <3>4. CASE ReceiverStep(d)
      <4>1. PartialPrefix' /\ Expected(d)' /\ OnTheWay(d)'
        BY <3>3, <3>4, ReceiverKeepsPrefix, ReceiverKeepsWay, DirectoryOK, ConstantsOK
      <4>2. Cursor(d)'
        BY <3>3, <3>4, ReceiverFrame DEF Cursor, OneAttempt
      <4>3. ASSUME NEW c \in Conns, c # d PROVE Cursor(c)' /\ OnTheWay(c)' /\ Expected(c)'
        BY <3>1, <3>2, <3>4, <4>3 DEF Content, Cursor, OnTheWay, Expected
      <4> QED
        BY <4>1, <4>2, <4>3 DEF Content
    <3>5. CASE OutsideStep(d) \/ SenderStep(d) \/ StartSend(d)
      <4>1. UNCHANGED dirVars
        BY <3>5, OutsideFrame, SenderFrame DEF StartSend, OneAttempt
      <4>2. Cursor(d)' /\ OnTheWay(d)'
        BY <3>3, <3>5, OutsideKeepsWay, SenderKeepsWay
      <4>3. /\ rcv'[d].pc = rcv[d].pc /\ rcv'[d].off = rcv[d].off /\ rcv'[d].handle = rcv[d].handle
            /\ rcv'[d].path = rcv[d].path \/ rcv[d].pc = "confirm"
        BY <3>5, OutsideFrame, SenderFrame DEF StartSend, OneAttempt
      <4>4. Expected(d)'
        BY <3>2, <3>3, <4>1, <4>3 DEF Expected, dirVars
      <4>5. PartialPrefix'
        BY <3>2, <3>3, <4>1 DEF PartialPrefix, dirVars
      <4>6. ASSUME NEW c \in Conns, c # d PROVE Cursor(c)' /\ OnTheWay(c)' /\ Expected(c)'
        BY <3>1, <3>2, <4>1, <4>6 DEF Content, Cursor, OnTheWay, Expected, dirVars
      <4> QED
        BY <4>2, <4>4, <4>5, <4>6 DEF Content
    <3> QED
      BY <2>3, <3>4, <3>5 DEF UserStep, OutsideStep
  <2> QED
    BY <2>1, <2>2, <2>3 DEF Next
<1> QED
  BY <1>1, <1>2, TypeCorrect, OneAttemptAtATime, AlwaysInStep, SameSourceHolds, PTL DEF Spec

\* Verification never finds a difference then, nor the receive loop a gap; reading
\* and renaming only fail when the disk does.
LEMMA NothingGoesWrong ==
    ASSUME TypeOK, OneAttempt, InStep, SameSource, Content, NEW c \in Conns
    PROVE  /\ ~HashDiffers(c)
           /\ ~DiskFails => ~HashFails(c) /\ ~FinalizeFails(c)
           /\ Receiving(c) => ~NextIsGap(c)
<1>1. /\ rcv[c].pc # "idle" => snd[c].file = src
      /\ Writing(c) => /\ rcv[c].handle # NoFile /\ rcv[c].path \in Paths
                       /\ partial[rcv[c].path] = rcv[c].handle
      /\ rcv[c].pc = "hash" => data[rcv[c].handle] = src
  BY DEF OneAttempt, Unstarted, SameSource, HoldsPartial, Content, Expected, TypeOK, RecvRec
<1>2. ~HashDiffers(c) /\ (~DiskFails => ~HashFails(c) /\ ~FinalizeFails(c))
  BY <1>1 DEF HashDiffers, HashFails, HashOf, FinalizeFails, FinalizeLost, Unreadable, Writing
<1>3. ASSUME Receiving(c), NextIsGap(c) PROVE FALSE
  <2>1. /\ toR[c] # <<>> /\ toR[c] \in Seq(ToReceiver) /\ Head(toR[c]).type = "Chunk"
        /\ Head(toR[c]).off > rcv[c].off /\ rcv[c].off \in Nat
    BY <1>3 DEF NextIsGap, ReceiverGets, TypeOK, RecvRec
  <2>2. Head(toR[c]) = toR[c][1] /\ 1 \in 1..Len(toR[c])
    BY <2>1, LenProperties, EmptySeq
  <2>3. Head(toR[c]).off = rcv[c].off
    BY <2>1, <2>2 DEF InStep, ChunksInOrder
  <2> QED
    BY <2>1, <2>3
<1> QED
  BY <1>2, <1>3

-----------------------------------------------------------------------------
(* What a pause leaves behind.                                             *)

\* The steps that do not touch the directory leave the partial files alone, and
\* those of a receiver remove one for the reasons the property lists.
LEMMA WhyPartialGoes ==
    ASSUME TypeOK, OneAttempt, InStep, SameSource, Content, NEW c \in Conns, ReceiverStep(c),
           NEW p \in Paths, partial[p] # NoFile, partial'[p] = NoFile
    PROVE  \/ final'[p] = partial[p]
           \/ /\ rcv'[c].pc # rcv[c].pc
              /\ rcv[c].flag \/ Len(data[partial[p]]) > Len(snd[c].file)
<1>1. CASE OfferFiltered(c) \/ OfferDuplicate(c) \/ OfferLost(c) \/ Refused(c) \/ RecvChunk(c)
             \/ RecvComplete(c) \/ PollDropsChunk(c) \/ HashOK(c) \/ FinalizeFails(c)
  BY <1>1 DEF OfferFiltered, OfferDuplicate, OfferLost, Refused, RecvChunk, RecvComplete,
              PollDropsChunk, HashOK, FinalizeFails, FinalizeLost, dirVars
<1>2. CASE OfferPlanned(c) \/ Accepted(c)
  <2>1. rcv'[c].pc # rcv[c].pc
    BY <1>2 DEF OfferPlanned, Accepted, GotOffer, TypeOK, RecvRec
  <2>2. PICK q : partial' = AfterValidate(q, snd[c].file)
    BY <1>2 DEF OfferPlanned, Accepted
  <2>3. TooLong(q, snd[c].file) /\ p = q
    BY <2>2 DEF AfterValidate, TypeOK
  <2> QED
    BY <2>1, <2>3 DEF TooLong
<1>3. CASE OpenPartial(c)
  BY <1>3 DEF OpenPartial, TypeOK, Conns, NoFile
<1>4. CASE RecvPause(c) \/ RecvBroken(c) \/ HashFails(c)
  BY <1>4 DEF RecvPause, RecvBroken, HashFails, RecvError, CleanUp
<1>5. CASE RecvSeesCancel(c)
  <2>1. rcv[c].pc = "recv" /\ rcv[c].flag /\ rcv'[c].pc = "done"
    BY <1>5, RecvEndsWith DEF RecvSeesCancel, RecvError
  <2> QED
    BY <2>1
<1>6. CASE Finalize(c)
  BY <1>6 DEF Finalize, FinalizeFile, TypeOK
<1>7. ~HashDiffers(c)
  BY NothingGoesWrong
<1> QED
  BY <1>1, <1>2, <1>3, <1>4, <1>5, <1>6, <1>7 DEF ReceiverStep

\* What was received is kept to resume from, when a name is sent in one attempt at a
\* time and its source is not edited: only the user's cancellation and a partial
\* file longer than the offered one remove it, whatever breaks or is refused.
THEOREM PartialFilesSurvive ==
    ASSUME ~Overlap, MaxEdits = 0
    PROVE  Spec => PartialSurvives
<1> DEFINE ForAReason(p) == partial[p] # NoFile /\ partial'[p] = NoFile =>
                \/ final'[p] = partial[p]
                \/ \E c \in Conns :
                      /\ rcv'[c].pc # rcv[c].pc
                      /\ LET d == data[partial[p]]
                             f == snd[c].file
                         IN  rcv[c].flag \/ Len(d) > Len(f) \/ SubSeq(f, 1, Len(d)) # d
<1>1. TypeOK /\ OneAttempt /\ InStep /\ SameSource /\ Content /\ [Next]_vars
        => [\A p \in Paths : ForAReason(p)]_vars
  <2> SUFFICES ASSUME TypeOK, OneAttempt, InStep, SameSource, Content, Next,
                      NEW p \in Paths, partial[p] # NoFile, partial'[p] = NoFile
               PROVE  ForAReason(p)
    OBVIOUS
  <2>1. PICK c \in Conns : UserStep(c) \/ SenderStep(c) \/ ReceiverStep(c) \/ Lose(c)
    BY DEF Next, EditSource, dirVars
  <2>2. ReceiverStep(c)
    <3>1. ASSUME OutsideStep(c) \/ SenderStep(c) \/ StartSend(c) PROVE partial' = partial
      BY <3>1, OutsideFrame, SenderFrame DEF StartSend, OneAttempt, dirVars
    <3> QED
      BY <2>1, <3>1 DEF UserStep, OutsideStep
  <2> QED
    BY <2>2, WhyPartialGoes
<1> QED
  BY <1>1, TypeCorrect, OneAttemptAtATime, AlwaysInStep, SameSourceHolds, ContentHolds, PTL
     DEF Spec, PartialSurvives

\* Taking a message that is no Cancel leaves the Cancel behind it.
LEMMA CancelStays ==
    ASSUME TypeOK, NEW c \in Conns, CancelOnItsWay(c), toR[c] # <<>>,
           Head(toR[c]).type # "Cancel", toR' = Taken(toR, c)
    PROVE  CancelOnItsWay(c)'
<1>0. /\ toR[c] \in Seq(ToReceiver) /\ Len(toR[c]) \in Nat /\ Head(toR[c]) = toR[c][1]
      /\ toR'[c] = Tail(toR[c])
  BY LenProperties DEF TypeOK, Taken
<1>1. /\ Len(toR'[c]) = Len(toR[c]) - 1
      /\ \A k \in 1..Len(toR'[c]) : toR'[c][k] = toR[c][k + 1]
  BY <1>0
<1>2. PICK k \in 1..Len(toR[c]) : toR[c][k].type = "Cancel"
  BY DEF CancelOnItsWay
<1>3. k # 1
  BY <1>0, <1>2
<1>4. k - 1 \in 1..Len(toR'[c]) /\ toR'[c][k - 1] = toR[c][(k - 1) + 1]
  BY <1>0, <1>1, <1>2, <1>3
<1>5. toR'[c][k - 1].type = "Cancel"
  BY <1>2, <1>4
<1> QED
  BY <1>4, <1>5 DEF CancelOnItsWay

\* A paused sender puts a Cancel on its way before it goes.
LEMMA SenderTellsPause ==
    ASSUME TypeOK, NEW c \in Conns, PauseTold(c), SenderStep(c)
    PROVE  PauseTold(c)'
<1>0. snd[c].pc # "done" /\ rcv' = rcv /\ lost' = lost
  BY SenderFrame DEF netVars
<1>1. rcv[c].hist = "Failed" => c \in lost
  BY <1>0 DEF PauseTold
<1>2. CASE RecvAccept(c) \/ RecvStop(c) \/ SeeCancel(c) \/ SendChunk(c) \/ ChunkSent(c)
             \/ SendComplete(c) \/ RecvVerify(c) \/ SendFails(c)
  <2>1. snd'[c].pc \notin {"ack", "done"}
    BY <1>2 DEF RecvAccept, RecvStop, SeeCancel, SendChunk, ChunkSent, SendComplete, RecvVerify,
                SendFails, Returned, TypeOK, SendRec
  <2> QED
    BY <1>0, <1>1, <2>1 DEF PauseTold
<1>3. CASE AfterSend(c)
  <2>1. /\ snd'[c].task = snd[c].task
        /\ \/ snd'[c].pc = "finish"
           \/ /\ snd[c].task = "Paused" /\ snd'[c].pc = "ack"
              /\ TellReceiver(c, CancelMsg("paused"))
    BY <1>3 DEF AfterSend, TypeOK, SendRec
  <2>2. CASE snd'[c].pc = "finish"
    BY <1>0, <1>1, <2>2 DEF PauseTold
  <2>3. CASE snd'[c].pc = "ack"
    <3>1. c \in lost \/ rcv[c].pc = "done" \/ CancelOnItsWay(c)'
      <4>1. CASE ReceiverGone(c)
        BY <4>1 DEF ReceiverGone
      <4>2. CASE ~ReceiverGone(c)
        <5>1. toR'[c] = Append(toR[c], CancelMsg("paused")) /\ toR[c] \in Seq(ToReceiver)
          BY <2>1, <2>3, <4>2 DEF TellReceiver, TypeOK
        <5>2. /\ Len(toR[c]) + 1 \in 1..Len(toR'[c])
              /\ toR'[c][Len(toR[c]) + 1] = CancelMsg("paused")
          BY <5>1, LenProperties
        <5> QED
          BY <5>2 DEF CancelOnItsWay, CancelMsg
      <4> QED
        BY <4>1, <4>2
    <3> QED
      BY <1>0, <1>1, <2>1, <2>3, <3>1 DEF PauseTold
  <2> QED
    BY <2>1, <2>2, <2>3
<1>4. CASE PauseAcked(c)
  <2>1. snd[c].pc = "ack" /\ snd'[c].pc = "done" /\ snd'[c].task = snd[c].task /\ toR' = toR
    BY <1>4, SendEndsWith DEF PauseAcked
  <2> QED
    BY <1>0, <1>1, <2>1 DEF PauseTold, CancelOnItsWay
<1>5. CASE FinishSend(c)
  <2>1. snd'[c].pc = "done" /\ snd'[c].task \in {"Removed", Outcome(snd[c].res)}
    BY <1>5, SendEndsWith DEF FinishSend
  <2>2. Outcome(snd[c].res) \notin {"Active", "Paused"}
    BY DEF Outcome
  <2> QED
    BY <1>0, <1>1, <2>1, <2>2 DEF PauseTold
<1> QED
  BY <1>2, <1>3, <1>4, <1>5 DEF SenderStep

\* Users and network do not take that Cancel away while the connection holds.
LEMMA OutsideTellsPause ==
    ASSUME TypeOK, OneAttempt, NEW c \in Conns, PauseTold(c), OutsideStep(c) \/ StartSend(c)
    PROVE  PauseTold(c)'
<1>1. CASE StartSend(c)
  <2>1. /\ snd[c].pc = "idle" /\ snd'[c].pc = "accept" /\ rcv' = rcv /\ lost' = lost
    BY <1>1 DEF StartSend, MayStart, TypeOK, SendRec, netVars
  <2> QED
    BY <2>1 DEF PauseTold
<1>2. CASE OutsideStep(c)
  <2>1. /\ snd'[c].pc = snd[c].pc
        /\ \/ snd'[c].task = snd[c].task
           \/ snd'[c].task \in {"Paused", "Cancelled"} /\ snd[c].task = "Active"
           \/ snd'[c].task = "Removed" /\ snd[c].pc # "done"
        /\ rcv'[c].pc = rcv[c].pc /\ rcv'[c].hist = rcv[c].hist
    BY <1>2, OutsideFrame DEF OneAttempt
  <2>2. c \in lost' \/ (toR' = toR /\ lost' = lost)
    BY <1>2 DEF OutsideStep, PauseSend, CancelSend, Stop, RemoveSend, UserAccept, UserReject,
                CancelRecv, RemoveRecv, Lose, netVars
  <2> QED
    BY <2>1, <2>2 DEF PauseTold, CancelOnItsWay
<1> QED
  BY <1>1, <1>2

\* A receiver that fails was left without a word.
LEMMA ReceiverHearsPause ==
    ASSUME ~DiskFails, TypeOK, OneAttempt, InStep, SameSource, Content, NEW c \in Conns,
           PauseTold(c), ReceiverStep(c)
    PROVE  PauseTold(c)'
<1>0. snd' = snd /\ lost' = lost /\ rcv[c].hist = "none"
  BY ReceiverFrame DEF OneAttempt, Unended
<1>1. ASSUME rcv'[c].pc = "done", rcv'[c].hist # "Failed" PROVE PauseTold(c)'
  BY <1>0, <1>1 DEF PauseTold
<1>2. ASSUME rcv'[c].hist = "none",
             CancelOnItsWay(c) => rcv'[c].pc \in {"hash", "rename"} \/ CancelOnItsWay(c)',
             rcv[c].pc \in {"hash", "rename"} => rcv'[c].pc \in {"hash", "rename"},
             rcv[c].pc # "done"
      PROVE  PauseTold(c)'
  BY <1>0, <1>2 DEF PauseTold
<1>3. CASE OfferFiltered(c) \/ OfferDuplicate(c) \/ OfferLost(c) \/ Refused(c)
  BY <1>1, <1>3, RecvEndsWith DEF OfferFiltered, OfferDuplicate, OfferLost, Refused
<1>4. CASE RecvPause(c) \/ RecvSeesCancel(c)
  BY <1>1, <1>4, RecvEndsWith DEF RecvPause, RecvSeesCancel, RecvError, Recorded, ErrorRecord,
                                  ErrorStatus
<1>5. CASE Finalize(c)
  BY <1>1, <1>5, RecvEndsWith DEF Finalize, Recorded
<1>6. CASE RecvBroken(c)
  <2>1. /\ rcv[c].pc = "recv" /\ rcv'[c].pc = "done" /\ toR[c] = <<>> /\ SenderGone(c)
    BY <1>6, RecvEndsWith, NothingGoesWrong DEF RecvBroken, RecvError, Receiving
  <2>2. ~CancelOnItsWay(c)
    BY <2>1, EmptySeq DEF CancelOnItsWay
  <2>3. c \notin lost => snd[c].pc = "done" /\ snd[c].task # "Paused"
    BY <2>1, <2>2 DEF SenderGone, PauseTold
  <2> QED
    BY <1>0, <2>1, <2>3 DEF PauseTold
<1>7. ~HashDiffers(c) /\ ~HashFails(c) /\ ~FinalizeFails(c)
  BY NothingGoesWrong
<1>8. CASE OfferPlanned(c) \/ RecvChunk(c) \/ RecvComplete(c)
  <2>1. /\ toR[c] # <<>> /\ Head(toR[c]).type # "Cancel" /\ toR' = Taken(toR, c)
        /\ rcv'[c].hist = rcv[c].hist /\ rcv[c].pc \in {"idle", "recv"}
    BY <1>8 DEF OfferPlanned, RecvChunk, RecvComplete, GotOffer, Receiving, ReceiverGets, TypeOK,
                RecvRec
  <2>2. CancelOnItsWay(c) => CancelOnItsWay(c)'
    BY <2>1, CancelStays
  <2> QED
    BY <1>0, <1>2, <2>1, <2>2
<1>9. CASE Accepted(c) \/ OpenPartial(c) \/ HashOK(c)
  <2>1. /\ toR' = toR /\ rcv'[c].hist = rcv[c].hist /\ rcv[c].pc \in {"confirm", "open", "hash"}
        /\ rcv[c].pc = "hash" => rcv'[c].pc = "rename"
    <3>1. CASE Accepted(c) \/ OpenPartial(c)
      BY <3>1 DEF Accepted, OpenPartial, TypeOK, RecvRec
    <3>2. CASE HashOK(c)
      BY <3>2 DEF HashOK, TypeOK, RecvRec
    <3> QED
      BY <1>9, <3>1, <3>2
  <2> QED
    BY <1>0, <1>2, <2>1 DEF CancelOnItsWay
<1>10. CASE PollDropsChunk(c)
  <2>1. snd[c].pc = "chunk" /\ rcv' = rcv
    BY <1>10 DEF PollDropsChunk
  <2> QED
    BY <1>0, <2>1 DEF PauseTold
<1> QED
  BY <1>3, <1>4, <1>5, <1>6, <1>7, <1>8, <1>9, <1>10 DEF ReceiverStep

\* A pause that was carried out leaves no failure record on the receiver while the
\* connection holds: the sender's Cancel is on its way until the receiver has read
\* it, verified everything, or ended before.
THEOREM PausesAreNoFailures ==
    ASSUME ~Overlap, ~DiskFails, MaxEdits = 0
    PROVE  Spec => []PauseLeavesNoFailure
<1> DEFINE AllTold == \A c \in Conns : PauseTold(c)
<1>1. Init => AllTold
  BY DEF Init, NewSend, NewRecv, PauseTold
<1>2. TypeOK /\ OneAttempt /\ InStep /\ SameSource /\ Content /\ AllTold /\ [Next]_vars
        => AllTold'
  <2> SUFFICES ASSUME TypeOK, OneAttempt, InStep, SameSource, Content, AllTold, [Next]_vars,
                      NEW c \in Conns
               PROVE  PauseTold(c)'
    OBVIOUS
  <2>0. PauseTold(c)
    OBVIOUS
  <2>1. CASE UNCHANGED vars \/ EditSource
    BY <2>0, <2>1 DEF vars, EditSource, netVars, PauseTold, CancelOnItsWay
  <2>2. ASSUME NEW d \in Conns, UserStep(d) \/ SenderStep(d) \/ ReceiverStep(d) \/ Lose(d)
        PROVE  PauseTold(c)'
    <3>1. CASE c # d
      BY <2>0, <2>2, <3>1, OthersUnseen DEF SameView, PauseTold, CancelOnItsWay
    <3>2. CASE c = d
      BY <2>0, <2>2, <3>2, SenderTellsPause, OutsideTellsPause, ReceiverHearsPause
         DEF UserStep, OutsideStep
    <3> QED
      BY <3>1, <3>2
  <2> QED
    BY <2>1, <2>2 DEF Next
<1>3. AllTold => PauseLeavesNoFailure
  BY DEF PauseTold, PauseLeavesNoFailure
<1> QED
  BY <1>1, <1>2, <1>3, TypeCorrect, OneAttemptAtATime, AlwaysInStep, SameSourceHolds,
     ContentHolds, PTL DEF Spec
=============================================================================
