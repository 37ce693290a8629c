------------------------- MODULE TransferTasksProofs -------------------------
(***************************************************************************)
(* What TLC checks of the task table on one offer and two sends, for any   *)
(* offers, number of sends, permits and clicks: the types, the table of    *)
(* open questions, and the pauses that the history does not call           *)
(* cancelled.                                                              *)
(***************************************************************************)
EXTENDS TransferTasks, FiniteSetTheorems, TLAPS

-----------------------------------------------------------------------------
(* The invariants.                                                         *)

\* Ids are given out in order; an id that was not given out has no trace.
FreshIds ==
    /\ \A i \in Ids : i >= nextId => owner[i] = None
    /\ \A i \in Ids : owner[i] = None =>
         st[i] = None /\ hist[i] = None /\ res[i] = None /\ i \notin raised

\* Coroutines and commands work on tasks, a sending one and a pause on a send.
OwnIds ==
    /\ \A i \in Ids : run[i] # None => owner[i] = "send"
    /\ \A k \in DOMAIN line : owner[line[k]] = "send"
    /\ \A o \in Offers : rcv[o].pc # None => owner[rcv[o].id] = o
    /\ cmd # NoCmd => owner[cmd.id] # None /\ (cmd.op = "pause" => owner[cmd.id] = "send")

\* A question that nobody saw has no answer.
NotYetAsked == \A o \in Offers : rcv[o].pc \in {None, "new"} => answer[o] = None

\* Nothing has asked send i to stop, nor does its result say so.
Unstopped(i) == i \notin raised /\ res[i] # "cancel" /\ hist[i] # "Cancelled"

On(op, i) == cmd.op = op /\ cmd.id = i

\* file_pause has nothing to stop before its first step, and leaves no active task
\* behind; only a cancellation stops an active send.  So a paused send does not end
\* as cancelled.
PauseFirst ==
    \A i \in Ids : owner[i] = "send" =>
        /\ On("pause", i) /\ cmd.step = 1 => Unstopped(i)
        /\ On("pause", i) /\ cmd.step > 1 => st[i] # "Active"
        /\ st[i] = "Active" => Unstopped(i) \/ (On("cancel", i) /\ cmd.step > 1)
        /\ st[i] = "Paused" => res[i] # "cancel" /\ hist[i] # "Cancelled"

\* The popups have ids apart.
PopupsApart ==
    \A k, l \in DOMAIN popups : sid[popups[k]] = sid[popups[l]] => k = l
-----------------------------------------------------------------------------
(* Types.                                                                  *)

USE DEF None

\* The number of offers is a number.
LEMMA OffersCounted == Cardinality(Offers) \in Nat /\ Sends \in Nat /\ MaxClicks \in Nat
BY ConstantsOK, FS_CardinalityType

\* At the start the table is empty.
LEMMA TypeInit == Init => TypeOK
<1> SUFFICES ASSUME Init PROVE TypeOK
    OBVIOUS
<1>1. nextId \in 1..(Sends + Cardinality(Offers) + 1) /\ clicks \in 0..MaxClicks
  BY OffersCounted DEF Init
<1>2. rcv \in [Offers -> [pc : {None, "new", "wait", "recv", "closing", "done"}, id : Ids]]
  <2>1. ASSUME NEW o \in Offers PROVE 1 \in Ids
    <3>1. Cardinality(Offers) # 0
      BY ConstantsOK, FS_EmptySet
    <3>2. QED BY <3>1, OffersCounted DEF Ids
  <2>2. QED BY <2>1 DEF Init
<1>3. popups \in Seq(Offers) /\ line \in Seq(Ids)
  BY DEF Init
<1>4. cmd \in Command
  BY DEF Init, Command
<1>5. QED
  BY <1>1, <1>2, <1>3, <1>4 DEF Init, TypeOK, Status, Results, SendPC

\* Taking out a popup leaves popups.
LEMMA WithoutTyped == ASSUME TypeOK, NEW i PROVE Without(i) \in Seq(Offers)
<1>1. CASE Shown(i) = {}
  BY <1>1 DEF Without, TypeOK
<1>2. CASE Shown(i) # {}
  <2> DEFINE k == CHOOSE l \in Shown(i) : TRUE
  <2>1. k \in Shown(i)
    BY <1>2
  <2>2. k \in 1..Len(popups)
    BY <2>1 DEF Shown, TypeOK
  <2>3. Without(i) = RemoveAt(popups, k)
    BY <1>2 DEF Without
  <2>. HIDE DEF k
  <2>4. QED BY <2>2, <2>3 DEF RemoveAt, TypeOK
<1>3. QED BY <1>1, <1>2

\* The event of a task takes out popups and adds none.
LEMMA EmittedTyped == ASSUME TypeOK, NEW i, NEW s PROVE Emitted(i, s) \in Seq(Offers)
BY WithoutTyped DEF Emitted, TypeOK

\* A status, or a record, of a task is one.
LEMMA UpdatedTyped ==
    ASSUME TypeOK, NEW i, NEW s \in Status
    PROVE  Updated(i, s) \in [Ids -> Status] /\ Recorded(i, s) \in [Ids -> Status]
BY DEF Updated, Recorded, TypeOK

\* What a coroutine returns becomes a status.
LEMMA OutcomeTyped == \A r : Outcome(r) \in {"Completed", "Cancelled", "Failed"}
BY DEF Outcome

\* A task is enqueued under the next id.
LEMMA EnqueueTyped ==
    ASSUME TypeOK, NEW who \in {"send"} \union Offers, Enqueue(who)
    PROVE  /\ nextId' \in 1..(Sends + Cardinality(Offers) + 1)
           /\ owner' \in [Ids -> {None, "send"} \union Offers]
BY OffersCounted DEF TypeOK, Enqueue, Ids

\* A decision answers the one whose question is open under the id.
LEMMA DecideTyped ==
    ASSUME TypeOK, NEW i, NEW a \in {"accept", "reject", "cancelled", "dropped"}, Decide(i, a)
    PROVE  /\ pending' \in [Ids -> {None} \union Offers]
           /\ answer' \in [Offers -> {None, "accept", "reject", "cancelled", "dropped"}]
BY DEF TypeOK, Decide

\* Each command has three parts.
Parts == [pause |-> {<<1, "paused">>, <<2, "flag">>, <<3, "refuse">>},
          cancel |-> {<<1, "flag">>, <<2, "refuse">>, <<3, "cancelled">>},
          remove |-> {<<1, "forgetFlag">>, <<2, "forgetPending">>, <<3, "forgetTask">>}]

\* A command is at one of its parts, and at the next one, or over, afterwards.
LEMMA CommandGoes ==
    ASSUME TypeOK, NEW part, Doing(part), NextPart
    PROVE  /\ cmd # NoCmd
           /\ cmd \in [op : {"pause", "cancel", "remove"}, id : Ids, step : 1..3]
           /\ <<cmd.step, part>> \in Parts[cmd.op]
           /\ \/ cmd' = NoCmd /\ cmd.step = 3
              \/ /\ cmd' = [op |-> cmd.op, id |-> cmd.id, step |-> cmd.step + 1]
                 /\ cmd.step \in 1..2
           /\ cmd' \in Command
<1>1. cmd # NoCmd /\ Script[cmd.op][cmd.step] = part
  BY DEF Doing
<1>2. cmd \in [op : {"pause", "cancel", "remove"}, id : Ids, step : 1..3]
  BY <1>1 DEF TypeOK, Command
<1>3. Len(Script[cmd.op]) = 3
  BY <1>2 DEF Script
<1>4. <<cmd.step, part>> \in Parts[cmd.op]
  BY <1>1, <1>2 DEF Script, Parts
<1>5. CASE cmd.step = 3
  BY <1>1, <1>2, <1>3, <1>4, <1>5 DEF NextPart, Command
<1>6. CASE cmd.step # 3
  <2>1. cmd' = [cmd EXCEPT !.step = cmd.step + 1] /\ cmd.step \in 1..2
    BY <1>2, <1>3, <1>6 DEF NextPart
  <2>2. cmd' = [op |-> cmd.op, id |-> cmd.id, step |-> cmd.step + 1]
    BY <1>2, <2>1
  <2>3. QED BY <1>1, <1>2, <1>4, <2>1, <2>2 DEF Command
<1>7. QED BY <1>5, <1>6

\* The front end.
LEMMA TypeFrontEnd ==
    ASSUME TypeOK, AnswerShown \/ CountdownEnds \/ Click \/ CommandStep
    PROVE  TypeOK'
<1>1. ASSUME NEW a \in {"accept", "reject"}, Answer(a) PROVE TypeOK'
  <2>1. Decide(sid[Head(popups)], a) /\ popups' = Without(sid[Head(popups)])
    BY <1>1 DEF Answer
  <2>2. /\ pending' \in [Ids -> {None} \union Offers]
        /\ answer' \in [Offers -> {None, "accept", "reject", "cancelled", "dropped"}]
    BY <2>1, DecideTyped
  <2>3. popups' \in Seq(Offers)
    BY <2>1, WithoutTyped
  <2>4. QED BY <1>1, <2>2, <2>3 DEF Answer, TypeOK, sendVars
<1>2. CASE CountdownEnds
  <2>1. popups' \in Seq(Offers) /\ expired' \in BOOLEAN
    BY <1>2 DEF CountdownEnds, TypeOK
  <2>2. QED BY <1>2, <2>1 DEF CountdownEnds, TypeOK, sendVars, askVars
<1>3. CASE Click
  <2>0. PICK i \in Ids : \E op \in Buttons(i) : cmd' = [op |-> op, id |-> i, step |-> 1]
    BY <1>3 DEF Click
  <2>1. PICK op \in Buttons(i) : cmd' = [op |-> op, id |-> i, step |-> 1]
    BY <2>0
  <2>2. op \in {"pause", "cancel", "remove"}
    BY <2>1 DEF Buttons
  <2>3. cmd' \in Command /\ clicks' \in 0..MaxClicks
    BY <1>3, <2>1, <2>2, OffersCounted DEF Click, Command, TypeOK
  <2>4. QED BY <1>3, <2>3 DEF Click, TypeOK, sendVars, askVars
<1>4. ASSUME NEW part, NEW s \in {"Paused", "Cancelled", "Removed"}, SetStatus(part, s)
      PROVE  TypeOK'
  <2>1. st' \in [Ids -> Status] /\ popups' \in Seq(Offers)
    BY <1>4, UpdatedTyped, EmittedTyped DEF SetStatus, Status, Final
  <2>2. cmd' \in Command
    BY <1>4, CommandGoes DEF SetStatus
  <2>3. QED BY <1>4, <2>1, <2>2 DEF SetStatus, TypeOK, sendVars, askVars
<1>5. CASE RaiseFlag
  <2>1. cmd' \in Command
    BY <1>5, CommandGoes DEF RaiseFlag
  <2>2. QED BY <1>5, <2>1 DEF RaiseFlag, TypeOK, sendVars, askVars
<1>6. CASE ForgetFlag
  <2>1. cmd' \in Command
    BY <1>6, CommandGoes DEF ForgetFlag
  <2>2. QED BY <1>6, <2>1 DEF ForgetFlag, TypeOK, sendVars, askVars
<1>7. ASSUME NEW part, NEW a \in {"cancelled", "dropped"}, CloseQuestion(part, a)
      PROVE  TypeOK'
  <2>1. /\ pending' \in [Ids -> {None} \union Offers]
        /\ answer' \in [Offers -> {None, "accept", "reject", "cancelled", "dropped"}]
    BY <1>7, DecideTyped DEF CloseQuestion
  <2>2. cmd' \in Command
    BY <1>7, CommandGoes DEF CloseQuestion
  <2>3. QED BY <1>7, <2>1, <2>2 DEF CloseQuestion, TypeOK, sendVars
<1>8. QED BY <1>1, <1>2, <1>3, <1>4, <1>5, <1>6, <1>7 DEF AnswerShown, CommandStep

\* The coroutine of a send.
LEMMA TypeSends ==
    ASSUME TypeOK, FileSend \/ \E i \in Ids : SendStep(i)
    PROVE  TypeOK'
<1> USE DEF askVars
<1>1. CASE FileSend
  <2>1. /\ nextId' \in 1..(Sends + Cardinality(Offers) + 1)
        /\ owner' \in [Ids -> {None, "send"} \union Offers]
    BY <1>1, EnqueueTyped DEF FileSend
  <2>2. QED BY <1>1, <2>1 DEF FileSend, TypeOK, Status, SendPC
<1>2. ASSUME NEW i \in Ids, Spawn(i) PROVE TypeOK'
  BY <1>2 DEF Spawn, TypeOK, SendPC
<1>3. ASSUME NEW i \in Ids, Acquire(i) PROVE TypeOK'
  BY <1>3 DEF Acquire, TypeOK, SendPC
<1>4. ASSUME NEW i \in Ids, ConnectFails(i) PROVE TypeOK'
  BY <1>4 DEF ConnectFails, TypeOK, SendPC, Results
<1>5. ASSUME NEW i \in Ids, SendReturns(i) PROVE TypeOK'
  BY <1>5 DEF SendReturns, TypeOK, SendPC, Results
<1>6. ASSUME NEW i \in Ids, SendPaused(i) PROVE TypeOK'
  BY <1>6 DEF SendPaused, SendOver, TypeOK, SendPC, Results
<1>7. ASSUME NEW i \in Ids, FinishSend(i) PROVE TypeOK'
  <2>1. /\ st' \in [Ids -> Status] /\ hist' \in [Ids -> Status]
        /\ popups' \in Seq(Offers)
    BY <1>7, OutcomeTyped, UpdatedTyped, EmittedTyped DEF FinishSend, Status, Final
  <2>2. QED BY <1>7, <2>1 DEF FinishSend, SendOver, TypeOK, SendPC, Results
<1>8. QED BY <1>1, <1>2, <1>3, <1>4, <1>5, <1>6, <1>7 DEF SendStep

\* Where the coroutine of an offer can be.
OfferPC == {None, "new", "wait", "recv", "closing", "done"}

\* It gets from one place to another, and keeps its id.
LEMMA OfferGoes ==
    ASSUME TypeOK, NEW o \in Offers, NEW pc \in OfferPC, Goes(o, pc)
    PROVE  /\ rcv' \in [Offers -> [pc : OfferPC, id : Ids]]
           /\ rcv'[o] = [pc |-> pc, id |-> rcv[o].id]
           /\ \A q \in Offers \ {o} : rcv'[q] = rcv[q]
<1>1. rcv \in [Offers -> [pc : OfferPC, id : Ids]]
  BY DEF TypeOK, OfferPC
<1>2. rcv' = [rcv EXCEPT ![o].pc = pc]
  BY DEF Goes
<1>3. rcv'[o] = [pc |-> pc, id |-> rcv[o].id]
  BY <1>1, <1>2
<1>4. \A q \in Offers \ {o} : rcv'[q] = rcv[q]
  BY <1>1, <1>2
<1>5. rcv' \in [Offers -> [pc : OfferPC, id : Ids]]
  BY <1>1, <1>2
<1>6. QED BY <1>3, <1>4, <1>5

\* The coroutine of an offer.
LEMMA TypeOffers ==
    ASSUME TypeOK, NEW o \in Offers, OfferArrives(o) \/ OfferStep(o)
    PROVE  TypeOK'
<1> USE DEF sendVars
<1>0. \A pc \in OfferPC : Goes(o, pc) => rcv' \in [Offers -> [pc : OfferPC, id : Ids]]
  BY OfferGoes
<1>1. rcv[o].id \in Ids
  BY DEF TypeOK
<1>2. CASE OfferArrives(o)
  <2>1. /\ nextId' \in 1..(Sends + Cardinality(Offers) + 1)
        /\ owner' \in [Ids -> {None, "send"} \union Offers] /\ nextId \in Ids
    BY <1>2, EnqueueTyped DEF OfferArrives, Enqueue
  <2>2. QED BY <1>2, <2>1 DEF OfferArrives, TypeOK, Status
<1>3. CASE Ask(o)
  <2>1. popups' \in Seq(Offers)
    BY <1>3 DEF Ask, TypeOK
  <2>2. QED BY <1>0, <1>1, <1>3, <2>1 DEF Ask, OfferPC, TypeOK
<1>4. CASE AutoAccepted(o) \/ Accepted(o)
  <2>1. st' \in [Ids -> Status]
    BY <1>4, UpdatedTyped DEF AutoAccepted, Accepted, Status
  <2>2. QED BY <1>0, <1>1, <1>4, <2>1 DEF AutoAccepted, Accepted, OfferPC, TypeOK, askVars
<1>5. CASE Refused(o) \/ TimesOut(o)
  BY <1>0, <1>5 DEF Refused, TimesOut, OfferPC, TypeOK
<1>6. CASE Rejected(o)
  <2>1. st' \in [Ids -> Status] /\ popups' \in Seq(Offers)
    BY <1>6, UpdatedTyped, EmittedTyped DEF Rejected, Status, Final
  <2>2. QED BY <1>0, <1>1, <1>6, <2>1 DEF Rejected, OfferPC, Forget, TypeOK
<1>7. CASE ReceiveEnds(o)
  <2>1. /\ st' \in [Ids -> Status] /\ hist' \in [Ids -> Status]
        /\ popups' \in Seq(Offers)
    BY <1>7, UpdatedTyped, EmittedTyped DEF ReceiveEnds, Status, Final, TypeOK
  <2>2. QED BY <1>0, <1>1, <1>7, <2>1 DEF ReceiveEnds, OfferPC, Forget, TypeOK
<1>8. QED BY <1>2, <1>3, <1>4, <1>5, <1>6, <1>7 DEF OfferStep

\* Each step keeps the types.
LEMMA TypeStep == TypeOK /\ [Next]_vars => TypeOK'
<1> SUFFICES ASSUME TypeOK, [Next]_vars PROVE TypeOK'
    OBVIOUS
<1>1. CASE UNCHANGED vars
  BY <1>1 DEF vars, sendVars, askVars, TypeOK
<1>2. QED
  BY <1>1, TypeFrontEnd, TypeSends, TypeOffers DEF Next

\* Every variable keeps its type, for any offers, sends, permits and clicks.
THEOREM TypeCorrect == Spec => []TypeOK
BY TypeInit, TypeStep, PTL DEF Spec

-----------------------------------------------------------------------------
(* Questions.                                                              *)

\* An offer whose coroutine goes on from where it was.
LEMMA OnlyThere ==
    ASSUME TypeOK, NEW o \in Offers, OfferStep(o)
    PROVE  \E pc \in OfferPC : Goes(o, pc) /\ rcv[o].pc # None
BY DEF OfferStep, Ask, AutoAccepted, Accepted, Refused, TimesOut, Rejected,
   ReceiveEnds, At, OfferPC

\* At the start there are no questions.
LEMMA QuestionsInit == Init => PendingHasWaiter /\ NotYetAsked
BY DEF Init, PendingHasWaiter, NotYetAsked

\* The answer goes to the one coroutine whose question it is.
LEMMA QuestionDecided ==
    ASSUME TypeOK, PendingHasWaiter, NotYetAsked, NEW i \in Ids, NEW a, Decide(i, a),
           rcv' = rcv
    PROVE  PendingHasWaiter' /\ NotYetAsked'
<1>1. NotYetAsked'
  BY DEF Decide, NotYetAsked, At, TypeOK
<1>2. ASSUME NEW j \in Ids, pending'[j] # None
      PROVE  pending'[j] = pending[j] /\ answer'[pending[j]] = answer[pending[j]]
  <2>1. j # i /\ pending[j] = pending'[j] /\ pending[j] \in Offers
    BY <1>2 DEF Decide, TypeOK
  <2>2. pending[i] # pending[j]
    BY <1>2, <2>1 DEF PendingHasWaiter
  <2>3. QED BY <2>1, <2>2 DEF Decide, TypeOK
<1>3. QED BY <1>1, <1>2 DEF PendingHasWaiter

\* Each step keeps the table of questions.
LEMMA QuestionsStep ==
    TypeOK /\ PendingHasWaiter /\ NotYetAsked /\ [Next]_vars
        => PendingHasWaiter' /\ NotYetAsked'
<1> SUFFICES ASSUME TypeOK, PendingHasWaiter, NotYetAsked, [Next]_vars
             PROVE  PendingHasWaiter' /\ NotYetAsked'
    OBVIOUS
<1>1. CASE UNCHANGED askVars
  BY <1>1 DEF askVars, PendingHasWaiter, NotYetAsked
<1>2. CASE AnswerShown
  <2>1. PICK a : Answer(a)
    BY <1>2 DEF AnswerShown
  <2>2. Head(popups) \in Offers /\ sid[Head(popups)] \in Ids
    BY <2>1 DEF Answer, TypeOK
  <2>3. QED BY <2>1, <2>2, QuestionDecided DEF Answer
<1>3. CASE CommandStep
  <2>1. CASE UNCHANGED askVars
    BY <1>1, <2>1
  <2>2. ASSUME NEW part, NEW a, CloseQuestion(part, a)
        PROVE  PendingHasWaiter' /\ NotYetAsked'
    <3>1. cmd.id \in Ids
      BY <2>2, CommandGoes DEF CloseQuestion
    <3>2. QED BY <2>2, <3>1, QuestionDecided DEF CloseQuestion
  <2>3. QED
    BY <1>3, <2>1, <2>2 DEF CommandStep, SetStatus, RaiseFlag, ForgetFlag
<1>4. ASSUME NEW o \in Offers, OfferArrives(o) PROVE PendingHasWaiter' /\ NotYetAsked'
  <2>1. /\ rcv[o].pc = None /\ pending' = pending /\ answer' = answer
        /\ rcv' = [rcv EXCEPT ![o] = [pc |-> "new", id |-> nextId]]
    BY <1>4 DEF OfferArrives, At
  <2>2. QED BY <2>1 DEF PendingHasWaiter, NotYetAsked, TypeOK
<1>5. ASSUME NEW o \in Offers, OfferStep(o) PROVE PendingHasWaiter' /\ NotYetAsked'
  <2>1. PICK pc \in OfferPC : Goes(o, pc)
    BY <1>5, OnlyThere
  <2>2. /\ rcv[o].id \in Ids /\ rcv'[o] = [pc |-> pc, id |-> rcv[o].id]
        /\ \A q \in Offers \ {o} : rcv'[q] = rcv[q]
    BY <2>1, OfferGoes DEF TypeOK
  <2>3. answer' = answer /\ \A x \in OfferPC : Goes(o, x) => rcv'[o].pc = x
    <3>1. answer' = answer
      BY <1>5 DEF OfferStep, Ask, AutoAccepted, Accepted, Refused, TimesOut, Rejected,
         ReceiveEnds
    <3>2. ASSUME NEW x \in OfferPC, Goes(o, x) PROVE rcv'[o].pc = x
      <4>1. rcv'[o] = [pc |-> x, id |-> rcv[o].id]
        BY <3>2, OfferGoes
      <4>2. QED BY <4>1
    <3>3. QED BY <3>1, <3>2
  <2>4. \A j \in Ids : pending[j] = o => j = rcv[o].id /\ rcv[o].pc \in {"wait", "closing"}
                                         /\ answer[o] = None
    BY ConstantsOK DEF PendingHasWaiter
  <2>5. ASSUME NEW j \in Ids, pending[j] \notin {None, o}
        PROVE  /\ rcv'[pending[j]].id = j /\ rcv'[pending[j]].pc \in {"wait", "closing"}
               /\ answer'[pending[j]] = None
    BY <2>2, <2>3, <2>5 DEF PendingHasWaiter, TypeOK
  <2>6. /\ \A j \in Ids : pending'[j] \in {None, o} \/ pending'[j] = pending[j]
        /\ \A j \in Ids : pending'[j] = o =>
             rcv'[o].id = j /\ rcv'[o].pc \in {"wait", "closing"} /\ answer'[o] = None
    <3>1. CASE Ask(o)
      <4>1. rcv[o].pc = "new" /\ rcv'[o].pc = "wait" /\ answer[o] = None
        BY <2>3, <3>1 DEF Ask, At, NotYetAsked, OfferPC
      <4>2. pending' = [pending EXCEPT ![rcv[o].id] = o]
        BY <3>1 DEF Ask
      <4>3. QED BY <2>2, <2>3, <2>4, <4>1, <4>2 DEF TypeOK
    <3>2. CASE AutoAccepted(o) \/ Accepted(o) \/ Refused(o)
      <4>1. (rcv[o].pc = "new" \/ answer[o] # None) /\ pending' = pending
        BY <3>2 DEF AutoAccepted, Accepted, Refused, At
      <4>2. QED BY <2>4, <4>1
    <3>3. CASE TimesOut(o)
      <4>1. rcv'[o].pc = "closing" /\ pending' = pending
        BY <2>3, <3>3 DEF TimesOut, OfferPC
      <4>2. QED BY <2>2, <2>3, <2>4, <4>1
    <3>4. CASE Rejected(o) \/ ReceiveEnds(o)
      <4>1. pending' = [pending EXCEPT ![rcv[o].id] = None]
        BY <3>4 DEF Rejected, ReceiveEnds, Forget
      <4>2. QED BY <2>2, <2>4, <4>1, ConstantsOK DEF TypeOK
    <3>5. QED BY <1>5, <3>1, <3>2, <3>3, <3>4 DEF OfferStep
  <2>7. PendingHasWaiter'
    BY <2>5, <2>6 DEF PendingHasWaiter
  <2>8. NotYetAsked'
    <3>1. rcv'[o].pc \notin {None, "new"}
      BY <1>5, <2>3 DEF OfferStep, Ask, AutoAccepted, Accepted, Refused, TimesOut, Rejected,
         ReceiveEnds, OfferPC
    <3>2. QED BY <2>2, <2>3, <3>1 DEF NotYetAsked
  <2>9. QED BY <2>7, <2>8
<1>6. CASE FileSend \/ CountdownEnds \/ Click \/ \E i \in Ids : SendStep(i)
  BY <1>1, <1>6 DEF FileSend, CountdownEnds, Click, SendStep, Spawn, Acquire, ConnectFails,
     SendReturns, SendPaused, FinishSend
<1>7. CASE UNCHANGED vars
  BY <1>1, <1>7 DEF vars
<1>8. QED BY <1>2, <1>3, <1>4, <1>5, <1>6, <1>7 DEF Next

\* The table of questions does not leak, whoever answers, times out, cancels or removes
\* in which order: an entry belongs to a coroutine with that very id, which still waits
\* or is about to forget it, and which has no answer yet.
THEOREM QuestionsHaveWaiters == Spec => []PendingHasWaiter
<1> DEFINE Inv == TypeOK /\ PendingHasWaiter /\ NotYetAsked
<1>1. Init => Inv
  BY TypeInit, QuestionsInit
<1>2. Inv /\ [Next]_vars => Inv'
  BY TypeStep, QuestionsStep
<1>3. QED BY <1>1, <1>2, PTL DEF Spec

-----------------------------------------------------------------------------
(* Ids.                                                                    *)

Identified == FreshIds /\ OwnIds

\* At the start no id was given out.
LEMMA IdsInit == Init => Identified
BY DEF Init, Identified, FreshIds, OwnIds

\* A task that has an id was given it before, and keeps it.
LEMMA OwnersStay ==
    ASSUME TypeOK, [Next]_vars, FreshIds
    PROVE  /\ nextId' \in {nextId, nextId + 1}
           /\ \A i \in Ids : owner[i] # None => owner'[i] = owner[i]
           /\ \A i \in Ids : i # nextId => owner'[i] = owner[i]
<1>1. ASSUME NEW who, Enqueue(who), nextId \in Ids
      PROVE  /\ nextId' \in {nextId, nextId + 1}
             /\ \A i \in Ids : owner[i] # None => owner'[i] = owner[i]
             /\ \A i \in Ids : i # nextId => owner'[i] = owner[i]
  <2>1. owner[nextId] = None
    BY <1>1 DEF FreshIds, TypeOK
  <2>2. QED BY <1>1, <2>1 DEF Enqueue, TypeOK
<1>2. CASE FileSend \/ \E o \in Offers : OfferArrives(o)
  BY <1>1, <1>2 DEF FileSend, OfferArrives, Enqueue
<1>3. CASE ~FileSend /\ ~(\E o \in Offers : OfferArrives(o))
  <2>1. UNCHANGED <<nextId, owner>>
    BY <1>3 DEF Next, vars, AnswerShown, Answer, CountdownEnds, Click, CommandStep, SetStatus,
       RaiseFlag, ForgetFlag, CloseQuestion, SendStep, Spawn, Acquire, ConnectFails,
       SendReturns, SendPaused, FinishSend, OfferStep, Ask, AutoAccepted, Accepted, Refused,
       TimesOut, Rejected, ReceiveEnds
  <2>2. QED BY <2>1
<1>4. QED BY <1>2, <1>3

\* A status, or a record, is that of one task.
LEMMA UpdatedOne ==
    ASSUME TypeOK, NEW i \in Ids, NEW s
    PROVE  \A j \in Ids \ {i} : Updated(i, s)[j] = st[j] /\ Recorded(i, s)[j] = hist[j]
BY DEF Updated, Recorded, TypeOK

\* What the front end does is about a task.
LEMMA IdsFrontEnd ==
    ASSUME TypeOK, Identified, [Next]_vars,
           AnswerShown \/ CountdownEnds \/ Click \/ CommandStep
    PROVE  Identified'
<1> USE DEF Identified
<1>1. /\ UNCHANGED <<nextId, owner, hist, res, run, line, rcv>>
      /\ cmd = NoCmd => cmd' = cmd \/ Click
  BY DEF AnswerShown, Answer, CountdownEnds, Click, CommandStep, SetStatus, RaiseFlag,
     ForgetFlag, CloseQuestion, sendVars, askVars, Doing
<1>2. CASE Click
  <2>0. PICK i \in Ids : \E op \in Buttons(i) : cmd' = [op |-> op, id |-> i, step |-> 1]
    BY <1>2 DEF Click
  <2>1. PICK op \in Buttons(i) : cmd' = [op |-> op, id |-> i, step |-> 1]
    BY <2>0
  <2>2. st[i] # None /\ (op = "pause" => owner[i] = "send")
    BY <2>1 DEF Buttons, Final
  <2>3. owner[i] # None
    BY <2>2 DEF FreshIds
  <2>4. UNCHANGED <<st, raised>>
    BY <1>2 DEF Click
  <2>5. QED BY <1>1, <2>1, <2>2, <2>3, <2>4 DEF FreshIds, OwnIds
<1>3. CASE CommandStep
  <2>1. PICK part : Doing(part) /\ NextPart
    BY <1>3 DEF CommandStep, SetStatus, RaiseFlag, ForgetFlag, CloseQuestion
  <2>2. /\ cmd # NoCmd /\ cmd.id \in Ids
        /\ cmd' = NoCmd \/ (cmd'.id = cmd.id /\ cmd'.op = cmd.op)
    <3>1. /\ cmd # NoCmd
          /\ cmd \in [op : {"pause", "cancel", "remove"}, id : Ids, step : 1..3]
          /\ \/ cmd' = NoCmd
             \/ cmd' = [op |-> cmd.op, id |-> cmd.id, step |-> cmd.step + 1]
      BY <2>1, CommandGoes
    <3>2. QED BY <3>1
  <2>3. owner[cmd.id] # None
    BY <2>2 DEF OwnIds
  <2>4. /\ \A j \in Ids \ {cmd.id} : st'[j] = st[j]
        /\ raised' \subseteq raised \union {cmd.id}
    BY <1>3, <2>2, UpdatedOne DEF CommandStep, SetStatus, RaiseFlag, ForgetFlag, CloseQuestion
  <2>5. FreshIds'
    BY <1>1, <2>3, <2>4 DEF FreshIds
  <2>6. OwnIds'
    BY <1>1, <2>2 DEF OwnIds
  <2>7. QED BY <2>5, <2>6
<1>4. CASE AnswerShown \/ CountdownEnds
  <2>1. UNCHANGED <<st, raised, cmd>>
    BY <1>4 DEF AnswerShown, Answer, CountdownEnds
  <2>2. QED BY <1>1, <2>1 DEF FreshIds, OwnIds
<1>5. QED BY <1>2, <1>3, <1>4

\* A coroutine works on its own task.
LEMMA IdsCoroutines ==
    ASSUME TypeOK, Identified, [Next]_vars,
           \/ FileSend
           \/ \E i \in Ids : SendStep(i)
           \/ \E o \in Offers : OfferArrives(o) \/ OfferStep(o)
    PROVE  Identified'
<1> USE DEF Identified
<1>0. /\ nextId' \in {nextId, nextId + 1} /\ nextId \in Nat
      /\ \A i \in Ids : owner[i] # None => owner'[i] = owner[i]
      /\ \A i \in Ids : i # nextId => owner'[i] = owner[i]
  BY OwnersStay DEF TypeOK
<1>1. CASE FileSend \/ \E o \in Offers : OfferArrives(o)
  <2>1. PICK who \in {"send"} \union Offers : Enqueue(who)
    BY <1>1 DEF FileSend, OfferArrives
  <2>2. /\ nextId \in Ids /\ nextId' = nextId + 1 /\ owner'[nextId] = who
        /\ who # None /\ Ids \subseteq Nat
    BY <2>1, ConstantsOK DEF Enqueue, TypeOK, Ids
  <2>3. /\ UNCHANGED <<hist, res, raised, line, cmd>>
        /\ \A j \in Ids \ {nextId} : st'[j] = st[j]
    BY <1>1 DEF FileSend, OfferArrives, sendVars, TypeOK
  <2>4. FreshIds'
    BY <1>0, <2>2, <2>3 DEF FreshIds
  <2>5. owner[nextId] = None
    BY <2>2 DEF FreshIds
  <2>6. \A i \in Ids : run'[i] # None => owner'[i] = "send"
    BY <1>0, <1>1, <2>2, <2>5 DEF FileSend, OfferArrives, Enqueue, OwnIds, TypeOK, sendVars
  <2>7. \A o \in Offers : rcv'[o].pc # None => owner'[rcv'[o].id] = o
    <3>1. ASSUME NEW o \in Offers, rcv[o].pc # None
          PROVE  owner'[rcv[o].id] = o
      BY <1>0, <3>1, ConstantsOK DEF OwnIds, TypeOK
    <3>2. CASE FileSend
      BY <3>1, <3>2 DEF FileSend, askVars
    <3>3. ASSUME NEW q \in Offers, OfferArrives(q)
          PROVE  \A o \in Offers : rcv'[o].pc # None => owner'[rcv'[o].id] = o
      <4>1. /\ rcv' = [rcv EXCEPT ![q] = [pc |-> "new", id |-> nextId]]
            /\ owner' = [owner EXCEPT ![nextId] = q]
        BY <3>3 DEF OfferArrives, Enqueue
      <4>2. rcv'[q].id = nextId /\ \A o \in Offers \ {q} : rcv'[o] = rcv[o]
        BY <4>1 DEF TypeOK
      <4>3. owner'[nextId] = q
        BY <2>2, <4>1 DEF TypeOK
      <4>4. QED BY <3>1, <4>2, <4>3
    <3>4. QED BY <1>1, <3>2, <3>3
  <2>8. QED
    BY <1>0, <2>3, <2>4, <2>6, <2>7, ConstantsOK DEF OwnIds, TypeOK, Command
<1>2. ASSUME NEW i \in Ids, SendStep(i) PROVE Identified'
  <2>1. owner[i] = "send"
    BY <1>2 DEF SendStep, Spawn, Acquire, ConnectFails, SendReturns, SendPaused, FinishSend,
       OwnIds, TypeOK
  <2>2. /\ UNCHANGED <<nextId, owner, rcv, cmd>> /\ raised' \subseteq raised
        /\ \A j \in Ids \ {i} : st'[j] = st[j] /\ hist'[j] = hist[j] /\ res'[j] = res[j]
                                /\ run'[j] = run[j]
    BY <1>2, UpdatedOne DEF SendStep, Spawn, Acquire, ConnectFails, SendReturns, SendPaused,
       FinishSend, SendOver, askVars, TypeOK
  <2>3. \A k \in DOMAIN line' : owner[line'[k]] = "send"
    <3>1. CASE Spawn(i)
      <4>1. line' = Append(line, i) /\ line \in Seq(Ids)
        BY <3>1 DEF Spawn, TypeOK
      <4>2. QED BY <2>1, <4>1 DEF OwnIds
    <3>2. CASE Acquire(i)
      <4>1. line' = Tail(line) /\ line \in Seq(Ids) /\ line # <<>>
        BY <3>2 DEF Acquire, TypeOK
      <4>2. QED BY <4>1 DEF OwnIds
    <3>3. CASE ~Spawn(i) /\ ~Acquire(i)
      BY <1>2, <3>3 DEF SendStep, ConnectFails, SendReturns, SendPaused, FinishSend, OwnIds
    <3>4. QED BY <3>1, <3>2, <3>3
  <2>4. FreshIds'
    BY <2>1, <2>2 DEF FreshIds
  <2>5. QED BY <2>1, <2>2, <2>3, <2>4 DEF OwnIds
<1>3. ASSUME NEW o \in Offers, OfferStep(o) PROVE Identified'
  <2>1. PICK pc \in OfferPC : Goes(o, pc) /\ rcv[o].pc # None
    BY <1>3, OnlyThere
  <2>2. /\ rcv[o].id \in Ids /\ rcv'[o] = [pc |-> pc, id |-> rcv[o].id]
        /\ \A q \in Offers \ {o} : rcv'[q] = rcv[q]
    BY <2>1, OfferGoes DEF TypeOK
  <2>3. owner[rcv[o].id] = o
    BY <2>1 DEF OwnIds
  <2>4. /\ UNCHANGED <<nextId, owner, res, run, line, cmd>> /\ raised' \subseteq raised
        /\ \A j \in Ids \ {rcv[o].id} : st'[j] = st[j] /\ hist'[j] = hist[j]
    BY <1>3, <2>2, UpdatedOne DEF OfferStep, Ask, AutoAccepted, Accepted, Refused, TimesOut,
       Rejected, ReceiveEnds, Forget, sendVars
  <2>5. FreshIds'
    BY <2>3, <2>4, ConstantsOK DEF FreshIds
  <2>6. OwnIds'
    BY <2>2, <2>3, <2>4 DEF OwnIds
  <2>7. QED BY <2>5, <2>6
<1>4. QED BY <1>1, <1>2, <1>3

\* Each step keeps the ids.
LEMMA IdsStep == TypeOK /\ Identified /\ [Next]_vars => Identified'
<1> SUFFICES ASSUME TypeOK, Identified, [Next]_vars PROVE Identified'
    OBVIOUS
<1>1. CASE UNCHANGED vars
  BY <1>1 DEF vars, sendVars, askVars, Identified, FreshIds, OwnIds
<1>2. CASE Next
  BY <1>2, IdsFrontEnd, IdsCoroutines DEF Next
<1>3. QED BY <1>1, <1>2

-----------------------------------------------------------------------------
(* Pauses.                                                                 *)

\* At the start nothing is sent.
LEMMA PausesInit == Init => PauseFirst
BY ConstantsOK DEF Init, PauseFirst

\* The commands, one part after the other.
LEMMA PausesCommand ==
    ASSUME TypeOK, Identified, PauseFirst, CommandStep
    PROVE  PauseFirst'
<1>1. PICK part : Doing(part) /\ NextPart
  BY DEF CommandStep, SetStatus, RaiseFlag, ForgetFlag, CloseQuestion
<1>0. PICK c \in Ids : c = cmd.id
  BY <1>1, CommandGoes
<1> USE <1>0
<1>2. /\ cmd # NoCmd /\ cmd.step \in 1..3
      /\ cmd.op \in {"pause", "cancel", "remove"}
      /\ <<cmd.step, part>> \in Parts[cmd.op]
  BY <1>1, CommandGoes
<1>3. \/ cmd' = NoCmd /\ cmd.step = 3
      \/ cmd'.op = cmd.op /\ cmd'.id = cmd.id /\ cmd'.step = cmd.step + 1 /\ cmd.step \in 1..2
  <2>1. \/ cmd' = NoCmd /\ cmd.step = 3
        \/ /\ cmd' = [op |-> cmd.op, id |-> cmd.id, step |-> cmd.step + 1]
           /\ cmd.step \in 1..2
    BY <1>1, CommandGoes
  <2>2. QED BY <2>1
<1>4. UNCHANGED <<owner, hist, res>>
  BY DEF CommandStep, SetStatus, RaiseFlag, ForgetFlag, CloseQuestion, sendVars
<1>5. \A i \in Ids \ {c} : st'[i] = st[i] /\ (i \in raised' => i \in raised)
  BY <1>2, UpdatedOne DEF CommandStep, SetStatus, RaiseFlag, ForgetFlag, CloseQuestion
<1>6. ASSUME NEW i \in Ids \ {c}, owner[i] = "send"
      PROVE  /\ ~On("pause", i)'
             /\ st'[i] = "Active" => Unstopped(i)'
             /\ st'[i] = "Paused" => res'[i] # "cancel" /\ hist'[i] # "Cancelled"
  BY <1>2, <1>3, <1>4, <1>5, <1>6 DEF PauseFirst, Unstopped, On, NoCmd
<1>7. ASSUME owner[c] = "send"
      PROVE  /\ On("pause", c)' => cmd'.step > 1 /\ st'[c] # "Active"
             /\ st'[c] = "Active" => Unstopped(c)' \/ (On("cancel", c)' /\ cmd'.step > 1)
             /\ st'[c] = "Paused" => res'[c] # "cancel" /\ hist'[c] # "Cancelled"
  <2>1. CASE SetStatus("paused", "Paused")
    <3>1. Doing("paused")
      BY <2>1 DEF SetStatus
    <3>2. cmd.op = "pause" /\ cmd.step = 1
      BY <3>1, <1>2 DEF Doing, Script
    <3>3. Unstopped(c) /\ st'[c] # "Active" /\ raised' = raised
      BY <1>2, <1>7, <2>1, <3>2 DEF PauseFirst, On, SetStatus, Updated, TypeOK
    <3>4. QED BY <1>2, <1>3, <1>4, <3>2, <3>3 DEF Unstopped, On
  <2>2. CASE SetStatus("cancelled", "Cancelled") \/ SetStatus("forgetTask", "Removed")
    <3>1. st'[c] \in {"Cancelled", "Removed"}
      BY <1>2, <2>2 DEF SetStatus, Updated, TypeOK
    <3>2. Doing("cancelled") \/ Doing("forgetTask")
      BY <2>2 DEF SetStatus
    <3>3. cmd.op # "pause"
      BY <3>2, <1>2 DEF Doing, Script
    <3>4. QED BY <1>3, <3>1, <3>3 DEF On, NoCmd
  <2>3. CASE RaiseFlag
    <3>1. Doing("flag") /\ st' = st
      BY <2>3 DEF RaiseFlag
    <3>2. \/ cmd.op = "pause" /\ cmd.step = 2
          \/ cmd.op = "cancel" /\ cmd.step = 1
      BY <3>1, <1>2 DEF Doing, Script
    <3>3. CASE cmd.op = "pause"
      <4>1. st[c] # "Active"
        BY <1>2, <1>7, <3>2, <3>3 DEF PauseFirst, On
      <4>2. QED BY <1>2, <1>3, <1>4, <1>7, <3>1, <3>2, <3>3, <4>1 DEF PauseFirst, On
    <3>4. CASE cmd.op = "cancel"
      BY <1>2, <1>3, <1>4, <1>7, <3>1, <3>2, <3>4 DEF PauseFirst, On
    <3>5. QED BY <3>2, <3>3, <3>4
  <2>4. CASE ForgetFlag \/ CloseQuestion("refuse", "cancelled")
             \/ CloseQuestion("forgetPending", "dropped")
    <3>1. UNCHANGED <<st, raised>>
      BY <2>4 DEF ForgetFlag, CloseQuestion
    <3>2. Doing("forgetFlag") \/ Doing("refuse") \/ Doing("forgetPending")
      BY <2>4 DEF ForgetFlag, CloseQuestion
    <3>3. \/ cmd.op = "remove" /\ cmd.step \in {1, 2}
          \/ cmd.op = "pause" /\ cmd.step = 3
          \/ cmd.op = "cancel" /\ cmd.step = 2
      BY <3>2, <1>2 DEF Doing, Script
    <3>4. st[c] = "Active" => Unstopped(c) \/ (cmd.op = "cancel" /\ cmd.step = 2)
      BY <1>2, <1>7, <3>3 DEF PauseFirst, On
    <3>5. QED
      BY <1>2, <1>3, <1>4, <1>7, <3>1, <3>3, <3>4 DEF PauseFirst, On, Unstopped, NoCmd
  <2>5. QED BY <2>1, <2>2, <2>3, <2>4 DEF CommandStep
<1>8. QED BY <1>2, <1>4, <1>6, <1>7 DEF PauseFirst

\* Each step keeps what a pause relies on.
LEMMA PausesStep ==
    TypeOK /\ Identified /\ PauseFirst /\ [Next]_vars => PauseFirst'
<1> SUFFICES ASSUME TypeOK, Identified, PauseFirst, [Next]_vars PROVE PauseFirst'
    OBVIOUS
<1> USE DEF Identified
<1>1. CASE CommandStep
  BY <1>1, PausesCommand
<1>2. CASE Click
  <2>0. PICK i \in Ids : \E op \in Buttons(i) : cmd' = [op |-> op, id |-> i, step |-> 1]
    BY <1>2 DEF Click
  <2>1. PICK op \in Buttons(i) : cmd' = [op |-> op, id |-> i, step |-> 1]
    BY <2>0
  <2>2. op = "pause" => st[i] = "Active"
    BY <2>1 DEF Buttons, Final
  <2>3. cmd = NoCmd /\ UNCHANGED <<owner, st, hist, raised, res>>
    BY <1>2 DEF Click, sendVars
  <2>4. \A j \in Ids : owner[j] = "send" /\ st[j] = "Active" => Unstopped(j)
    BY <2>3 DEF PauseFirst, On, NoCmd
  <2>5. QED BY <2>1, <2>2, <2>3, <2>4 DEF PauseFirst, On, Unstopped
<1>3. CASE FileSend
  <2>1. Enqueue("send") /\ UNCHANGED <<hist, raised, res, cmd>>
    BY <1>3 DEF FileSend
  <2>2. PICK n \in Ids : n = nextId
    BY <2>1 DEF Enqueue
  <2>3. /\ owner[n] = None /\ owner' = [owner EXCEPT ![n] = "send"]
        /\ st' = [st EXCEPT ![n] = "Active"]
    BY <1>3, <2>1, <2>2 DEF FileSend, Enqueue, FreshIds, TypeOK
  <2>4. cmd.id # n \/ cmd = NoCmd
    BY <2>3 DEF OwnIds
  <2>5. st'[n] = "Active" /\ Unstopped(n)'
    BY <2>1, <2>3 DEF Unstopped, FreshIds, TypeOK
  <2>6. \A i \in Ids \ {n} : owner'[i] = owner[i] /\ st'[i] = st[i]
    BY <2>3 DEF TypeOK
  <2>7. ~On("pause", n)'
    BY <2>1, <2>4 DEF On, NoCmd
  <2>8. QED
    BY <2>1, <2>5, <2>6, <2>7 DEF PauseFirst, Unstopped, On
<1>4. ASSUME NEW i \in Ids, SendStep(i) PROVE PauseFirst'
  <2>1. /\ UNCHANGED <<owner, cmd>> /\ raised' \subseteq raised
        /\ \A j \in Ids \ {i} : st'[j] = st[j] /\ hist'[j] = hist[j] /\ res'[j] = res[j]
    BY <1>4, UpdatedOne DEF SendStep, Spawn, Acquire, ConnectFails, SendReturns, SendPaused,
       FinishSend, SendOver, TypeOK
  <2>2. CASE SendReturns(i)
    <3>1. /\ UNCHANGED <<st, hist, raised>> /\ st[i] # "Paused"
          /\ res'[i] = "cancel" => i \in raised
      BY <2>2 DEF SendReturns, TypeOK
    <3>2. QED BY <2>1, <3>1 DEF PauseFirst, Unstopped, On
  <2>3. CASE FinishSend(i)
    <3>1. /\ st'[i] \in {"Completed", "Cancelled", "Failed", "Removed"}
          /\ hist'[i] = "Cancelled" => hist[i] = "Cancelled" \/ res[i] = "cancel"
          /\ res'[i] = None
      BY <2>3 DEF FinishSend, SendOver, Updated, Recorded, Outcome, TypeOK
    <3>2. QED BY <2>1, <3>1 DEF PauseFirst, Unstopped, On
  <2>4. CASE ~SendReturns(i) /\ ~FinishSend(i)
    <3>1. UNCHANGED <<st, hist>> /\ (res'[i] = "cancel" => res[i] = "cancel")
      BY <1>4, <2>4 DEF SendStep, Spawn, Acquire, ConnectFails, SendPaused, SendOver, TypeOK
    <3>2. QED BY <2>1, <3>1 DEF PauseFirst, Unstopped, On
  <2>5. QED BY <2>2, <2>3, <2>4
<1>5. ASSUME NEW o \in Offers, OfferArrives(o) PROVE PauseFirst'
  <2>1. Enqueue(o) /\ UNCHANGED <<hist, raised, res, cmd>>
    BY <1>5 DEF OfferArrives, sendVars
  <2>2. /\ nextId \in Ids /\ owner' = [owner EXCEPT ![nextId] = o] /\ o # "send"
        /\ st' = [st EXCEPT ![nextId] = "Active"]
    BY <1>5, <2>1, ConstantsOK DEF OfferArrives, Enqueue, TypeOK
  <2>3. QED BY <2>1, <2>2 DEF PauseFirst, Unstopped, On, TypeOK
<1>6. ASSUME NEW o \in Offers, OfferStep(o) PROVE PauseFirst'
  <2>1. rcv[o].pc # None
    BY <1>6, OnlyThere
  <2>2. rcv[o].id \in Ids /\ owner[rcv[o].id] # "send"
    BY <2>1, ConstantsOK DEF OwnIds, TypeOK
  <2>3. /\ UNCHANGED <<owner, cmd, res>> /\ raised' \subseteq raised
        /\ \A j \in Ids \ {rcv[o].id} : st'[j] = st[j] /\ hist'[j] = hist[j]
    BY <1>6, <2>2, UpdatedOne DEF OfferStep, Ask, AutoAccepted, Accepted, Refused, TimesOut,
       Rejected, ReceiveEnds, Forget, sendVars
  <2>4. QED BY <2>2, <2>3 DEF PauseFirst, Unstopped, On
<1>7. CASE AnswerShown \/ CountdownEnds \/ UNCHANGED vars
  <2>1. UNCHANGED <<owner, cmd, res, raised, st, hist>>
    BY <1>7 DEF AnswerShown, Answer, CountdownEnds, vars, sendVars
  <2>2. QED BY <2>1 DEF PauseFirst, Unstopped, On
<1>8. QED BY <1>1, <1>2, <1>3, <1>4, <1>5, <1>6, <1>7 DEF Next

\* A send that shows as paused is not in the history as cancelled, whatever else is
\* clicked and whenever the coroutine notices: file_pause sets the status before it
\* raises the flag, and the flag is looked at before the status.
THEOREM PausesAreNotCancelled == Spec => []PauseNotRecorded
<1> DEFINE Inv == TypeOK /\ Identified /\ PauseFirst
<1>1. Init => Inv
  BY TypeInit, IdsInit, PausesInit
<1>2. Inv /\ [Next]_vars => Inv'
  BY TypeStep, IdsStep, PausesStep
<1>3. Inv => PauseNotRecorded
  BY DEF PauseFirst, PauseNotRecorded
<1>4. QED BY <1>1, <1>2, <1>3, PTL DEF Spec

-----------------------------------------------------------------------------
(* Popups.                                                                 *)

\* Taking out one element leaves the others in their order.
LEMMA Removed ==
    ASSUME NEW s \in Seq(Offers), NEW k \in 1..Len(s)
    PROVE  /\ Len(RemoveAt(s, k)) = Len(s) - 1
           /\ \A l \in 1..(Len(s) - 1) : /\ l < k => RemoveAt(s, k)[l] = s[l]
                                         /\ l >= k => RemoveAt(s, k)[l] = s[l + 1]
<1> DEFINE a == SubSeq(s, 1, k - 1)
           b == SubSeq(s, k + 1, Len(s))
<1>1. Len(a) = k - 1 /\ a \in Seq(Offers) /\ \A l \in 1..(k - 1) : a[l] = s[l]
  OBVIOUS
<1>2. Len(b) = Len(s) - k /\ b \in Seq(Offers) /\ \A l \in 1..(Len(s) - k) : b[l] = s[l + k]
  OBVIOUS
<1>3. RemoveAt(s, k) = a \o b
  BY DEF RemoveAt
<1>. HIDE DEF a, b
<1>4. Len(a \o b) = Len(s) - 1
  BY <1>1, <1>2
<1>5. ASSUME NEW l \in 1..(Len(s) - 1)
      PROVE  /\ l < k => (a \o b)[l] = s[l]
             /\ l >= k => (a \o b)[l] = s[l + 1]
  <2>1. CASE l < k
    BY <1>1, <1>2, <2>1
  <2>2. CASE l >= k
    <3>1. (a \o b)[l] = b[l - (k - 1)]
      BY <1>1, <1>2, <2>2
    <3>2. l - (k - 1) \in 1..(Len(s) - k) /\ (l - (k - 1)) + k = l + 1
      BY <2>2
    <3>3. b[l - (k - 1)] = s[l + 1]
      BY <1>2, <3>2
    <3>4. ~(l < k)
      BY <2>2
    <3>5. (a \o b)[l] = s[l + 1]
      BY <3>1, <3>3
    <3>6. QED BY <3>4, <3>5
  <2>3. QED BY <2>1, <2>2
<1>6. QED BY <1>3, <1>4, <1>5

\* Popups that are apart stay so when one goes.
LEMMA WithoutApart ==
    ASSUME TypeOK, PopupsApart, NEW i, popups' = Without(i), sid' = sid
    PROVE  PopupsApart'
<1>1. CASE Shown(i) = {}
  BY <1>1 DEF Without, PopupsApart
<1>2. CASE Shown(i) # {}
  <2>1. PICK k \in 1..Len(popups) : popups' = RemoveAt(popups, k)
    <3> DEFINE k == CHOOSE l \in Shown(i) : TRUE
    <3>1. k \in Shown(i)
      BY <1>2
    <3>2. k \in 1..Len(popups)
      BY <3>1 DEF Shown, TypeOK
    <3>3. Without(i) = RemoveAt(popups, k)
      BY <1>2 DEF Without
    <3>. HIDE DEF k
    <3>4. QED BY <3>2, <3>3
  <2>2. popups \in Seq(Offers) /\ popups' \in Seq(Offers)
    BY WithoutTyped DEF TypeOK
  <2>3. /\ Len(popups') = Len(popups) - 1
        /\ \A l \in 1..Len(popups') : /\ l < k => popups'[l] = popups[l]
                                      /\ l >= k => popups'[l] = popups[l + 1]
    <3>1. /\ Len(RemoveAt(popups, k)) = Len(popups) - 1
          /\ \A l \in 1..(Len(popups) - 1) :
               /\ l < k => RemoveAt(popups, k)[l] = popups[l]
               /\ l >= k => RemoveAt(popups, k)[l] = popups[l + 1]
      BY <2>2, Removed
    <3>2. QED BY <2>1, <3>1
  <2>4. ASSUME NEW x \in 1..Len(popups'), NEW y \in 1..Len(popups'),
               sid[popups'[x]] = sid[popups'[y]]
        PROVE  x = y
    <3>0. /\ Len(popups) \in Nat /\ DOMAIN popups = 1..Len(popups)
          /\ x \in Int /\ x + 1 \in 1..Len(popups) /\ x \in 1..Len(popups)
          /\ y \in Int /\ y + 1 \in 1..Len(popups) /\ y \in 1..Len(popups)
      BY <2>2, <2>3
    <3>1. PICK m \in 1..Len(popups) :
            popups'[x] = popups[m] /\ ((x < k /\ m = x) \/ (x >= k /\ m = x + 1))
      <4>1. x < k => popups'[x] = popups[x]
        BY <2>3
      <4>2. x >= k => popups'[x] = popups[x + 1]
        BY <2>3
      <4>3. QED BY <3>0, <4>1, <4>2
    <3>2. PICK n \in 1..Len(popups) :
            popups'[y] = popups[n] /\ ((y < k /\ n = y) \/ (y >= k /\ n = y + 1))
      <4>1. y < k => popups'[y] = popups[y]
        BY <2>3
      <4>2. y >= k => popups'[y] = popups[y + 1]
        BY <2>3
      <4>3. QED BY <3>0, <4>1, <4>2
    <3>3. m = n
      BY <2>4, <3>0, <3>1, <3>2 DEF PopupsApart
    <3>4. QED BY <3>0, <3>1, <3>2, <3>3
  <2>5. QED BY <2>2, <2>4 DEF PopupsApart
<1>3. QED BY <1>1, <1>2

\* Each step leaves the popups apart.
LEMMA ApartStep == TypeOK /\ PopupsApart /\ [Next]_vars => PopupsApart'
<1> SUFFICES ASSUME TypeOK, PopupsApart, [Next]_vars PROVE PopupsApart'
    OBVIOUS
<1>1. sid' = sid
  BY DEF Next, vars, FileSend, AnswerShown, Answer, CountdownEnds, Click, CommandStep, SetStatus,
     RaiseFlag, ForgetFlag, CloseQuestion, SendStep, Spawn, Acquire, ConnectFails, SendReturns,
     SendPaused, FinishSend, OfferArrives, OfferStep, Ask, AutoAccepted, Accepted, Refused,
     TimesOut, Rejected, ReceiveEnds
<1>2. CASE popups' = popups
  BY <1>1, <1>2 DEF PopupsApart
<1>3. ASSUME NEW i, popups' = Without(i) PROVE PopupsApart'
  BY <1>1, <1>3, WithoutApart
<1>4. ASSUME NEW i, NEW s, popups' = Emitted(i, s) PROVE PopupsApart'
  BY <1>2, <1>3, <1>4 DEF Emitted
<1>5. ASSUME NEW o \in Offers, Ask(o) PROVE PopupsApart'
  <2>1. CASE popups' = Append(popups, o) /\ Shown(sid[o]) = {}
    <3>1. popups \in Seq(Offers)
      BY DEF TypeOK
    <3>2. \A k \in 1..Len(popups) : sid[popups[k]] # sid[o]
      BY <2>1, <3>1 DEF Shown
    <3>3. DOMAIN popups' = 1..(Len(popups) + 1)
      BY <2>1, <3>1
    <3>4. popups'[Len(popups) + 1] = o /\ \A k \in 1..Len(popups) : popups'[k] = popups[k]
      BY <2>1, <3>1
    <3>5. QED BY <1>1, <3>1, <3>2, <3>3, <3>4 DEF PopupsApart
  <2>2. QED BY <1>2, <1>5, <2>1 DEF Ask
<1>6. CASE CountdownEnds
  <2>1. popups' = SubSeq(popups, 3, Len(popups)) /\ popups \in Seq(Offers)
    BY <1>6 DEF CountdownEnds, TypeOK
  <2>2. \A k \in DOMAIN popups' : k \in Nat /\ k + 2 \in DOMAIN popups
                                  /\ popups'[k] = popups[k + 2]
    BY <2>1
  <2>3. QED BY <1>1, <2>2 DEF PopupsApart
<1>7. CASE AnswerShown
  BY <1>3, <1>7 DEF AnswerShown, Answer
<1>8. CASE CommandStep
  BY <1>2, <1>4, <1>8 DEF CommandStep, SetStatus, RaiseFlag, ForgetFlag, CloseQuestion
<1>9. ASSUME NEW o \in Offers, OfferStep(o) PROVE PopupsApart'
  BY <1>2, <1>4, <1>5, <1>9 DEF OfferStep, AutoAccepted, Accepted, Refused, TimesOut, Rejected,
     ReceiveEnds
<1>10. ASSUME NEW i \in Ids, SendStep(i) PROVE PopupsApart'
  BY <1>2, <1>4, <1>10 DEF SendStep, Spawn, Acquire, ConnectFails, SendReturns, SendPaused,
     FinishSend
<1>11. CASE FileSend \/ Click \/ (\E o \in Offers : OfferArrives(o)) \/ UNCHANGED vars
  BY <1>2, <1>11 DEF FileSend, Click, OfferArrives, vars
<1>12. QED
  BY <1>5, <1>6, <1>7, <1>8, <1>9, <1>10, <1>11 DEF Next

\* The front end never has two questions under one id: an event or an answer, which
\* takes out all popups with its id, takes out one at most.
THEOREM PopupsAreApart == Spec => []PopupsApart
<1> DEFINE Inv == TypeOK /\ PopupsApart
<1>1. Init => Inv
  BY TypeInit DEF Init, PopupsApart
<1>2. Inv /\ [Next]_vars => Inv'
  BY TypeStep, ApartStep
<1>3. QED BY <1>1, <1>2, PTL DEF Spec
=============================================================================
