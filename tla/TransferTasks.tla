---------------------------- MODULE TransferTasks ----------------------------
(***************************************************************************)
(* The task table of one device: the files it sends, which queue for a     *)
(* permit, and the files it is offered, which wait for the answer of a     *)
(* user, with the commands of the front end and its queue of popups.  What *)
(* happens on a channel is one step here, see QuicTransfer, TcpTransfer.   *)
(*                                                                         *)
(* Sends and receives share one counter of task ids.  A popup carries the  *)
(* id under which the other device keeps the file, the popup's answer      *)
(* comes back with that id.                                                *)
(***************************************************************************)
EXTENDS Integers, Sequences, FiniteSets, SequencesExt, TransferStatus

CONSTANTS
    Offers,      \* files that other devices offer
    Sends,       \* bound: files that are sent
    Permits,     \* how many sends run at the same time
    MaxClicks    \* bound: clicks on the buttons of a task

ASSUME ConstantsOK ==
    /\ IsFiniteSet(Offers) /\ {"none", "send"} \cap Offers = {}
    /\ Sends \in Nat /\ MaxClicks \in Nat
    /\ Permits \in Nat \ {0}

Ids  == 1..(Sends + Cardinality(Offers))
None == "none"

VARIABLES
    nextId,      \* the next task id
    owner,       \* id -> "send", the offer it was given to, or None
    st,          \* id -> status in the task table
    hist,        \* id -> status of its history record
    flags,       \* ids with an entry in cancel_flags
    raised,      \* ids whose flag was raised; a coroutine keeps its own handle
    run, res,    \* id -> where run_send is, what send_file returned
    line,        \* ids waiting for a permit, in order
    rcv,         \* offer -> where its connection's coroutine is, its task id
    pending,     \* id -> the offer whose question is open under that id
    answer,      \* offer -> what came through its confirmation channel
    sid,         \* offer -> its task id on the sending device
    popups,      \* the front end's queue of questions, the first one is shown
    expired,     \* the countdown still stands at zero
    cmd,         \* the command being carried out
    clicks

sendVars == <<run, res, line>>
askVars  == <<rcv, pending, answer>>
vars     == <<nextId, owner, st, hist, flags, raised, sendVars, askVars, sid,
              popups, expired, cmd, clicks>>

NoCmd == [op |-> None, id |-> 1, step |-> 0]

Init ==
    /\ nextId = 1
    /\ owner = [i \in Ids |-> None] /\ st = [i \in Ids |-> None]
    /\ hist = [i \in Ids |-> None]
    /\ flags = {} /\ raised = {}
    /\ run = [i \in Ids |-> None] /\ res = [i \in Ids |-> None] /\ line = <<>>
    /\ rcv = [o \in Offers |-> [pc |-> None, id |-> 1]]
    /\ pending = [i \in Ids |-> None]
    /\ answer = [o \in Offers |-> None]
    /\ sid \in [Offers -> Ids]
    /\ popups = <<>> /\ expired = FALSE
    /\ cmd = NoCmd /\ clicks = 0

-----------------------------------------------------------------------------
(* The task table and the events.                                          *)

Enqueue(who) ==
    /\ nextId \in Ids
    /\ nextId' = nextId + 1
    /\ owner' = [owner EXCEPT ![nextId] = who]

\* update: nothing happens to a task that is no longer in the table.
Updated(i, s) == IF st[i] = "Removed" THEN st ELSE [st EXCEPT ![i] = s]
Recorded(i, s) == IF st[i] = "Removed" THEN hist ELSE [hist EXCEPT ![i] = s]

\* What the front end does on the event of a task that has ended: the popups with
\* that id go.  There is one at most, since Ask shows no second one (PopupsApart).
Shown(i)   == {k \in DOMAIN popups : sid[popups[k]] = i}
Without(i) == IF Shown(i) = {} THEN popups
              ELSE RemoveAt(popups, CHOOSE k \in Shown(i) : TRUE)
Emitted(i, s) == IF s \in Final /\ st[i] # "Removed" THEN Without(i) ELSE popups

-----------------------------------------------------------------------------
(* Sending: file_send and the coroutine run_send.                          *)

FileSend ==
    /\ Cardinality({i \in Ids : owner[i] = "send"}) < Sends
    /\ Enqueue("send")
    /\ st' = [st EXCEPT ![nextId] = "Active"]
    /\ run' = [run EXCEPT ![nextId] = "new"]
    /\ UNCHANGED <<hist, flags, raised, res, line, askVars, sid, expired, popups, cmd, clicks>>

\* The flag exists and the coroutine asks for a permit after the event went out.
Spawn(i) ==
    /\ run[i] = "new"
    /\ flags' = flags \union {i}
    /\ run' = [run EXCEPT ![i] = "queued"]
    /\ line' = Append(line, i)
    /\ UNCHANGED <<nextId, owner, st, hist, raised, res, askVars, sid, expired, popups, cmd, clicks>>

Holding == {i \in Ids : run[i] \in {"sending", "finish"}}

\* Wrong: only a task that nobody stopped meanwhile takes its turn.
WrongAcquire(i) ==
    /\ line # <<>> /\ Head(line) = i /\ Cardinality(Holding) < Permits
    /\ st[i] = "Active"
    /\ line' = Tail(line)
    /\ run' = [run EXCEPT ![i] = "sending"]
    /\ UNCHANGED <<nextId, owner, st, hist, flags, raised, res, askVars, sid, expired, popups,
                   cmd, clicks>>

\* The semaphore is fair.  Whatever became of the task, its turn comes.
Acquire(i) ==
    /\ line # <<>> /\ Head(line) = i /\ Cardinality(Holding) < Permits
    /\ line' = Tail(line)
    /\ run' = [run EXCEPT ![i] = "sending"]
    /\ UNCHANGED <<nextId, owner, st, hist, flags, raised, res, askVars, sid, expired, popups,
                   cmd, clicks>>

\* network.connect fails, for QUIC: finish_send follows without a look at the status.
ConnectFails(i) ==
    /\ run[i] = "sending"
    /\ run' = [run EXCEPT ![i] = "finish"]
    /\ res' = [res EXCEPT ![i] = "fail"]
    /\ UNCHANGED <<nextId, owner, st, hist, flags, raised, line, askVars, sid, expired,
                   popups, cmd, clicks>>

\* send_file returns, soon when the flag is raised, and the task is not paused.
SendReturns(i) ==
    /\ run[i] = "sending" /\ st[i] # "Paused"
    /\ \E r \in {"ok", "fail"} \union (IF i \in raised THEN {"cancel"} ELSE {}) :
          res' = [res EXCEPT ![i] = r]
    /\ run' = [run EXCEPT ![i] = "finish"]
    /\ UNCHANGED <<nextId, owner, st, hist, flags, raised, line, askVars, sid, expired,
                   popups, cmd, clicks>>

\* The coroutine's end: its permit is free, its flag leaves the table, its own
\* handle is dropped.
SendOver(i) ==
    /\ run' = [run EXCEPT ![i] = "done"]
    /\ res' = [res EXCEPT ![i] = None]
    /\ flags' = flags \ {i} /\ raised' = raised \ {i}

\* send_file returns and the task is paused: it stays as it is.
SendPaused(i) ==
    /\ run[i] = "sending" /\ st[i] = "Paused"
    /\ SendOver(i)
    /\ UNCHANGED <<nextId, owner, st, hist, line, askVars, sid, expired, popups, cmd,
                   clicks>>

\* finish_send, whatever happened to the status since it was looked at.
FinishSend(i) ==
    /\ run[i] = "finish"
    /\ st' = Updated(i, Outcome(res[i]))
    /\ hist' = Recorded(i, Outcome(res[i]))
    /\ popups' = Emitted(i, Outcome(res[i]))
    /\ SendOver(i)
    /\ UNCHANGED <<nextId, owner, line, askVars, sid, expired, cmd, clicks>>

SendStep(i) ==
    \/ Spawn(i)       \/ Acquire(i)    \/ ConnectFails(i)
    \/ SendReturns(i) \/ SendPaused(i) \/ FinishSend(i)

-----------------------------------------------------------------------------
(* Receiving: handle_offer and handle_tcp_connection.                      *)

At(o, pc) == rcv[o].pc = pc
Goes(o, pc) == rcv' = [rcv EXCEPT ![o].pc = pc]

OfferArrives(o) ==
    /\ At(o, None)
    /\ Enqueue(o)
    /\ st' = [st EXCEPT ![nextId] = "Active"]
    /\ rcv' = [rcv EXCEPT ![o] = [pc |-> "new", id |-> nextId]]
    /\ UNCHANGED <<hist, flags, raised, sendVars, pending, answer, sid, expired, popups, cmd, clicks>>

\* The question is filed under the own id and shown under the sender's: not at all
\* when the front end has a popup of that id, and only for a moment when the last
\* countdown left a zero behind and nothing else to show.
Ask(o) ==
    /\ At(o, "new") /\ Goes(o, "wait")
    /\ pending' = [pending EXCEPT ![rcv[o].id] = o]
    /\ popups' = IF Shown(sid[o]) # {} \/ expired THEN popups ELSE Append(popups, o)
    /\ expired' = FALSE
    /\ UNCHANGED <<nextId, owner, st, hist, flags, raised, sendVars, answer, sid, cmd, clicks>>

\* With automatic acceptance there is no question.
AutoAccepted(o) ==
    /\ At(o, "new") /\ Goes(o, "recv")
    /\ st' = Updated(rcv[o].id, "Active")
    /\ flags' = flags \union {rcv[o].id}
    /\ UNCHANGED <<nextId, owner, hist, raised, sendVars, pending, answer, sid, expired, popups,
                   cmd, clicks>>

Accepted(o) ==
    /\ At(o, "wait") /\ answer[o] = "accept" /\ Goes(o, "recv")
    /\ st' = Updated(rcv[o].id, "Active")
    /\ flags' = flags \union {rcv[o].id}
    /\ UNCHANGED <<nextId, owner, hist, raised, sendVars, pending, answer, sid, expired, popups,
                   cmd, clicks>>

\* A rejection, or the channel's end.
Refused(o) ==
    /\ At(o, "wait") /\ answer[o] \in {"reject", "cancelled", "dropped"}
    /\ Goes(o, "closing")
    /\ UNCHANGED <<nextId, owner, st, hist, flags, raised, sendVars, pending, answer,
                   sid, popups, expired, cmd, clicks>>

\* Wrong: the time runs while the question is on the screen.
WrongTimesOut(o) ==
    /\ At(o, "wait") /\ answer[o] = None
    /\ \E k \in DOMAIN popups : popups[k] = o
    /\ Goes(o, "closing")
    /\ UNCHANGED <<nextId, owner, st, hist, flags, raised, sendVars, pending, answer,
                   sid, popups, expired, cmd, clicks>>

\* 30 s without an answer.
TimesOut(o) ==
    /\ At(o, "wait") /\ answer[o] = None
    /\ Goes(o, "closing")
    /\ UNCHANGED <<nextId, owner, st, hist, flags, raised, sendVars, pending, answer,
                   sid, popups, expired, cmd, clicks>>

\* Wrong: a question that timed out keeps its entry.
WrongForget(o) ==
    /\ pending' = IF answer[o] = None THEN pending
                  ELSE [pending EXCEPT ![rcv[o].id] = None]
    /\ flags' = flags \ {rcv[o].id} /\ raised' = raised \ {rcv[o].id}

\* The last lines of the coroutine.
Forget(o) ==
    /\ pending' = [pending EXCEPT ![rcv[o].id] = None]
    /\ flags' = flags \ {rcv[o].id} /\ raised' = raised \ {rcv[o].id}

\* After the Reject went out: the status, and its event.
Rejected(o) ==
    /\ At(o, "closing") /\ Goes(o, "done")
    /\ st' = Updated(rcv[o].id, "Rejected")
    /\ popups' = Emitted(rcv[o].id, "Rejected")
    /\ Forget(o)
    /\ UNCHANGED <<nextId, owner, hist, sendVars, answer, sid, expired, cmd, clicks>>

\* receive_quic or receive_tcp, and finish_receive.
ReceiveEnds(o) ==
    LET i == rcv[o].id
    IN  /\ At(o, "recv") /\ Goes(o, "done")
        /\ \E s \in {"Completed", "Failed", "Paused"}
                      \union (IF i \in raised THEN {"Cancelled"} ELSE {}) :
              /\ st' = Updated(i, s)
              /\ hist' = IF s = "Paused" THEN hist ELSE Recorded(i, s)
              /\ popups' = Emitted(i, s)
        /\ Forget(o)
        /\ UNCHANGED <<nextId, owner, sendVars, answer, sid, expired, cmd, clicks>>

OfferStep(o) ==
    \/ Ask(o)      \/ AutoAccepted(o) \/ Accepted(o) \/ Refused(o)
    \/ TimesOut(o) \/ Rejected(o)     \/ ReceiveEnds(o)

-----------------------------------------------------------------------------
(* The front end.                                                          *)

\* The entry under id i, if any, is taken out; its channel takes the answer unless
\* nobody waits at its other end.
Decide(i, a) ==
    /\ pending' = [pending EXCEPT ![i] = None]
    /\ answer' = [o \in Offers |->
                    IF pending[i] = o /\ At(o, "wait") THEN a ELSE answer[o]]

\* file_accept, file_reject with the id of the popup, which goes in either case.
Answer(a) ==
    /\ popups # <<>>
    /\ Decide(sid[Head(popups)], a)
    /\ popups' = Without(sid[Head(popups)])
    /\ UNCHANGED <<nextId, owner, st, hist, flags, raised, sendVars, rcv, sid, expired, cmd, clicks>>

AnswerShown == Answer("accept") \/ Answer("reject")

\* Wrong: the popup waits for the event that the question was closed.
WrongCountdownEnds ==
    /\ popups # <<>> /\ rcv[Head(popups)].pc = "wait"
    /\ popups' = Tail(popups)
    /\ UNCHANGED <<nextId, owner, st, hist, flags, raised, sendVars, askVars, sid, expired,
                   cmd, clicks>>

\* The countdown of the shown popup is at zero: it goes, and so does the next one,
\* which is rendered before the countdown starts again.  Without a next one the
\* zero stays until there is one.
CountdownEnds ==
    /\ popups # <<>>
    /\ popups' = SubSeq(popups, 3, Len(popups))
    /\ expired' = (Len(popups) = 1)
    /\ UNCHANGED <<nextId, owner, st, hist, flags, raised, sendVars, askVars, sid, cmd, clicks>>

\* Wrong: a pause raises the flag before it sets the status.
WrongScript ==
    [pause  |-> <<"flag", "refuse", "paused">>,
     cancel |-> <<"flag", "refuse", "cancelled">>,
     remove |-> <<"forgetFlag", "forgetPending", "forgetTask">>]

\* The commands, one lock after the other.
Script ==
    [pause  |-> <<"paused", "flag", "refuse">>,
     cancel |-> <<"flag", "refuse", "cancelled">>,
     remove |-> <<"forgetFlag", "forgetPending", "forgetTask">>]

\* The buttons that the front end shows for a task.
Buttons(i) ==
    CASE st[i] = "Active" -> {"cancel"} \union (IF owner[i] = "send" THEN {"pause"} ELSE {})
      [] st[i] = "Paused" /\ owner[i] = "send" -> {"remove"}
      [] st[i] \in Final -> {"remove"}
      [] OTHER -> {}

Click ==
    /\ cmd = NoCmd /\ clicks < MaxClicks
    /\ \E i \in Ids : \E op \in Buttons(i) : cmd' = [op |-> op, id |-> i, step |-> 1]
    /\ clicks' = clicks + 1
    /\ UNCHANGED <<nextId, owner, st, hist, flags, raised, sendVars, askVars, sid, expired, popups>>

Doing(part) == cmd # NoCmd /\ Script[cmd.op][cmd.step] = part
NextPart == cmd' = IF cmd.step = Len(Script[cmd.op]) THEN NoCmd
                   ELSE [cmd EXCEPT !.step = @ + 1]

SetStatus(part, s) ==
    /\ Doing(part) /\ NextPart
    /\ st' = Updated(cmd.id, s)
    /\ popups' = Emitted(cmd.id, s)
    /\ UNCHANGED <<nextId, owner, hist, flags, raised, sendVars, askVars, sid, expired, clicks>>

RaiseFlag ==
    /\ Doing("flag") /\ NextPart
    /\ raised' = IF cmd.id \in flags THEN raised \union {cmd.id} ELSE raised
    /\ UNCHANGED <<nextId, owner, st, hist, flags, sendVars, askVars, sid, expired, popups, clicks>>

ForgetFlag ==
    /\ Doing("forgetFlag") /\ NextPart
    /\ flags' = flags \ {cmd.id}
    /\ UNCHANGED <<nextId, owner, st, hist, raised, sendVars, askVars, sid, expired, popups, clicks>>

\* An open question is answered for the user, or its channel is dropped.
CloseQuestion(part, a) ==
    /\ Doing(part) /\ NextPart
    /\ Decide(cmd.id, a)
    /\ UNCHANGED <<nextId, owner, st, hist, flags, raised, sendVars, rcv, sid, expired, popups, clicks>>

CommandStep ==
    \/ SetStatus("paused", "Paused") \/ SetStatus("cancelled", "Cancelled")
    \/ SetStatus("forgetTask", "Removed")
    \/ RaiseFlag \/ ForgetFlag
    \/ CloseQuestion("refuse", "cancelled") \/ CloseQuestion("forgetPending", "dropped")

-----------------------------------------------------------------------------
Next ==
    \/ FileSend \/ AnswerShown \/ CountdownEnds \/ Click \/ CommandStep
    \/ \E i \in Ids : SendStep(i)
    \/ \E o \in Offers : OfferArrives(o) \/ OfferStep(o)

Spec == Init /\ [][Next]_vars

\* Coroutines are polled, every channel ends (AttemptsEnd of the channels), the
\* front end's timer ticks.  Users promise nothing.
Fairness ==
    /\ \A i \in Ids : WF_vars(SendStep(i))
    /\ \A o \in Offers : WF_vars(OfferStep(o))
    /\ WF_vars(CountdownEnds)

FairSpec == Spec /\ Fairness

-----------------------------------------------------------------------------
(* Properties.                                                             *)

SendPC == {None, "new", "queued", "sending", "finish", "done"}
Command == {NoCmd} \union [op : {"pause", "cancel", "remove"}, id : Ids, step : 1..3]

\* Every variable keeps its type.
TypeOK ==
    /\ nextId \in 1..(Sends + Cardinality(Offers) + 1)
    /\ owner \in [Ids -> {None, "send"} \union Offers]
    /\ st \in [Ids -> Status] /\ hist \in [Ids -> Status]
    /\ flags \subseteq Ids /\ raised \subseteq Ids
    /\ run \in [Ids -> SendPC] /\ res \in [Ids -> Results]
    /\ line \in Seq(Ids)
    /\ rcv \in [Offers -> [pc : {None, "new", "wait", "recv", "closing", "done"},
                       id : Ids]]
    /\ pending \in [Ids -> {None} \union Offers]
    /\ answer \in [Offers -> {None, "accept", "reject", "cancelled", "dropped"}]
    /\ sid \in [Offers -> Ids]
    /\ popups \in Seq(Offers) /\ expired \in BOOLEAN
    /\ cmd \in Command /\ clicks \in 0..MaxClicks

\* A send that shows as paused is not in the history as cancelled (the order of the
\* two steps of file_pause, which its comment insists on).
PauseNotRecorded ==
    \A i \in Ids : owner[i] = "send" /\ st[i] = "Paused" => hist[i] # "Cancelled"

\* An entry of pending belongs to a coroutine with that very id, which is not over,
\* and has not been answered: the table of questions does not leak, no question is
\* answered twice, and none is filed where its own task cannot find it.
PendingHasWaiter ==
    \A i \in Ids : pending[i] # None =>
        /\ rcv[pending[i]].id = i
        /\ rcv[pending[i]].pc \in {"wait", "closing"}
        /\ answer[pending[i]] = None

\* Every send that is queued gets its permit and ends, whatever was paused,
\* cancelled or removed while it was queued.
SendsEnd == \A i \in Ids : run[i] = "queued" ~> run[i] = "done"

\* Every question is closed and every accepted receive ends.
OffersEnd == \A o \in Offers : rcv[o].pc = "wait" ~> rcv[o].pc = "done"

\* The front end does not keep showing questions for ever.
PopupsDrain == \A o \in Offers : (popups # <<>> /\ Head(popups) = o) ~>
                                  ~(popups # <<>> /\ Head(popups) = o)

\* The answer of the user is the answer that the question on the screen gets
\* ("after the user's confirmation, send the decision").
AnswerReaches ==
    [][popups # <<>> /\ popups' # popups /\ answer' # answer /\ cmd = cmd'
          => answer'[Head(popups)] # None]_vars

\* A question is shown when a request arrives ("a popup wherever the user is").
AskedIsShown ==
    [][\A o \in Offers : rcv[o].pc = "new" /\ rcv'[o].pc = "wait"
          => \E k \in DOMAIN popups' : sid[popups'[k]] = sid[o]]_vars

\* A countdown closes the question it belongs to and no other.
OneAtATime ==
    [][UNCHANGED <<st, rcv, answer, pending, clicks>>
          => Len(popups') >= Len(popups) - 1]_vars
=============================================================================
