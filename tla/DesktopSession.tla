--------------------------- MODULE DesktopSession ---------------------------
(***************************************************************************)
(* Desktop sharing: the session of every device.  A device calls another   *)
(* one (it becomes the controller), the user there answers a popup, and    *)
(* both share until somebody disconnects or the connection is lost.  All   *)
(* devices run the same code, a connection has a controller's end and a    *)
(* host's end, each read by one loop.                                      *)
(*                                                                         *)
(* A coroutine runs up to its next wait for the network, a user or a timer *)
(* in one step; the two places where the session state is checked and set  *)
(* under different locks are two steps.  Video, input, clipboard and       *)
(* heartbeats change no session state: see DesktopVideo for the video.     *)
(***************************************************************************)
EXTENDS Integers, Sequences, FiniteSets

CONSTANTS
    Nodes,
    Calls,       \* who calls whom, pairs of nodes
    MaxConns,    \* bound: calls
    MaxLost      \* bound: connections that the network loses

\* An endpoint refuses to connect to itself.
ASSUME ConstantsOK ==
    /\ Calls \subseteq {pair \in Nodes \X Nodes : pair[1] # pair[2]}
    /\ MaxConns \in Nat /\ MaxLost \in Nat

Conns  == 1..MaxConns
None   == 0
States == {"idle", "connecting", "waiting", "sharing", "disconnected", "error"}
Active == {"connecting", "waiting", "sharing"}
Slots  == [Nodes -> Conns \union {None}]   \* a connection that a device holds, or none

VARIABLES
    st, role,    \* the session information of a node
    link,        \* the current connection of a node
    pend, info,  \* the request waiting for an answer, what is shown of it
    popup,       \* the request in the front end's dialog
    ends,        \* connection -> <<controller, host>>
    open,        \* the connections that are up
    toCtl, toHost,   \* messages under way to either end
    call,        \* connection -> where request_connect is
    inc,         \* node -> connections its endpoint has not accepted yet
    acc,         \* node -> request that its accept loop has checked
    armed,       \* requests whose timeout is running
    ans,         \* connection -> where desktop_accept_request is
    dis,         \* node -> where desktop_disconnect is
    ctl, host,   \* connection -> where the receive loop of that end is
    task,        \* node -> the receive loop that can be aborted
    lost,        \* connections lost so far
    said         \* history: connection -> answers given to its request

infoVars == <<st, role, link, pend, info>>
netVars  == <<open, toCtl, toHost, lost>>
loopVars == <<ctl, host, task>>
vars     == <<infoVars, popup, ends, netVars, call, inc, acc, armed, ans, dis, loopVars, said>>

Init ==
    /\ st = [n \in Nodes |-> "idle"] /\ role = [n \in Nodes |-> "idle"]
    /\ link = [n \in Nodes |-> None] /\ pend = [n \in Nodes |-> None]
    /\ info = [n \in Nodes |-> None] /\ popup = [n \in Nodes |-> None]
    /\ ends = [c \in Conns |-> <<>>] /\ open = {}
    /\ toCtl = [c \in Conns |-> <<>>] /\ toHost = [c \in Conns |-> <<>>]
    /\ call = [c \in Conns |-> "none"]
    /\ inc = [n \in Nodes |-> <<>>] /\ acc = [n \in Nodes |-> None]
    /\ armed = {} /\ ans = [c \in Conns |-> "none"]
    /\ dis = [n \in Nodes |-> "none"]
    /\ ctl = [c \in Conns |-> "none"] /\ host = [c \in Conns |-> "none"]
    /\ task = [n \in Nodes |-> None]
    /\ lost = 0 /\ said = [c \in Conns |-> 0]

From(c) == ends[c][1]
To(c)   == ends[c][2]

\* send_control: a message goes out while the connection is up.
Sent(queue, c, msg) == IF c \in open THEN [queue EXCEPT ![c] = Append(@, msg)] ELSE queue

SetInfo(n, s, r) == st' = [st EXCEPT ![n] = s] /\ role' = [role EXCEPT ![n] = r]

\* The current connection of n, when nothing but the session holds it: it closes
\* as soon as the session drops it.
Loose(n) ==
    {c \in {link[n]} \ {None} :
        (IF From(c) = n THEN ctl[c] ELSE host[c]) \in {"none", "done"}}

\* fail: everything is forgotten.  A pending connection has no other owner and
\* closes, so does the one the caller gives up.
Fail(n, c) ==
    /\ SetInfo(n, "error", "idle")
    /\ link' = [link EXCEPT ![n] = None]
    /\ pend' = [pend EXCEPT ![n] = None] /\ info' = [info EXCEPT ![n] = None]
    /\ open' = open \ ({c, pend[n]} \union Loose(n))

-----------------------------------------------------------------------------
(* The controller: request_connect, then its loops.                        *)

\* The session is looked at, and the lock released.  The UI waits for an answer.
Check(c) ==
    /\ call[c] = "none" /\ \A d \in 1..(c - 1) : call[d] # "none"
    /\ \E pair \in Calls :
          /\ st[pair[1]] \notin Active
          /\ ends' = [ends EXCEPT ![c] = pair]
    /\ call' = [call EXCEPT ![c] = "checked"]
    /\ UNCHANGED <<infoVars, popup, netVars, inc, acc, armed, ans, dis, loopVars, said>>

Begin(c) ==
    /\ call[c] = "checked"
    /\ call' = [call EXCEPT ![c] = "dial"]
    /\ SetInfo(From(c), "connecting", "controller")
    /\ UNCHANGED <<link, pend, info, popup, ends, netVars, inc, acc, armed, ans, dis,
                   loopVars, said>>

\* The probe is answered, the connection is made and carries the request.
Dial(c) ==
    /\ call[c] = "dial"
    /\ call' = [call EXCEPT ![c] = "wait"]
    /\ open' = open \union {c}
    /\ toHost' = [toHost EXCEPT ![c] = <<"request">>]
    /\ inc' = [inc EXCEPT ![To(c)] = Append(@, c)]
    /\ UNCHANGED <<infoVars, popup, ends, toCtl, lost, acc, armed, ans, dis, loopVars, said>>

\* No connection.
DialFails(c) ==
    /\ call[c] = "dial"
    /\ call' = [call EXCEPT ![c] = "done"]
    /\ Fail(From(c), c)
    /\ UNCHANGED <<popup, ends, toCtl, toHost, lost, inc, acc, armed, ans, dis, loopVars, said>>

\* Wrong: the caller gives up and the connection stays open.
WrongTimeout(c) ==
    /\ call[c] = "wait"
    /\ call' = [call EXCEPT ![c] = "done"]
    /\ SetInfo(From(c), "error", "idle")
    /\ UNCHANGED <<link, pend, info, popup, ends, netVars, inc, acc, armed, ans, dis,
                   loopVars, said>>

\* Wrong: the answer is awaited as long as the connection is up.
WrongWait(c) ==
    /\ call[c] = "wait" /\ c \notin open
    /\ call' = [call EXCEPT ![c] = "done"]
    /\ Fail(From(c), c)
    /\ UNCHANGED <<popup, ends, toCtl, toHost, lost, inc, acc, armed, ans, dis, loopVars, said>>

\* No answer within 30 seconds.  An answer can be on its way.
Timeout(c) ==
    /\ call[c] = "wait"
    /\ call' = [call EXCEPT ![c] = "done"]
    /\ Fail(From(c), c)
    /\ UNCHANGED <<popup, ends, toCtl, toHost, lost, inc, acc, armed, ans, dis, loopVars, said>>

\* The connection becomes the current one; the one before is dropped.
EnterSharing(n, c) ==
    /\ link' = [link EXCEPT ![n] = c] /\ open' = open \ Loose(n)
    /\ st' = [st EXCEPT ![n] = "sharing"]

\* The answer is yes: enter_sharing and spawn_controller_loops.
Accepted(c) ==
    LET n == From(c) IN
    /\ call[c] = "wait" /\ toCtl[c] # <<>> /\ Head(toCtl[c]) = "accept"
    /\ toCtl' = [toCtl EXCEPT ![c] = Tail(@)]
    /\ call' = [call EXCEPT ![c] = "done"]
    /\ EnterSharing(n, c)
    /\ ctl' = [ctl EXCEPT ![c] = "run"] /\ task' = [task EXCEPT ![n] = c]
    /\ UNCHANGED <<role, pend, info, popup, ends, toHost, lost, inc, acc, armed, ans,
                   dis, host, said>>

\* The answer is no, or the connection is gone.
Refused(c) ==
    /\ call[c] = "wait"
    /\ IF toCtl[c] = <<>> THEN c \notin open ELSE Head(toCtl[c]) # "accept"
    /\ call' = [call EXCEPT ![c] = "done"]
    /\ Fail(From(c), c)
    /\ UNCHANGED <<popup, ends, toCtl, toHost, lost, inc, acc, armed, ans, dis, loopVars, said>>

-----------------------------------------------------------------------------
(* The host: the accept loop, the requests' timeouts, the user's answer.   *)

\* handle_incoming answers a request itself while a session is active.
Busy(n) ==
    /\ acc[n] = None /\ inc[n] # <<>> /\ st[n] \in Active
    /\ LET c == Head(inc[n]) IN
       /\ toHost[c] # <<>>
       /\ toHost' = [toHost EXCEPT ![c] = Tail(@)]
       /\ toCtl' = Sent(toCtl, c, "reject")
       /\ said' = [said EXCEPT ![c] = @ + 1]
       /\ open' = open \ {c}
    /\ inc' = [inc EXCEPT ![n] = Tail(@)]
    /\ UNCHANGED <<infoVars, popup, ends, lost, call, acc, armed, ans, dis, loopVars>>

\* Wrong: the session is not looked at.
WrongTake(n) ==
    /\ acc[n] = None /\ inc[n] # <<>>
    /\ LET c == Head(inc[n]) IN
       /\ toHost[c] # <<>>
       /\ toHost' = [toHost EXCEPT ![c] = Tail(@)]
       /\ acc' = [acc EXCEPT ![n] = c]
    /\ inc' = [inc EXCEPT ![n] = Tail(@)]
    /\ UNCHANGED <<infoVars, popup, ends, open, toCtl, lost, call, armed, ans, dis, loopVars,
                   said>>

\* No session is active: the lock is released before the request is noted.
Take(n) ==
    /\ acc[n] = None /\ inc[n] # <<>> /\ st[n] \notin Active
    /\ LET c == Head(inc[n]) IN
       /\ toHost[c] # <<>>
       /\ toHost' = [toHost EXCEPT ![c] = Tail(@)]
       /\ acc' = [acc EXCEPT ![n] = c]
    /\ inc' = [inc EXCEPT ![n] = Tail(@)]
    /\ UNCHANGED <<infoVars, popup, ends, open, toCtl, lost, call, armed, ans, dis, loopVars,
                   said>>

\* The connection ended before its request could be read.
Skip(n) ==
    /\ acc[n] = None /\ inc[n] # <<>> /\ Head(inc[n]) \notin open
    /\ inc' = [inc EXCEPT ![n] = Tail(@)]
    /\ UNCHANGED <<infoVars, popup, ends, netVars, call, acc, armed, ans, dis, loopVars, said>>

\* Wrong: no timeout is started for a request.
WrongOffer(n) ==
    /\ acc[n] # None
    /\ pend' = [pend EXCEPT ![n] = acc[n]] /\ info' = [info EXCEPT ![n] = acc[n]]
    /\ open' = open \ {pend[n]}
    /\ SetInfo(n, "waiting", "host")
    /\ popup' = [popup EXCEPT ![n] = acc[n]]
    /\ acc' = [acc EXCEPT ![n] = None]
    /\ UNCHANGED <<link, ends, toCtl, toHost, lost, call, inc, armed, ans, dis, loopVars, said>>

\* The request is noted and shown, its timeout starts.
Offer(n) ==
    /\ acc[n] # None
    /\ pend' = [pend EXCEPT ![n] = acc[n]] /\ info' = [info EXCEPT ![n] = acc[n]]
    /\ open' = open \ {pend[n]}
    /\ SetInfo(n, "waiting", "host")
    /\ popup' = [popup EXCEPT ![n] = acc[n]]
    /\ armed' = armed \union {acc[n]}
    /\ acc' = [acc EXCEPT ![n] = None]
    /\ UNCHANGED <<link, ends, toCtl, toHost, lost, call, inc, ans, dis, loopVars, said>>

\* allow_be_controlled is off: the request is noted and rejected at once.
Forbid(n) ==
    /\ acc[n] # None
    /\ toCtl' = Sent(toCtl, acc[n], "reject")
    /\ said' = [said EXCEPT ![acc[n]] = @ + 1]
    /\ open' = open \ {acc[n], pend[n]}
    /\ pend' = [pend EXCEPT ![n] = None] /\ info' = [info EXCEPT ![n] = None]
    /\ SetInfo(n, "disconnected", "idle")
    /\ popup' = [popup EXCEPT ![n] = None]
    /\ acc' = [acc EXCEPT ![n] = None]
    /\ UNCHANGED <<link, ends, toHost, lost, call, inc, armed, ans, dis, loopVars>>

\* reject_pending, by whoever comes first.  No request there: an error, nothing more.
RejectPending(n) ==
    IF pend[n] = None THEN UNCHANGED <<st, role, pend, info, open, toCtl, said>>
    ELSE /\ toCtl' = Sent(toCtl, pend[n], "reject")
         /\ said' = [said EXCEPT ![pend[n]] = @ + 1]
         /\ open' = open \ {pend[n]}
         /\ pend' = [pend EXCEPT ![n] = None] /\ info' = [info EXCEPT ![n] = None]
         /\ SetInfo(n, "disconnected", "idle")

\* emit_session: the front end closes the dialog unless a request waits.
Emit(n) == popup' = [popup EXCEPT ![n] = IF st'[n] = "waiting" THEN @ ELSE None]

\* Wrong: the timer starts again for what is pending now, a request or none.
WrongExpire(c) ==
    LET n == To(c) IN
    /\ c \in armed
    /\ armed' = (armed \ {c}) \union {pend[n]}
    /\ IF info[n] # None
       THEN RejectPending(n) /\ popup' = [popup EXCEPT ![n] = None]
       ELSE UNCHANGED <<st, role, pend, info, open, toCtl, said, popup>>
    /\ UNCHANGED <<link, ends, toHost, lost, call, inc, acc, ans, dis, loopVars>>

\* The timeout of request c looks whether any request is shown.
Expire(c) ==
    LET n == To(c) IN
    /\ c \in armed
    /\ armed' = armed \ {c}
    /\ IF info[n] # None
       THEN RejectPending(n) /\ Emit(n)
       ELSE UNCHANGED <<st, role, pend, info, open, toCtl, said, popup>>
    /\ UNCHANGED <<link, ends, toHost, lost, call, inc, acc, ans, dis, loopVars>>

\* The user answers no.
Reject(n) ==
    /\ popup[n] # None /\ ans[popup[n]] = "none"
    /\ RejectPending(n)
    /\ popup' = [popup EXCEPT ![n] = None]
    /\ UNCHANGED <<link, ends, toHost, lost, call, inc, acc, armed, ans, dis, loopVars>>

\* Wrong: accept_pending leaves the request where it is.
WrongAccept(n) ==
    /\ popup[n] # None /\ ans[popup[n]] = "none" /\ pend[n] # None
    /\ ans' = [ans EXCEPT ![pend[n]] = "send"]
    /\ UNCHANGED <<infoVars, popup, ends, netVars, call, inc, acc, armed, dis, loopVars, said>>

\* The user answers yes, to the request that is there; with none the dialog closes.
Accept(n) ==
    /\ popup[n] # None /\ ans[popup[n]] = "none"
    /\ IF pend[n] = None
       THEN popup' = [popup EXCEPT ![n] = None] /\ UNCHANGED <<pend, ans>>
       ELSE /\ ans' = [ans EXCEPT ![pend[n]] = "send"]
            /\ pend' = [pend EXCEPT ![n] = None]
            /\ UNCHANGED popup
    /\ UNCHANGED <<st, role, link, info, ends, netVars, call, inc, acc, armed, dis, loopVars, said>>

\* The acceptance goes out: enter_sharing and spawn_host_loops.
AcceptSent(c) ==
    LET n == To(c) IN
    /\ ans[c] = "send" /\ c \in open
    /\ toCtl' = Sent(toCtl, c, "accept")
    /\ said' = [said EXCEPT ![c] = @ + 1]
    /\ EnterSharing(n, c)
    /\ host' = [host EXCEPT ![c] = "run"] /\ task' = [task EXCEPT ![n] = c]
    /\ ans' = [ans EXCEPT ![c] = "done"] /\ popup' = [popup EXCEPT ![n] = None]
    /\ UNCHANGED <<role, pend, info, ends, toHost, lost, call, inc, acc, armed, dis, ctl>>

\* The acceptance cannot be sent: the command fails, the session state stays.
AcceptFails(c) ==
    /\ ans[c] = "send" /\ c \notin open
    /\ ans' = [ans EXCEPT ![c] = "done"]
    /\ popup' = [popup EXCEPT ![To(c)] = None]
    /\ UNCHANGED <<infoVars, ends, netVars, call, inc, acc, armed, dis, loopVars, said>>

-----------------------------------------------------------------------------
(* Disconnecting: session.disconnect in two steps, the message on the      *)
(* current connection and then the rest.                                   *)

HangUp(n) ==
    LET c == link[n] IN
    IF c = None THEN UNCHANGED <<link, open, toCtl, toHost>>
    ELSE /\ link' = [link EXCEPT ![n] = None]
         /\ IF From(c) = n
            THEN toHost' = Sent(toHost, c, "disconnect") /\ UNCHANGED toCtl
            ELSE toCtl' = Sent(toCtl, c, "disconnect") /\ UNCHANGED toHost
         /\ open' = open \ {c}

\* The pending connection closes, and those in gone, which lost their last owner.
Forget(n, gone) ==
    /\ pend' = [pend EXCEPT ![n] = None] /\ info' = [info EXCEPT ![n] = None]
    /\ open' = open \ ({pend[n]} \union gone)
    /\ SetInfo(n, "disconnected", "idle")

\* desktop_disconnect, desktop_stop_sharing: the button works while the session
\* is active and no dialog covers it.
Disconnect(n) ==
    /\ dis[n] = "none" /\ st[n] \in Active /\ popup[n] = None
    /\ dis' = [dis EXCEPT ![n] = "link"]
    /\ UNCHANGED <<infoVars, popup, ends, netVars, call, inc, acc, armed, ans, loopVars, said>>

DisconnectLink(n) ==
    /\ dis[n] = "link" /\ link[n] # None
    /\ HangUp(n)
    /\ dis' = [dis EXCEPT ![n] = "rest"]
    /\ UNCHANGED <<st, role, pend, info, popup, ends, lost, call, inc, acc, armed, ans,
                   loopVars, said>>

\* abort_loops reaches the loop that was started last.
DisconnectRest(n) ==
    LET c == task[n] IN
    /\ dis[n] = "rest" \/ (dis[n] = "link" /\ link[n] = None)
    /\ Forget(n, {c} \ {link[n]}) /\ Emit(n)
    /\ dis' = [dis EXCEPT ![n] = "none"]
    /\ task' = [task EXCEPT ![n] = None]
    /\ IF c = None THEN UNCHANGED <<ctl, host>>
       ELSE IF From(c) = n
            THEN ctl' = [ctl EXCEPT ![c] = "done"] /\ UNCHANGED host
            ELSE host' = [host EXCEPT ![c] = "done"] /\ UNCHANGED ctl
    /\ UNCHANGED <<link, ends, toCtl, toHost, lost, call, inc, acc, armed, ans, said>>

-----------------------------------------------------------------------------
(* The receive loops of the two ends; both follow the same course.         *)

\* loop is ctl or host, queue what comes to it.
Bye(loop, c, queue) == loop[c] = "run" /\ queue[c] # <<>> /\ Head(queue[c]) = "disconnect"
Cut(loop, c, queue) == loop[c] = "run" /\ queue[c] = <<>> /\ c \notin open

loopSame == <<ends, toCtl, toHost, lost, call, inc, acc, armed, ans, dis, task, said>>

\* Disconnect arrives: session.disconnect, on whatever connection is current.
CtlBye(c) ==
    /\ Bye(ctl, c, toCtl) /\ link[From(c)] # None
    /\ HangUp(From(c))
    /\ ctl' = [ctl EXCEPT ![c] = "rest"]
    /\ UNCHANGED <<st, role, pend, info, popup, ends, lost, call, inc, acc, armed, ans, dis,
                   host, task, said>>

HostBye(c) ==
    /\ Bye(host, c, toHost) /\ link[To(c)] # None
    /\ HangUp(To(c))
    /\ host' = [host EXCEPT ![c] = "rest"]
    /\ UNCHANGED <<st, role, pend, info, popup, ends, lost, call, inc, acc, armed, ans, dis,
                   ctl, task, said>>

\* The session is emitted.
LoopEnds(n) == Emit(n) /\ UNCHANGED <<loopSame, link>>

CtlRest(c) ==
    /\ ctl[c] = "rest" \/ (Bye(ctl, c, toCtl) /\ link[From(c)] = None)
    /\ Forget(From(c), {c}) /\ LoopEnds(From(c))
    /\ ctl' = [ctl EXCEPT ![c] = "done"] /\ UNCHANGED host

HostRest(c) ==
    /\ host[c] = "rest" \/ (Bye(host, c, toHost) /\ link[To(c)] = None)
    /\ Forget(To(c), {c}) /\ LoopEnds(To(c))
    /\ host' = [host EXCEPT ![c] = "done"] /\ UNCHANGED ctl

\* The connection is gone: the session state is not touched.
CtlCut(c) ==
    /\ Cut(ctl, c, toCtl)
    /\ ctl' = [ctl EXCEPT ![c] = "done"]
    /\ UNCHANGED <<st, role, pend, info, open, host>> /\ LoopEnds(From(c))

HostCut(c) ==
    /\ Cut(host, c, toHost)
    /\ host' = [host EXCEPT ![c] = "done"]
    /\ UNCHANGED <<st, role, pend, info, open, ctl>> /\ LoopEnds(To(c))

\* The network, or a device, fails.
Lose(c) ==
    /\ c \in open /\ lost < MaxLost
    /\ lost' = lost + 1
    /\ open' = open \ {c}
    /\ toCtl' = [toCtl EXCEPT ![c] = <<>>] /\ toHost' = [toHost EXCEPT ![c] = <<>>]
    /\ UNCHANGED <<infoVars, popup, ends, call, inc, acc, armed, ans, dis, loopVars, said>>

-----------------------------------------------------------------------------

Caller(c)  == Begin(c) \/ Dial(c) \/ DialFails(c) \/ Timeout(c) \/ Accepted(c) \/ Refused(c)
Acceptor(n) == Busy(n) \/ Take(n) \/ Skip(n) \/ Offer(n) \/ Forbid(n)
Answer(c)  == AcceptSent(c) \/ AcceptFails(c)
Hanging(n) == DisconnectLink(n) \/ DisconnectRest(n)
CtlLoop(c)  == CtlBye(c) \/ CtlRest(c) \/ CtlCut(c)
HostLoop(c) == HostBye(c) \/ HostRest(c) \/ HostCut(c)

System ==
    \/ \E c \in Conns : Caller(c) \/ Expire(c) \/ Answer(c) \/ CtlLoop(c) \/ HostLoop(c)
    \/ \E n \in Nodes : Hanging(n)

Users == (\E c \in Conns : Check(c)) \/ (\E n \in Nodes : Reject(n) \/ Accept(n) \/ Disconnect(n))

Next == System \/ Users \/ (\E n \in Nodes : Acceptor(n)) \/ (\E c \in Conns : Lose(c))

Spec == Init /\ [][Next]_vars

\* The runtime goes on while a coroutine is ready or a timer runs.  Every coroutine
\* takes finitely many steps per call, so none needs a fairness of its own.  Users
\* need not act, and the accept loop need not come to a request: it takes one
\* connection after the other and waits for each without a limit.
FairSpec == Spec /\ WF_vars(System)

-----------------------------------------------------------------------------

\* The values that the state of a session can have.
TypeOK ==
    /\ st \in [Nodes -> States] /\ role \in [Nodes -> {"idle", "controller", "host"}]
    /\ link \in Slots /\ pend \in Slots /\ info \in Slots /\ popup \in Slots
    /\ acc \in Slots /\ task \in Slots
    /\ ends \in [Conns -> Calls \union {<<>>}]
    /\ open \subseteq Conns /\ armed \subseteq Conns
    /\ toCtl \in [Conns -> Seq({"accept", "reject", "disconnect"})]
    /\ toHost \in [Conns -> Seq({"request", "disconnect"})]
    /\ call \in [Conns -> {"none", "checked", "dial", "wait", "done"}]
    /\ inc \in [Nodes -> Seq(Conns)]
    /\ ans \in [Conns -> {"none", "send", "done"}]
    /\ dis \in [Nodes -> {"none", "link", "rest"}]
    /\ ctl \in [Conns -> {"none", "run", "rest", "done"}]
    /\ host \in [Conns -> {"none", "run", "rest", "done"}]
    /\ lost \in 0..MaxLost /\ said \in [Conns -> Nat]

\* A request is answered at most once, though the user, its own timeout, an
\* earlier request's timeout and a disconnection all reach for it (accept_pending
\* and reject_pending take it).
AnsweredOnce == \A c \in Conns : said[c] <= 1

\* Whoever controls this device does so over the current connection of a session
\* that shows as sharing: the button that disconnects ends it.
Controlled ==
    \A c \in open : host[c] = "run" => link[To(c)] = c /\ st[To(c)] = "sharing"

\* No disconnection is half way at a device whose acceptance is going out.
Undisturbed == \A c \in open : ans[c] = "send" => dis[To(c)] = "none"

\* A device that is controlled can end that, as long as no disconnection meets an
\* acceptance: a late second half of session.disconnect resets the state of the
\* session that begins, and the next request is let in beside it (enter_sharing
\* replaces the connection, session.disconnect closes the current one only).
ControlCanEnd == []Undisturbed => []Controlled

\* No half-open session: when a connection that is up is read at one end, the
\* other end reads it too, is about to read the acceptance, or at least holds it
\* as its current connection (a disconnection that aborts the loop of an
\* acceptance which was under way leaves that), so it can still be closed.
EndsAgree ==
    \A c \in open :
        /\ ctl[c] = "run" => host[c] = "run" \/ link[To(c)] = c
        /\ host[c] = "run" => ctl[c] = "run" \/ call[c] = "wait" \/ link[From(c)] = c

\* A call comes to an end, whatever the other device does or fails to do (the
\* timeout of request_connect).
CallsEnd ==
    (\E c \in Conns : call[c] \notin {"none", "done"})
        ~> (\A c \in Conns : call[c] \in {"none", "done"})

\* A request that arrives does not stay: it leaves the session and the dialog,
\* whether or not the user answers (the timeout of accept_loop).
RequestsEnd ==
    (\E n \in Nodes : pend[n] # None \/ popup[n] # None)
        ~> (\A n \in Nodes : pend[n] = None /\ popup[n] = None)

\* Sharing means that something is transmitted: a session whose connection is
\* gone does not go on being shown as sharing.
SharingIsLive ==
    \A n \in Nodes, c \in Conns :
        (st[n] = "sharing" /\ link[n] = c /\ c \notin open)
            ~> ~(st[n] = "sharing" /\ link[n] = c)

\* The timeout of one request rejects no other request.
ExpireOwn ==
    [][\A c \in armed \ armed' : pend[To(c)] \in {None, c, pend'[To(c)]}]_vars
=============================================================================
