------------------------------ MODULE VntDaemon ------------------------------
(***************************************************************************)
(* The daemon: the requests of its RPC connections start, stop and restart *)
(* the VNT child and the FTP server; a supervisor keeps each child alive;  *)
(* what is running goes to a file, from which the next daemon restores it. *)
(*                                                                         *)
(* A request is a script of steps with an await between any two of them,   *)
(* so those of two connections interleave.  The daemon may crash anywhere. *)
(***************************************************************************)
EXTENDS Integers, Sequences, FiniteSets

CONSTANTS
    Conns,          \* RPC connections, one request at a time each
    MaxRequests,    \* bound: requests
    MaxCrashes,     \* bound: crashes of the daemon
    MaxFaults       \* bound: exits of a child, failed starts, stops that give up waiting

ASSUME ConstantsOK ==
    /\ MaxRequests \in Nat /\ MaxCrashes \in Nat /\ MaxFaults \in Nat
    /\ "boot" \notin Conns

None  == 0
Ids   == 1..(MaxRequests + 1)
Boot  == "boot"
Procs == Conns \union {Boot}

VARIABLES
    up,         \* what the daemon process is doing
    mem,        \* RuntimeState: vnt_running, ftp_running
    disk,       \* the file: vnt_was_running, ftp_was_running
    runtime,    \* VNT_RUNTIME: the supervisor of the running child
    guard,      \* who holds the lock of VNT_RUNTIME across an await
    sup,        \* supervisor -> where run_vnt_with_supervision is
    cancelled,  \* supervisors whose token is cancelled
    ftpRuntime, \* FTP_RUNTIME
    srv,        \* FTP server -> its state
    job,        \* process -> its request and the step of it
    mine,       \* process -> the supervisor or server its request deals with
    orphan,     \* some vnt-cli outlived its daemon
    owed,       \* services that ran when an idle daemon crashed
    calm,       \* since the daemon started no two requests overlapped and no stop
                \* gave up waiting
    issued, crashes, faults

vntVars == <<runtime, sup, cancelled>>
ftpVars == <<ftpRuntime, srv>>
counts  == <<issued, crashes, faults>>
vars    == <<up, mem, disk, vntVars, guard, ftpVars, job, mine, orphan, owed, calm,
             counts>>

Idle    == [op |-> "none", step |-> 0]
Stopped == [vnt |-> FALSE, ftp |-> FALSE]

Init ==
    /\ up = "down" /\ mem = Stopped
    /\ disk \in [vnt : BOOLEAN, ftp : BOOLEAN]
    /\ runtime = None /\ sup = [s \in Ids |-> "none"] /\ cancelled = {}
    /\ guard = "none"
    /\ ftpRuntime = None /\ srv = [k \in Ids |-> "none"]
    /\ job = [p \in Procs |-> Idle] /\ mine = [p \in Procs |-> None]
    /\  orphan = FALSE /\ owed = {} /\ calm = TRUE
    /\ issued = 0 /\ crashes = 0 /\ faults = 0

-----------------------------------------------------------------------------
(* Requests.                                                               *)

VntStart == <<"spawn", "runs", "save">>
VntStop  == <<"take", "join", "stopped", "save">>
FtpStart == <<"keyring", "ftpTake", "ftpJoin", "ftpListen", "ftpHold", "ftpRuns", "save">>
FtpStop  == <<"ftpTake", "ftpJoin", "ftpStopped", "save">>

\* Wrong: the state is saved before it is changed.
WrongScript ==
    [vntStart |-> VntStart, vntStop |-> <<"take", "join", "save", "stopped">>,
     vntRestart |-> VntStop \o VntStart,
     ftpStart |-> FtpStart, ftpStop |-> FtpStop, ftpRestart |-> FtpStop \o FtpStart,
     shutdown |-> VntStop \o FtpStop \o <<"exit">>,
     restoreVnt |-> VntStart, restoreFtp |-> FtpStart, restoreBoth |-> VntStart \o FtpStart]

Script ==
    [vntStart |-> VntStart, vntStop |-> VntStop, vntRestart |-> VntStop \o VntStart,
     ftpStart |-> FtpStart, ftpStop |-> FtpStop, ftpRestart |-> FtpStop \o FtpStart,
     shutdown |-> VntStop \o FtpStop \o <<"exit">>,
     restoreVnt |-> VntStart, restoreFtp |-> FtpStart, restoreBoth |-> VntStart \o FtpStart]

Requests == DOMAIN Script \ {"restoreVnt", "restoreFtp", "restoreBoth"}

Fault == faults < MaxFaults /\ faults' = faults + 1

AllIdle == \A p \in Procs : job[p] = Idle

Request(c) ==
    /\ up = "serving" /\ job[c] = Idle /\ issued < MaxRequests
    /\ \E op \in Requests : job' = [job EXCEPT ![c] = [op |-> op, step |-> 1]]
    /\ issued' = issued + 1 /\ owed' = {} /\ calm' = (calm /\ AllIdle)
    /\ UNCHANGED <<up, mem, disk, vntVars, guard, ftpVars, mine, orphan, crashes, faults>>

Doing(p, part) == job[p] # Idle /\ Script[job[p].op][job[p].step] = part

\* The request is over; after the last one of the restoration the port opens.
Ends(p) ==
    /\ job' = [job EXCEPT ![p] = Idle]
    /\ up' = IF p = Boot THEN "serving" ELSE up

Goes(p) ==
    IF job[p].step = Len(Script[job[p].op]) THEN Ends(p)
    ELSE job' = [job EXCEPT ![p].step = @ + 1] /\ UNCHANGED up

Fresh(f, k) == f[k] = "none" /\ \A j \in Ids : j < k => f[j] # "none"

-----------------------------------------------------------------------------
(* The VNT child: vnt_manager.                                             *)

\* Wrong: start does not look whether a child runs.
WrongSpawn(p) ==
    /\ Doing(p, "spawn") /\ guard = "none" /\ Goes(p)
    /\ \E s \in Ids : /\ Fresh(sup, s)
                      /\ runtime' = s /\ sup' = [sup EXCEPT ![s] = "check"]
    /\ guard' = p
    /\ UNCHANGED <<mem, disk, cancelled, ftpVars, mine, orphan, owed, calm, counts>>

\* start keeps the lock of VNT_RUNTIME until it has saved.
Spawn(p) ==
    /\ Doing(p, "spawn") /\ guard = "none"
    /\ IF runtime # None
       THEN Ends(p) /\ UNCHANGED <<vntVars, guard>>
       ELSE /\ \E s \in Ids : /\ Fresh(sup, s)
                              /\ runtime' = s /\ sup' = [sup EXCEPT ![s] = "check"]
            /\ guard' = p /\ Goes(p) /\ UNCHANGED cancelled
    /\ UNCHANGED <<mem, disk, ftpVars, mine, orphan, owed, calm, counts>>

\* Wrong: stop reads the supervisor and leaves it there.
WrongTake(p) ==
    /\ Doing(p, "take") /\ guard = "none" /\ Goes(p)
    /\ mine' = [mine EXCEPT ![p] = runtime]
    /\ cancelled' = cancelled \union ({runtime} \ {None})
    /\ UNCHANGED <<mem, disk, runtime, sup, guard, ftpVars, orphan, owed, calm, counts>>

\* stop takes the supervisor out and releases the lock.
Take(p) ==
    /\ Doing(p, "take") /\ guard = "none" /\ Goes(p)
    /\ runtime' = None
    /\ mine' = [mine EXCEPT ![p] = runtime]
    /\ cancelled' = cancelled \union ({runtime} \ {None})
    /\ UNCHANGED <<mem, disk, sup, guard, ftpVars, orphan, owed, calm, counts>>

\* The awaited has come about; or the wait was given up.
Waits(done) ==
    \/ done /\ UNCHANGED <<calm, faults>>
    \/ ~done /\ Fault /\ calm' = FALSE

Over(s) == sup[s] \in {"over", "failed"}

\* Wrong: it does not wait.
WrongJoin(p) ==
    /\ Doing(p, "join") /\ Goes(p)
    /\ UNCHANGED <<mem, disk, vntVars, guard, ftpVars, mine, orphan, owed, calm, counts>>

\* It waits for the supervisor, at most 3 s.  kill_vnt_cli_process, which follows, is
\* an async function that nobody awaits: nothing happens.
Join(p) ==
    /\ Doing(p, "join") /\ Goes(p)
    /\ Waits(mine[p] \in {None} \union {s \in Ids : Over(s)})
    /\ UNCHANGED <<mem, disk, vntVars, guard, ftpVars, mine, orphan, owed, issued, crashes>>

\* The state afterwards: of stop, start, and the two of the FTP server.
SetMem(p) ==
    /\ \/ Doing(p, "stopped") /\ mem' = [mem EXCEPT !.vnt = FALSE]
       \/ Doing(p, "runs") /\ mem' = [mem EXCEPT !.vnt = TRUE]
       \/ Doing(p, "ftpStopped") /\ mem' = [mem EXCEPT !.ftp = FALSE]
       \/ Doing(p, "ftpRuns") /\ mem' = [mem EXCEPT !.ftp = TRUE]
    /\ Goes(p)
    /\ UNCHANGED <<disk, vntVars, guard, ftpVars, mine, orphan, owed, calm, counts>>

\* Wrong: the record forgets the FTP server.
WrongSave(p) ==
    /\ Doing(p, "save") /\ Goes(p)
    /\ disk' = [vnt |-> mem.vnt]
    /\ guard' = IF guard = p THEN "none" ELSE guard
    /\ UNCHANGED <<mem, vntVars, ftpVars, mine, orphan, owed, calm, counts>>

\* save: what is running now, whoever changed it.
Save(p) ==
    /\ Doing(p, "save") /\ Goes(p)
    /\ disk' = mem
    /\ guard' = IF guard = p THEN "none" ELSE guard
    /\ UNCHANGED <<mem, vntVars, ftpVars, mine, orphan, owed, calm, counts>>

-----------------------------------------------------------------------------
(* run_vnt_with_supervision.                                               *)

At(s, pc) == up # "down" /\ sup[s] = pc
SupGoes(s, pc) == sup' = [sup EXCEPT ![s] = pc]
SupRest == <<up, disk, runtime, cancelled, guard, ftpVars, mem, job, mine, orphan, owed, calm>>

Check(s) ==
    /\ At(s, "check")
    /\ SupGoes(s, IF s \in cancelled THEN "over" ELSE "spawning")
    /\ UNCHANGED <<SupRest, counts>>

\* Without a child the supervision ends for good.
SpawnChild(s) ==
    /\ At(s, "spawning")
    /\ \/ SupGoes(s, "running") /\ UNCHANGED faults
       \/ SupGoes(s, "failed") /\ Fault
    /\ UNCHANGED <<SupRest, issued, crashes>>

\* Wrong: the supervisor looks itself up in VNT_RUNTIME, from where stop has taken it.
WrongKillChild(s) ==
    /\ At(s, "running") /\ s \in cancelled /\ runtime = s
    /\ SupGoes(s, "over")
    /\ UNCHANGED <<SupRest, counts>>

KillChild(s) ==
    /\ At(s, "running") /\ s \in cancelled
    /\ SupGoes(s, "over")
    /\ UNCHANGED <<SupRest, counts>>

ChildExits(s) ==
    /\ At(s, "running") /\ Fault
    /\ SupGoes(s, "exited")
    /\ UNCHANGED <<SupRest, issued, crashes>>

SeesExit(s) ==
    /\ At(s, "exited")
    /\ SupGoes(s, IF s \in cancelled THEN "over" ELSE "backoff")
    /\ UNCHANGED <<SupRest, counts>>

\* Wrong: after the first restart it gives up.
WrongWakes(s) ==
    /\ At(s, "backoff")
    /\ SupGoes(s, "over")
    /\ UNCHANGED <<SupRest, counts>>

\* The delay is over, or the token is cancelled.
Wakes(s) ==
    /\ At(s, "backoff")
    /\ SupGoes(s, IF s \in cancelled THEN "over" ELSE "check")
    /\ UNCHANGED <<SupRest, counts>>

\* A line of the child changes the report on the connection, which no property reads,
\* and a save follows some time later.
OutputSave(s) ==
    /\ up # "down" /\ sup[s] \notin {"none", "check", "spawning", "failed"}
    /\ disk # mem
    /\ disk' = mem
    /\ UNCHANGED <<up, mem, vntVars, guard, ftpVars, job, mine, orphan, owed, calm, counts>>

SupStep(s) == Check(s) \/ SpawnChild(s) \/ KillChild(s) \/ SeesExit(s) \/ Wakes(s)

-----------------------------------------------------------------------------
(* The FTP server: ftp_manager and start_ftp, stop_ftp.  One port.         *)

\* start_inner stores the passwords first, start_restored looks them up: a failure
\* leaves all as it is.
Keyring(p) ==
    /\ Doing(p, "keyring")
    /\ \/ Goes(p) /\ UNCHANGED <<owed, faults>>
       \/ Ends(p) /\ owed' = owed \ {"ftp"} /\ Fault
    /\ UNCHANGED <<mem, disk, vntVars, guard, ftpVars, mine, orphan, calm, issued, crashes>>

FtpTake(p) ==
    /\ Doing(p, "ftpTake") /\ Goes(p)
    /\ ftpRuntime' = None
    /\ mine' = [mine EXCEPT ![p] = ftpRuntime]
    /\ srv' = IF ftpRuntime = None THEN srv ELSE [srv EXCEPT ![ftpRuntime] = "closing"]
    /\ UNCHANGED <<mem, disk, vntVars, guard, orphan, owed, calm, counts>>

FtpJoin(p) ==
    /\ Doing(p, "ftpJoin") /\ Goes(p)
    /\ Waits(mine[p] \in {None} \union {k \in Ids : srv[k] = "ended"})
    /\ UNCHANGED <<mem, disk, vntVars, guard, ftpVars, mine, orphan, owed, issued, crashes>>

SrvEnds(k) ==
    /\ up # "down" /\ srv[k] = "closing"
    /\ srv' = [srv EXCEPT ![k] = "ended"]
    /\ UNCHANGED <<up, mem, disk, vntVars, guard, ftpRuntime, job, mine, orphan,
                   owed, calm, counts>>

PortFree == \A k \in Ids : srv[k] \notin {"listening", "closing"}

\* A refusal leaves the state as it is, although the old server has been stopped.
FtpListen(p) ==
    /\ Doing(p, "ftpListen")
    /\ \/ /\ PortFree /\ Goes(p)
          /\ \E k \in Ids : /\ Fresh(srv, k)
                            /\ srv' = [srv EXCEPT ![k] = "listening"]
                            /\ mine' = [mine EXCEPT ![p] = k]
          /\ UNCHANGED <<owed, faults>>
       \/ /\ Ends(p) /\ owed' = owed \ {"ftp"}
          /\ IF PortFree THEN Fault ELSE UNCHANGED faults
          /\ UNCHANGED <<srv, mine>>
    /\ UNCHANGED <<mem, disk, vntVars, guard, ftpRuntime, orphan, calm, issued, crashes>>

\* After 3 s in which the listener reported no error.
FtpHold(p) ==
    /\ Doing(p, "ftpHold") /\ Goes(p)
    /\ ftpRuntime' = mine[p]
    /\ UNCHANGED <<mem, disk, vntVars, guard, srv, mine, orphan, owed, calm, counts>>

-----------------------------------------------------------------------------
(* The daemon process.                                                     *)

ChildAlive == \E s \in Ids : sup[s] \in {"running"}

\* All coroutines end; a child does not.
ProcessEnds ==
    /\ up' = "down" /\ mem' = Stopped
    /\ runtime' = None /\ sup' = [s \in Ids |-> "none"] /\ cancelled' = {}
    /\ guard' = "none"
    /\ ftpRuntime' = None /\ srv' = [k \in Ids |-> "none"]
    /\ job' = [p \in Procs |-> Idle] /\ mine' = [p \in Procs |-> None]
    /\ orphan' = (orphan \/ ChildAlive) /\ calm' = TRUE
    /\ UNCHANGED disk

Exit(p) ==
    /\ Doing(p, "exit")
    /\ ProcessEnds
    /\ UNCHANGED <<owed, counts>>

\* What an idle daemon had running is owed to the user.
Crash ==
    /\ up # "down" /\ crashes < MaxCrashes
    /\ owed' = IF up = "restore" THEN owed
               ELSE IF AllIdle THEN {x \in DOMAIN mem : mem[x]} ELSE {}
    /\ ProcessEnds
    /\ crashes' = crashes + 1
    /\ UNCHANGED <<issued, faults>>

\* Wrong: what was running is looked for among what is running now.
WrongRestore == IF mem.vnt /\ mem.ftp THEN "restoreBoth"
                ELSE IF mem.vnt THEN "restoreVnt"
                ELSE IF mem.ftp THEN "restoreFtp" ELSE "none"

\* load_or_init and restore_services.
Restore == IF disk.vnt /\ disk.ftp THEN "restoreBoth"
           ELSE IF disk.vnt THEN "restoreVnt"
           ELSE IF disk.ftp THEN "restoreFtp" ELSE "none"

Start ==
    /\ up = "down"
    /\ IF Restore = "none"
       THEN up' = "serving" /\ UNCHANGED job
       ELSE /\ up' = "restore"
            /\ job' = [job EXCEPT ![Boot] = [op |-> Restore, step |-> 1]]
    /\ UNCHANGED <<mem, disk, vntVars, guard, ftpVars, mine, orphan, owed, calm, counts>>

-----------------------------------------------------------------------------
Work(p) ==
    \/ Spawn(p)   \/ Take(p)    \/ Join(p)      \/ SetMem(p)  \/ Save(p)
    \/ Keyring(p) \/ FtpTake(p) \/ FtpJoin(p) \/ FtpListen(p) \/ FtpHold(p) \/ Exit(p)

\* What the daemon does by itself.
Progress ==
    \/ \E p \in Procs : Work(p)
    \/ \E s \in Ids : SupStep(s) \/ SrvEnds(s)

Next ==
    \/ \E c \in Conns : Request(c)
    \/ Progress
    \/ \E s \in Ids : ChildExits(s) \/ OutputSave(s)
    \/ Crash \/ Start

Spec == Init /\ [][Next]_vars

\* Coroutines are polled, a killed child dies, a cancelled listener closes.  Bounded
\* faults bound the steps of each, so that none needs a fairness of its own.
Fairness == WF_vars(Progress)

FairSpec == Spec /\ Fairness

-----------------------------------------------------------------------------
(* Properties.                                                             *)

SupPC == {"none", "check", "spawning", "running", "exited", "backoff", "over", "failed"}
Ops   == DOMAIN Script
Jobs  == {Idle} \union [op : Ops, step : 1..11]

\* Every variable keeps its type.
TypeOK ==
    /\ up \in {"down", "restore", "serving"}
    /\ mem \in [vnt : BOOLEAN, ftp : BOOLEAN] /\ disk \in [vnt : BOOLEAN, ftp : BOOLEAN]
    /\ runtime \in Ids \union {None} /\ guard \in Procs \union {"none"}
    /\ sup \in [Ids -> SupPC] /\ cancelled \subseteq Ids
    /\ ftpRuntime \in Ids \union {None}
    /\ srv \in [Ids -> {"none", "listening", "closing", "ended"}]
    /\ job \in [Procs -> Jobs] /\ mine \in [Procs -> Ids \union {None}]
    /\ {orphan, calm} \subseteq BOOLEAN /\ owed \subseteq {"vnt", "ftp"}
    /\ issued \in 0..MaxRequests /\ crashes \in 0..MaxCrashes /\ faults \in 0..MaxFaults

\* A supervisor that nobody cancelled is the one that stop would take: there is at
\* most one, and it can be stopped.
SupervisorHeld ==
    \A s \in Ids : sup[s] # "none" /\ s \notin cancelled => runtime = s

\* When no request is in progress, the file records what runs.  (It may also record an
\* FTP server whose restoration was refused, for the next daemon to try again.)
DiskFollows ==
    up = "serving" /\ AllIdle => (disk.vnt <=> mem.vnt) /\ (mem.ftp => disk.ftp)

\* What ran when an idle daemon crashed runs again once the next one serves, unless
\* the FTP server was refused ("after a restart the services are restored").
RestoreKeepsServices ==
    up = "serving" => \A x \in owed : mem[x]

\* Between requests the flags are true: VNT runs when there is a supervisor to stop, and
\* an FTP server that could be stopped is shown as running.  A stop that overlaps a start
\* breaks this, since stop has released the lock when it sets the flags.
RunningIsTrue ==
    up = "serving" /\ AllIdle =>
        (mem.vnt <=> runtime # None) /\ (ftpRuntime # None => mem.ftp)

\* The flags are true after requests that did not overlap.
StateIsTrue == calm => RunningIsTrue

\* A restart does not start the new vnt-cli before the old one has ended, unless the
\* stop gave up waiting or another request came between.
NoTwoChildren ==
    calm => Cardinality({s \in Ids : sup[s] = "running"}) <= 1

\* A stop leaves no vnt-cli behind ("fallback: make sure the process has ended").
NoneLeftBehind == \A p \in Conns : Doing(p, "stopped") => ~orphan

\* Supervisors that are cancelled end, and their children with them.
SupervisorEnds == []<>(\A s \in cancelled : Over(s))

\* A child that exits is replaced, unless it cannot be: again and again each supervisor
\* that nobody cancelled has a running one.
ChildComesBack ==
    []<>(\A s \in Ids \ cancelled : sup[s] \in {"none", "running", "failed"})
=============================================================================
