--------------------------- MODULE VntDaemonProofs ---------------------------
(***************************************************************************)
(* What TLC checks of the daemon on two connections, for any number of     *)
(* connections, requests, crashes and faults: the types; the supervisor    *)
(* that VNT_RUNTIME holds is the only one that runs on; the file follows   *)
(* the flags; what ran when the daemon crashed is restored; the flags are  *)
(* true, and no two children run, when requests do not overlap.            *)
(***************************************************************************)
EXTENDS VntDaemon, FiniteSetTheorems, TLAPS

-----------------------------------------------------------------------------
(* The invariants.                                                         *)

\* The step of its script that a process is at.
Part(p) == IF job[p] = Idle THEN "none" ELSE Script[job[p].op][job[p].step]

SomeAt(part) == \E p \in Procs : Part(p) = part

\* Each step of a script, and those that may come after it in one.
After ==
    [spawn |-> {"runs"}, runs |-> {"save"},
     take |-> {"join"}, join |-> {"stopped"}, stopped |-> {"save"},
     keyring |-> {"ftpTake"}, ftpTake |-> {"ftpJoin"}, ftpJoin |-> {"ftpStopped", "ftpListen"},
     ftpStopped |-> {"save"}, ftpListen |-> {"ftpHold"}, ftpHold |-> {"ftpRuns"},
     ftpRuns |-> {"save"}, save |-> {"none", "spawn", "keyring", "ftpTake", "exit"},
     exit |-> {"none"}]

\* A job is at a step of its script.
InScript == \A p \in Procs : job[p] # Idle => job[p].step \in 1..Len(Script[job[p].op])

\* Only a serving daemon has requests, and only one that restores has the restoration.
Phases ==
    /\ up = "down" => /\ AllIdle /\ mem = Stopped /\ runtime = None /\ ftpRuntime = None
                      /\ \A s \in Ids : sup[s] = "none"
    /\ up = "serving" => job[Boot] = Idle
    /\ up = "restore" => /\ \A c \in Conns : job[c] = Idle
                         /\ job[Boot].op \in {"restoreVnt", "restoreFtp", "restoreBoth"}

BootOp == job[Boot].op
BootStep == job[Boot].step

\* What the restoration has done so far, by the step it is at.
Restoring ==
    up = "restore" =>
        /\ BootOp = "restoreFtp" => ~disk.vnt /\ ~mem.vnt
        /\ BootOp # "restoreFtp" => /\ BootStep = 1 => runtime = None
                                    /\ BootStep >= 3 => mem.vnt
                                    /\ BootStep >= 4 => disk.vnt
        /\ mem.ftp <=> <<BootOp, BootStep>> \in {<<"restoreFtp", 7>>, <<"restoreBoth", 10>>}

\* A flag that the file does not show yet is about to be saved.
Unsaved ==
    up = "serving" /\ (disk.vnt # mem.vnt \/ (mem.ftp /\ ~disk.ftp)) => SomeAt("save")

\* A service that is owed is in the file, then in the restoration, then in the state.
Owes ==
    crashes <= 1 /\ owed # {} =>
        /\ crashes = 1
        /\ up = "down" => \A x \in owed : disk[x]
        /\ up = "restore" => /\ "vnt" \in owed => BootOp # "restoreFtp"
                             /\ "ftp" \in owed => BootOp # "restoreVnt"
        /\ up = "serving" => AllIdle /\ \A x \in owed : mem[x]

\* A supervisor is known to the state before it can be held or cancelled.
Known == \A s \in Ids : runtime = s \/ s \in cancelled => sup[s] # "none"

Alive(s) == sup[s] \notin {"none", "over", "failed"}

\* Every process but p is idle; the flags are true but for what p is about to set, and
\* only the supervisor that p waits for is cancelled and alive.
Alone(p) ==
    /\ \A q \in Procs \ {p} : job[q] = Idle
    /\ Part(p) = "runs" => runtime # None
    /\ Part(p) \in {"join", "stopped"} => runtime = None
    /\ Part(p) \in {"runs", "join", "stopped"} \/ (mem.vnt <=> runtime # None)
    /\ Part(p) \in {"ftpJoin", "ftpStopped", "ftpListen", "ftpHold"} => ftpRuntime = None
    /\ ftpRuntime # None => mem.ftp \/ Part(p) = "ftpRuns"
    /\ \A s \in cancelled : Alive(s) => Part(p) = "join" /\ mine[p] = s

\* Without overlapping requests one process at most is at work.
OneAtATime == calm => \E p \in Procs : Alone(p)

\* What the argument needs of the types.
SupTyped == runtime \in Ids \union {None} /\ sup \in [Ids -> SupPC]

\* SupervisorHeld is inductive once the supervisors are typed.
Held == SupTyped /\ SupervisorHeld

-----------------------------------------------------------------------------
(* The supervisors.                                                        *)

USE DEF None

\* At the start there is no supervisor.
LEMMA HeldInit == Init => Held
BY DEF Init, Held, SupTyped, SupervisorHeld, SupPC

\* start: the lock is free, and a supervisor is only added when none is held.
LEMMA HeldSpawn ==
    ASSUME Held, NEW p, Spawn(p)
    PROVE  Held'
<1>1. CASE runtime # None
  <2>1. UNCHANGED vntVars
    BY <1>1 DEF Spawn
  <2>2. QED BY <2>1 DEF vntVars, Held, SupTyped, SupervisorHeld
<1>2. CASE runtime = None
  <2>1. PICK s \in Ids : runtime' = s /\ sup' = [sup EXCEPT ![s] = "check"]
    BY <1>2 DEF Spawn
  <2>2. cancelled' = cancelled
    BY <1>2 DEF Spawn
  <2>3. \A t \in Ids : sup[t] # "none" => t \in cancelled
    <3>1. 0 \notin Ids
      BY ConstantsOK DEF Ids
    <3>2. QED BY <1>2, <3>1 DEF Held, SupervisorHeld
  <2>4. SupTyped'
    BY <2>1 DEF Held, SupTyped, SupPC
  <2>5. SupervisorHeld'
    BY <2>1, <2>2, <2>3 DEF Held, SupTyped, SupervisorHeld
  <2>6. QED BY <2>4, <2>5 DEF Held
<1>3. QED BY <1>1, <1>2

\* stop: whatever VNT_RUNTIME held is cancelled when it is taken out.
LEMMA HeldTake ==
    ASSUME Held, NEW p, Take(p)
    PROVE  Held'
<1>1. runtime' = None /\ cancelled' = cancelled \union ({runtime} \ {None}) /\ sup' = sup
  BY DEF Take
<1>2. 0 \notin Ids
  BY ConstantsOK DEF Ids
<1>3. SupervisorHeld'
  BY <1>1, <1>2 DEF Held, SupervisorHeld
<1>4. QED BY <1>1, <1>3 DEF Held, SupTyped

\* Every step of a supervisor, and the exit of its child, leaves a supervisor that was
\* there and never makes one.
LEMMA HeldMoves ==
    ASSUME Held, NEW s \in Ids, NEW pc \in SupPC, sup[s] # "none",
           SupGoes(s, pc), runtime' = runtime, cancelled' = cancelled
    PROVE  Held'
<1>1. sup' = [sup EXCEPT ![s] = pc]
  BY DEF SupGoes
<1>2. SupTyped'
  BY <1>1 DEF Held, SupTyped
<1>3. SupervisorHeld'
  BY <1>1 DEF Held, SupTyped, SupervisorHeld
<1>4. QED BY <1>2, <1>3 DEF Held

\* The end of the process ends all supervisors.
LEMMA HeldEnds ==
    ASSUME ProcessEnds
    PROVE  Held'
BY DEF ProcessEnds, Held, SupTyped, SupervisorHeld, SupPC

\* Each step keeps the invariant.
LEMMA HeldStep == Held /\ [Next]_vars => Held'
<1> SUFFICES ASSUME Held, [Next]_vars PROVE Held'
    OBVIOUS
<1> USE DEF SupPC
<1>1. CASE UNCHANGED vntVars
  BY <1>1 DEF vntVars, Held, SupTyped, SupervisorHeld
<1>2. ASSUME NEW p \in Procs, Work(p) PROVE Held'
  <2>1. CASE Spawn(p) BY <2>1, HeldSpawn
  <2>2. CASE Take(p) BY <2>2, HeldTake
  <2>3. CASE Join(p) BY <2>3, <1>1 DEF Join
  <2>4. CASE SetMem(p) BY <2>4, <1>1 DEF SetMem
  <2>5. CASE Save(p) BY <2>5, <1>1 DEF Save
  <2>6. CASE Keyring(p) BY <2>6, <1>1 DEF Keyring
  <2>7. CASE FtpTake(p) BY <2>7, <1>1 DEF FtpTake
  <2>8. CASE FtpJoin(p) BY <2>8, <1>1 DEF FtpJoin
  <2>9. CASE FtpListen(p) BY <2>9, <1>1 DEF FtpListen
  <2>10. CASE FtpHold(p) BY <2>10, <1>1 DEF FtpHold
  <2>11. CASE Exit(p) BY <2>11, HeldEnds DEF Exit
  <2>12. QED
    BY <1>2, <2>1, <2>2, <2>3, <2>4, <2>5, <2>6, <2>7, <2>8, <2>9, <2>10, <2>11 DEF Work
<1>3. ASSUME NEW s \in Ids, SupStep(s) \/ ChildExits(s) PROVE Held'
  <2>1. runtime' = runtime /\ cancelled' = cancelled
    BY <1>3 DEF SupStep, Check, SpawnChild, KillChild, SeesExit, Wakes, ChildExits, SupRest
  <2>2. sup[s] # "none"
    BY <1>3 DEF SupStep, Check, SpawnChild, KillChild, SeesExit, Wakes, ChildExits, At
  <2>3. PICK pc \in SupPC : SupGoes(s, pc)
    BY <1>3 DEF SupStep, Check, SpawnChild, KillChild, SeesExit, Wakes, ChildExits
  <2>4. QED BY <2>1, <2>2, <2>3, HeldMoves
<1>4. ASSUME NEW c \in Conns, Request(c) PROVE Held'
  BY <1>4, <1>1 DEF Request
<1>5. ASSUME NEW s \in Ids, SrvEnds(s) \/ OutputSave(s) PROVE Held'
  BY <1>5, <1>1 DEF SrvEnds, OutputSave
<1>6. CASE Crash BY <1>6, HeldEnds DEF Crash
<1>7. CASE Start BY <1>7, <1>1 DEF Start
<1>8. CASE UNCHANGED vars BY <1>8, <1>1 DEF vars
<1>9. QED BY <1>2, <1>3, <1>4, <1>5, <1>6, <1>7, <1>8 DEF Next, Progress

\* A supervisor that nobody cancelled is the one VNT_RUNTIME holds: whatever requests,
\* restorations, crashes and faults interleave, none runs on that stop cannot take.
THEOREM SupervisorIsHeld == Spec => []SupervisorHeld
<1>1. Init => Held BY HeldInit
<1>2. Held /\ [Next]_vars => Held' BY HeldStep
<1>3. Held => SupervisorHeld BY DEF Held
<1>4. QED BY <1>1, <1>2, <1>3, PTL DEF Spec

-----------------------------------------------------------------------------
(* Scripts: what holds of each step is read off the ten of them.           *)

\* A script has 1..11 steps, each followed by one that may come after it.
Proper(s) ==
    /\ Len(s) \in 1..11
    /\ \A k \in 1..Len(s) :
         /\ s[k] \in DOMAIN After
         /\ k < Len(s) => s[k + 1] \in After[s[k]]
         /\ k = Len(s) => "none" \in After[s[k]]

\* Every script is proper.
LEMMA ScriptsProper == \A op \in Ops : Proper(Script[op])
<1>1. Ops = {"vntStart", "vntStop", "vntRestart", "ftpStart", "ftpStop", "ftpRestart",
             "shutdown", "restoreVnt", "restoreFtp", "restoreBoth"}
  BY DEF Ops, Script
<1>2. Proper(Script["vntStart"])
  BY DEF Script, Proper, After, VntStart
<1>3. Proper(Script["vntStop"])
  BY DEF Script, Proper, After, VntStop
<1>4. Proper(Script["vntRestart"])
  BY DEF Script, Proper, After, VntStop, VntStart
<1>5. Proper(Script["ftpStart"])
  BY DEF Script, Proper, After, FtpStart
<1>6. Proper(Script["ftpStop"])
  BY DEF Script, Proper, After, FtpStop
<1>7. Proper(Script["ftpRestart"])
  BY DEF Script, Proper, After, FtpStop, FtpStart
<1>8. Proper(Script["shutdown"])
  BY DEF Script, Proper, After, FtpStop, VntStop
<1>9. Proper(Script["restoreVnt"])
  BY DEF Script, Proper, After, VntStart
<1>10. Proper(Script["restoreFtp"])
  BY DEF Script, Proper, After, FtpStart
<1>11. Proper(Script["restoreBoth"])
  BY DEF Script, Proper, After, FtpStart, VntStart
<1>12. QED
  BY <1>1, <1>2, <1>3, <1>4, <1>5, <1>6, <1>7, <1>8, <1>9, <1>10, <1>11

\* No request begins in the middle of a stop or a start.
LEMMA RequestsBegin ==
    \A op \in Requests : Script[op][1] \in {"spawn", "take", "keyring", "ftpTake"}
<1>1. Requests = {"vntStart", "vntStop", "vntRestart", "ftpStart", "ftpStop", "ftpRestart",
                  "shutdown"}
  BY DEF Requests, Script
<1>2. QED
  BY <1>1 DEF Script, VntStart, VntStop, FtpStart, FtpStop

\* The three restorations, step by step.
LEMMA Restorations ==
    /\ Len(Script["restoreVnt"]) = 3
    /\ \A k \in 1..3 : Script["restoreVnt"][k] = <<"spawn", "runs", "save">>[k]
    /\ Len(Script["restoreFtp"]) = 7
    /\ \A k \in 1..7 : Script["restoreFtp"][k] =
         <<"keyring", "ftpTake", "ftpJoin", "ftpListen", "ftpHold", "ftpRuns", "save">>[k]
    /\ Len(Script["restoreBoth"]) = 10
    /\ \A k \in 1..10 : Script["restoreBoth"][k] =
         <<"spawn", "runs", "save", "keyring", "ftpTake", "ftpJoin", "ftpListen", "ftpHold",
           "ftpRuns", "save">>[k]
BY DEF Script, VntStart, FtpStart


\* The guard of a step, read as the part its process is at.
LEMMA DoingPart == \A p : \A x \in DOMAIN After : Doing(p, x) <=> Part(p) = x
BY DEF Doing, Part, After

\* What one step of a process does to its job: it ends, or goes on in the script.
JobOver(p) ==
    /\ job'[p] = Idle /\ Part(p)' = "none"
    /\ up' = IF p = Boot THEN "serving" ELSE up
JobGoesOn(p) ==
    /\ job'[p] = [op |-> job[p].op, step |-> job[p].step + 1]
    /\ job'[p].step <= Len(Script[job[p].op])
    /\ Part(p)' \in After[Part(p)] \ {"none"}
    /\ up' = up
Others(p) ==
    /\ \A q \in Procs \ {p} : job'[q] = job[q] /\ Part(q)' = Part(q)
    /\ job' \in [Procs -> Jobs] /\ InScript'

JobsTyped == job \in [Procs -> Jobs] /\ InScript

\* A process at work is at a step of a script.
LEMMA InJob ==
    ASSUME JobsTyped, NEW p \in Procs, job[p] # Idle
    PROVE  /\ job[p] \in [op : Ops, step : 1..11]
           /\ job[p].step \in 1..Len(Script[job[p].op])
           /\ Part(p) = Script[job[p].op][job[p].step] /\ Part(p) \in DOMAIN After
<1>1. job[p] \in [op : Ops, step : 1..11] /\ job[p].step \in 1..Len(Script[job[p].op])
  BY DEF JobsTyped, InScript, Jobs
<1>2. Proper(Script[job[p].op])
  BY <1>1, ScriptsProper
<1>3. QED BY <1>1, <1>2 DEF Proper, Part

\* A request that ends early.
LEMMA JobEnds ==
    ASSUME JobsTyped, NEW p \in Procs, Ends(p)
    PROVE  JobOver(p) /\ Others(p)
<1>1. job' = [job EXCEPT ![p] = Idle]
  BY DEF Ends
<1>2. JobOver(p)
  BY <1>1 DEF JobsTyped, JobOver, Part, Ends
<1>3. job' \in [Procs -> Jobs]
  BY <1>1 DEF JobsTyped, Jobs
<1>4. \A q \in Procs \ {p} : job'[q] = job[q]
  BY <1>1 DEF JobsTyped
<1>5. QED
  BY <1>1, <1>2, <1>3, <1>4 DEF JobsTyped, Others, Part, InScript

\* A request that goes on ends after its last step, and is at the next one otherwise.
LEMMA JobGoes ==
    ASSUME JobsTyped, NEW p \in Procs, job[p] # Idle, Goes(p)
    PROVE  /\ Others(p)
           /\ \/ JobOver(p) /\ "none" \in After[Part(p)]
                 /\ job[p].step = Len(Script[job[p].op])
              \/ JobGoesOn(p)
<1>0. /\ job[p] \in [op : Ops, step : 1..11]
      /\ job[p].step \in 1..Len(Script[job[p].op])
      /\ Part(p) = Script[job[p].op][job[p].step] /\ Part(p) \in DOMAIN After
  BY InJob
<1>1. Proper(Script[job[p].op])
  BY <1>0, ScriptsProper
<1>2. CASE job[p].step = Len(Script[job[p].op])
  <2>1. Ends(p)
    BY <1>2 DEF Goes
  <2>2. "none" \in After[Part(p)]
    BY <1>0, <1>1, <1>2 DEF Proper
  <2>3. QED BY <1>2, <2>1, <2>2, JobEnds
<1>3. CASE job[p].step # Len(Script[job[p].op])
  <2> DEFINE next == [op |-> job[p].op, step |-> job[p].step + 1]
  <2>1. job' = [job EXCEPT ![p].step = job[p].step + 1] /\ up' = up
    BY <1>3 DEF Goes
  <2>2. job'[p] = next
    BY <1>0, <2>1 DEF JobsTyped
  <2>3. \A q \in Procs \ {p} : job'[q] = job[q]
    BY <2>1 DEF JobsTyped
  <2> DEFINE len == Len(Script[job[p].op])
  <2>4. next.op = job[p].op /\ next.step \in 1..len /\ next.step \in 1..11
    <3>1. len \in 1..11
      BY <1>1 DEF Proper
    <3>2. job[p].step \in 1..len /\ job[p].step # len
      BY <1>0, <1>3
    <3>. HIDE DEF len
    <3>3. job[p].step + 1 \in 1..len /\ job[p].step + 1 \in 1..11
      BY <3>1, <3>2
    <3>4. QED BY <3>3
  <2>5. next # Idle /\ next \in Jobs
    BY <1>0, <2>4 DEF Idle, Jobs
  <2>6. job' \in [Procs -> Jobs]
    BY <2>1, <2>2, <2>3, <2>5 DEF JobsTyped
  <2>7. InScript'
    BY <2>2, <2>3, <2>4 DEF JobsTyped, InScript
  <2>8. Script[next.op][next.step] \in After[Part(p)]
    BY <1>0, <1>1, <1>3, <2>4 DEF Proper
  <2>9. Script[next.op][next.step] \in DOMAIN After
    BY <1>1, <2>4 DEF Proper
  <2>10. Part(p)' = Script[next.op][next.step]
    BY <2>2, <2>5 DEF Part
  <2>11. JobGoesOn(p)
    BY <2>1, <2>2, <2>4, <2>8, <2>9, <2>10 DEF JobGoesOn, After
  <2>12. Others(p)
    BY <2>3, <2>6, <2>7 DEF Others, Part
  <2>13. QED BY <2>11, <2>12
<1>4. QED BY <1>2, <1>3

-----------------------------------------------------------------------------
(* Types.                                                                  *)

Typed == TypeOK /\ InScript

\* The part of the types that the lemmas on jobs use.
LEMMA TypedJobs == Typed => JobsTyped
BY DEF Typed, TypeOK, JobsTyped

\* None is no supervisor and no server.
LEMMA NoneNotId == None \notin Ids
BY ConstantsOK DEF Ids

\* The types hold at the start.
LEMMA TypedInit == Init => Typed
<1> SUFFICES ASSUME Init PROVE Typed
    OBVIOUS
<1>1. job \in [Procs -> Jobs] /\ mine \in [Procs -> Ids \union {None}] /\ InScript
  BY DEF Init, InScript, Jobs
<1>2. sup \in [Ids -> SupPC] /\ srv \in [Ids -> {"none", "listening", "closing", "ended"}]
  BY DEF Init, SupPC
<1>3. issued \in 0..MaxRequests /\ crashes \in 0..MaxCrashes /\ faults \in 0..MaxFaults
  BY ConstantsOK DEF Init
<1>4. mem \in [vnt : BOOLEAN, ftp : BOOLEAN]
  BY DEF Init, Stopped
<1>5. QED BY <1>1, <1>2, <1>3, <1>4 DEF Init, Typed, TypeOK

\* A wait and a fault keep the count of the faults.
LEMMA FaultTyped ==
    ASSUME TypeOK, Fault PROVE faults' \in 0..MaxFaults
BY ConstantsOK DEF TypeOK, Fault

\* A wait that is given up is a fault.
LEMMA WaitTyped ==
    ASSUME TypeOK, NEW done, Waits(done)
    PROVE  faults' \in 0..MaxFaults /\ calm' \in BOOLEAN /\ (calm' => calm /\ done)
<1>1. CASE done /\ UNCHANGED <<calm, faults>>
  BY <1>1 DEF TypeOK
<1>2. CASE ~done /\ Fault /\ calm' = FALSE
  BY <1>2, FaultTyped
<1>3. QED BY <1>1, <1>2 DEF Waits

\* A process that does a part of its script has a job.
LEMMA DoingBusy == \A p, x : Doing(p, x) => job[p] # Idle
BY DEF Doing

\* The end of the process leaves the state of one that has not started.
LEMMA TypedEnds ==
    ASSUME Typed, ProcessEnds,
           /\ owed' \subseteq {"vnt", "ftp"} /\ issued' = issued /\ faults' = faults
           /\ crashes' \in 0..MaxCrashes
    PROVE  Typed'
BY DEF Typed, TypeOK, ProcessEnds, InScript, Jobs, SupPC, Stopped

\* A step of a request, but for the last one of shutdown, moves one job.
LEMMA WorkGoes ==
    ASSUME Typed, NEW p \in Procs, Work(p), ~Exit(p)
    PROVE  job[p] # Idle /\ Others(p) /\ (JobOver(p) \/ JobGoesOn(p))
<1>1. job[p] # Idle /\ (Goes(p) \/ Ends(p))
  BY DoingBusy DEF Work, Spawn, Take, Join, SetMem, Save, Keyring, FtpTake, FtpJoin,
     FtpListen, FtpHold
<1>2. QED BY <1>1, TypedJobs, JobEnds, JobGoes

\* Each step of a request or of the restoration.
LEMMA TypedWork ==
    ASSUME Typed, NEW p \in Procs, Work(p)
    PROVE  Typed'
<1>1. CASE Exit(p)
  BY <1>1, TypedEnds DEF Exit, counts, Typed, TypeOK
<1>2. CASE ~Exit(p)
  <2>2. Others(p) /\ (JobOver(p) \/ JobGoesOn(p))
    BY <1>2, WorkGoes
  <2>3. up' \in {"down", "restore", "serving"} /\ job' \in [Procs -> Jobs] /\ InScript'
    BY <2>2 DEF Others, JobOver, JobGoesOn, Typed, TypeOK
  <2> USE DEF Typed, TypeOK
  <2>4. CASE Spawn(p)
    BY <2>3, <2>4 DEF Spawn, SupPC, vntVars, ftpVars, counts
  <2>5. CASE Take(p)
    BY <2>3, <2>5 DEF Take, ftpVars, counts
  <2>6. CASE Join(p)
    BY <2>3, <2>6, WaitTyped DEF Join, vntVars, ftpVars
  <2>7. CASE SetMem(p)
    BY <2>3, <2>7 DEF SetMem, vntVars, ftpVars, counts
  <2>8. CASE Save(p)
    BY <2>3, <2>8 DEF Save, vntVars, ftpVars, counts
  <2>9. CASE Keyring(p)
    BY <2>3, <2>9, FaultTyped DEF Keyring, vntVars, ftpVars
  <2>10. CASE FtpTake(p)
    BY <2>3, <2>10 DEF FtpTake, vntVars, counts
  <2>11. CASE FtpJoin(p)
    BY <2>3, <2>11, WaitTyped DEF FtpJoin, vntVars, ftpVars
  <2>12. CASE FtpListen(p)
    <3>1. faults' \in 0..MaxFaults /\ owed' \subseteq {"vnt", "ftp"}
      BY <2>12, FaultTyped DEF FtpListen
    <3>2. /\ srv' \in [Ids -> {"none", "listening", "closing", "ended"}]
          /\ mine' \in [Procs -> Ids \union {None}]
      BY <2>12 DEF FtpListen
    <3>3. QED BY <2>3, <2>12, <3>1, <3>2 DEF FtpListen, vntVars
  <2>13. CASE FtpHold(p)
    BY <2>3, <2>13 DEF FtpHold, vntVars, counts
  <2>14. QED
    BY <1>2, <2>4, <2>5, <2>6, <2>7, <2>8, <2>9, <2>10, <2>11, <2>12, <2>13 DEF Work
<1>3. QED BY <1>1, <1>2

\* Every other step.
LEMMA TypedStep == Typed /\ [Next]_vars => Typed'
<1> SUFFICES ASSUME Typed, [Next]_vars PROVE Typed'
    OBVIOUS
<1> USE ConstantsOK
<1>1. ASSUME NEW p \in Procs, Work(p) PROVE Typed'
  BY <1>1, TypedWork
<1>2. ASSUME NEW c \in Conns, Request(c) PROVE Typed'
  <2>1. PICK op \in Requests : job' = [job EXCEPT ![c] = [op |-> op, step |-> 1]]
    BY <1>2 DEF Request
  <2>2. op \in Ops /\ 1 \in 1..Len(Script[op])
    BY ScriptsProper DEF Requests, Ops, Proper
  <2>3. job' \in [Procs -> Jobs] /\ InScript'
    BY <2>1, <2>2 DEF Typed, TypeOK, InScript, Jobs, Procs
  <2>4. QED
    BY <1>2, <2>3 DEF Request, Typed, TypeOK, vntVars, ftpVars
<1>3. ASSUME NEW s \in Ids, SupStep(s) \/ ChildExits(s) PROVE Typed'
  <2>1. /\ UNCHANGED SupRest /\ issued' = issued /\ crashes' = crashes
        /\ faults' \in 0..MaxFaults
    BY <1>3 DEF SupStep, Check, SpawnChild, KillChild, SeesExit, Wakes, ChildExits, Fault,
       counts, Typed, TypeOK
  <2>2. PICK pc \in SupPC : SupGoes(s, pc)
    BY <1>3 DEF SupStep, Check, SpawnChild, KillChild, SeesExit, Wakes, ChildExits, SupPC
  <2>3. QED
    BY <2>1, <2>2 DEF SupRest, SupGoes, ftpVars, Typed, TypeOK, InScript
<1>4. ASSUME NEW k \in Ids, SrvEnds(k) PROVE Typed'
  BY <1>4 DEF SrvEnds, Typed, TypeOK, InScript, vntVars, counts
<1>5. ASSUME NEW s \in Ids, OutputSave(s) PROVE Typed'
  BY <1>5 DEF OutputSave, Typed, TypeOK, InScript, vntVars, ftpVars, counts
<1>6. CASE Crash
  <2>1. owed' \subseteq {"vnt", "ftp"} /\ crashes' \in 0..MaxCrashes
    <3>1. crashes' = crashes + 1 /\ crashes < MaxCrashes
      BY <1>6 DEF Crash
    <3>2. DOMAIN mem = {"vnt", "ftp"}
      BY DEF Typed, TypeOK
    <3>3. owed' \subseteq {"vnt", "ftp"}
      BY <1>6, <3>2 DEF Crash, Typed, TypeOK
    <3>4. QED BY <3>1, <3>3 DEF Typed, TypeOK
  <2>2. QED BY <1>6, <2>1, TypedEnds DEF Crash
<1>7. CASE Start
  <2>1. CASE Restore = "none"
    BY <1>7, <2>1 DEF Start, Typed, TypeOK, InScript, vntVars, ftpVars, counts
  <2>2. CASE Restore # "none"
    <3>1. Restore \in Ops /\ 1 \in 1..Len(Script[Restore])
      <4>1. Restore \in Ops
        BY <2>2 DEF Restore, Ops, Script
      <4>2. QED BY <4>1, ScriptsProper DEF Proper
    <3>2. up' = "restore" /\ job' = [job EXCEPT ![Boot] = [op |-> Restore, step |-> 1]]
      BY <1>7, <2>2 DEF Start
    <3>3. job' \in [Procs -> Jobs] /\ InScript'
      BY <3>1, <3>2 DEF Typed, TypeOK, InScript, Jobs, Procs
    <3>4. QED
      BY <1>7, <3>2, <3>3 DEF Start, Typed, TypeOK, vntVars, ftpVars, counts
  <2>3. QED BY <2>1, <2>2
<1>8. CASE UNCHANGED vars
  BY <1>8 DEF vars, Typed, TypeOK, InScript, vntVars, ftpVars, counts
<1>9. QED BY <1>1, <1>2, <1>3, <1>4, <1>5, <1>6, <1>7, <1>8 DEF Next, Progress

\* Every variable keeps its type, for any connections and bounds.
THEOREM TypeCorrect == Spec => []TypeOK
<1>1. Init => Typed BY TypedInit
<1>2. Typed /\ [Next]_vars => Typed' BY TypedStep
<1>3. Typed => TypeOK BY DEF Typed
<1>4. QED BY <1>1, <1>2, <1>3, PTL DEF Spec

-----------------------------------------------------------------------------
(* The life of the daemon process, and the restoration.                    *)

\* What a step outside the requests leaves alone.
LEMMA SupLeaves ==
    ASSUME NEW s \in Ids, SupStep(s) \/ ChildExits(s)
    PROVE  /\ up # "down" /\ sup[s] # "none" /\ UNCHANGED SupRest /\ crashes' = crashes
           /\ \E pc \in SupPC : SupGoes(s, pc) /\ pc # "none"
                /\ (pc \notin {"over", "failed"} => sup[s] \notin {"over", "failed"})
BY DEF SupStep, Check, SpawnChild, KillChild, SeesExit, Wakes, ChildExits, At, SupPC, counts

\* At the start the daemon is down.
LEMMA PhasesInit == Init => Phases
BY DEF Init, Phases, AllIdle

\* The end of the process, for the invariants that do not read the rest of it.
LEMMA ProcessEndsDown ==
    ASSUME ProcessEnds
    PROVE  /\ up' = "down" /\ AllIdle' /\ mem' = Stopped /\ runtime' = None
           /\ ftpRuntime' = None /\ cancelled' = {} /\ \A s \in Ids : sup'[s] = "none"
           /\ disk' = disk /\ (calm = TRUE)'
BY DEF ProcessEnds, AllIdle

\* Who can be at work: in a daemon that is up, and Boot only while it restores.
LEMMA AtWork ==
    ASSUME Phases, NEW p \in Procs, job[p] # Idle
    PROVE  \/ up = "restore" /\ p = Boot
           \/ up # "down" /\ up # "restore" /\ p \in Conns /\ p # Boot
           \/ up \notin {"down", "restore", "serving"}
BY ConstantsOK DEF Phases, AllIdle, Procs, Boot

\* Requests belong to a serving daemon, the restoration to one that restores.
LEMMA PhasesStep == Typed /\ Phases /\ [Next]_vars => Phases'
<1> SUFFICES ASSUME Typed, Phases, [Next]_vars PROVE Phases'
    OBVIOUS
<1> USE ConstantsOK
<1>1. ASSUME NEW p \in Procs, Work(p) PROVE Phases'
  <2>1. CASE Exit(p)
    BY <2>1, ProcessEndsDown DEF Exit, Phases
  <2>2. CASE ~Exit(p)
    <3>1. job[p] # Idle /\ Others(p) /\ (JobOver(p) \/ JobGoesOn(p))
      BY <1>1, <2>2, WorkGoes
    <3>2. \/ up = "restore" /\ p = Boot
          \/ up = "serving" /\ p \in Conns /\ p # Boot
      BY <3>1, AtWork DEF Typed, TypeOK
    <3>3. QED
      BY <3>1, <3>2 DEF Others, JobOver, JobGoesOn, Phases, Procs, Boot
  <2>3. QED BY <2>1, <2>2
<1>2. ASSUME NEW c \in Conns, Request(c) PROVE Phases'
  BY <1>2 DEF Request, Phases, Procs, Boot, Typed, TypeOK
<1>3. ASSUME NEW s \in Ids, SupStep(s) \/ ChildExits(s) PROVE Phases'
  BY <1>3, SupLeaves DEF SupRest, Phases
<1>4. ASSUME NEW s \in Ids, SrvEnds(s) \/ OutputSave(s) PROVE Phases'
  BY <1>4 DEF SrvEnds, OutputSave, Phases
<1>5. CASE Crash
  BY <1>5, ProcessEndsDown DEF Crash, Phases
<1>6. CASE Start
  <2>1. AllIdle
    BY <1>6 DEF Start, Phases
  <2>2. CASE Restore = "none"
    BY <1>6, <2>1, <2>2 DEF Start, Phases, AllIdle, Procs
  <2>3. CASE Restore # "none"
    <3>1. up' = "restore" /\ job' = [job EXCEPT ![Boot] = [op |-> Restore, step |-> 1]]
      BY <1>6, <2>3 DEF Start
    <3>2. Restore \in {"restoreVnt", "restoreFtp", "restoreBoth"}
      BY <2>3 DEF Restore
    <3>3. QED
      BY <2>1, <3>1, <3>2 DEF Phases, AllIdle, Procs, Boot, Typed, TypeOK
  <2>4. QED BY <2>2, <2>3
<1>7. CASE UNCHANGED vars
  BY <1>7 DEF vars, Phases, AllIdle, vntVars, ftpVars
<1>8. QED BY <1>1, <1>2, <1>3, <1>4, <1>5, <1>6, <1>7 DEF Next, Progress

\* Where in the restoration each part comes, and which parts never do.
LEMMA RestoreParts ==
    ASSUME Typed, Phases, up = "restore"
    PROVE  /\ job[Boot] # Idle /\ BootStep \in 1..10 /\ Boot \in Procs
           /\ BootOp \in {"restoreVnt", "restoreFtp", "restoreBoth"}
           /\ BootStep = Len(Script[BootOp]) <=>
                <<BootOp, BootStep>> \in {<<"restoreVnt", 3>>, <<"restoreFtp", 7>>,
                                          <<"restoreBoth", 10>>}
           /\ Part(Boot) = "spawn" <=> BootOp # "restoreFtp" /\ BootStep = 1
           /\ Part(Boot) = "runs" <=> BootOp # "restoreFtp" /\ BootStep = 2
           /\ Part(Boot) = "save" <=>
                <<BootOp, BootStep>> \in {<<"restoreVnt", 3>>, <<"restoreFtp", 7>>,
                                          <<"restoreBoth", 3>>, <<"restoreBoth", 10>>}
           /\ Part(Boot) = "ftpRuns" <=>
                <<BootOp, BootStep>> \in {<<"restoreFtp", 6>>, <<"restoreBoth", 9>>}
           /\ Part(Boot) \in {"keyring", "ftpListen"} =>
                BootOp = "restoreFtp" \/ (BootOp = "restoreBoth" /\ BootStep \in 4..8)
           /\ Part(Boot) \notin {"take", "join", "stopped", "ftpStopped", "exit"}
<1> USE DEF BootOp, BootStep
<1>1. job[Boot].op \in {"restoreVnt", "restoreFtp", "restoreBoth"} /\ Boot \in Procs
  BY DEF Phases, Procs
<1>2. job[Boot] # Idle
  BY <1>1 DEF Idle
<1>3. /\ job[Boot].step \in 1..Len(Script[job[Boot].op])
      /\ Part(Boot) = Script[job[Boot].op][job[Boot].step]
  BY <1>1, <1>2, InJob, TypedJobs
<1>4. CASE job[Boot].op = "restoreVnt"
  BY <1>2, <1>1, <1>3, <1>4, Restorations
<1>5. CASE job[Boot].op = "restoreFtp"
  <2>1. /\ job[Boot].step \in 1..7
        /\ Part(Boot) = <<"keyring", "ftpTake", "ftpJoin", "ftpListen", "ftpHold", "ftpRuns",
                         "save">>[job[Boot].step]
    BY <1>3, <1>5, Restorations
  <2>2. Len(Script["restoreFtp"]) = 7
    BY Restorations
  <2>3. /\ Part(Boot) = "save" <=> job[Boot].step = 7
        /\ Part(Boot) = "ftpRuns" <=> job[Boot].step = 6
        /\ Part(Boot) \notin {"spawn", "runs", "take", "join", "stopped", "ftpStopped", "exit"}
    BY <2>1
  <2>4. QED BY <1>1, <1>2, <1>5, <2>1, <2>2, <2>3
<1>6. CASE job[Boot].op = "restoreBoth"
  BY <1>2, <1>1, <1>3, <1>6, Restorations
<1>7. QED BY <1>1, <1>4, <1>5, <1>6

\* The restoration does what its record asks for, and nothing runs before it.
LEMMA RestoringInit == Init => Restoring
BY DEF Init, Restoring

\* The restoration makes its next step.
LEMMA RestoringWork ==
    ASSUME Typed, Phases, Restoring, up = "restore", Work(Boot), up' = "restore"
    PROVE  Restoring'
<1> USE DEF BootOp, BootStep
<1>0. /\ job[Boot] # Idle /\ Boot \in Procs /\ "save" \in DOMAIN After
      /\ {"spawn", "runs", "ftpRuns", "exit", "stopped", "ftpStopped"} \subseteq DOMAIN After
  BY RestoreParts DEF After
<1>1. ~Exit(Boot)
  BY RestoreParts, DoingPart, <1>0 DEF Exit
<1>2. /\ Boot \in Procs /\ job'[Boot] = [op |-> job[Boot].op, step |-> job[Boot].step + 1]
  BY <1>0, <1>1, WorkGoes DEF JobOver, JobGoesOn
<1>3. job[Boot].step \in 1..10 /\ job[Boot].step # Len(Script[job[Boot].op])
  <2>1. Len(Script[job[Boot].op]) \in Nat
    BY <1>0, RestoreParts, Restorations
  <2>2. job'[Boot].step <= Len(Script[job[Boot].op])
    BY <1>0, <1>1, WorkGoes DEF JobOver, JobGoesOn
  <2>3. QED BY <1>2, <2>1, <2>2, RestoreParts
<1>4. CASE Spawn(Boot)
  <2>1. Part(Boot) = "spawn" /\ mem' = mem /\ disk' = disk
    BY <1>0, <1>4, DoingPart DEF Spawn
  <2>2. QED BY <1>2, <1>3, <2>1, RestoreParts DEF Restoring
<1>5. CASE SetMem(Boot)
  <2>1. \/ Part(Boot) = "runs" /\ mem' = [mem EXCEPT !.vnt = TRUE]
        \/ Part(Boot) = "ftpRuns" /\ mem' = [mem EXCEPT !.ftp = TRUE]
    BY <1>0, <1>5, DoingPart, RestoreParts DEF SetMem
  <2>2. disk' = disk /\ runtime' = runtime
    BY <1>5 DEF SetMem, vntVars
  <2>3. CASE Part(Boot) = "runs"
    BY <1>2, <1>3, <2>1, <2>2, <2>3, RestoreParts DEF Restoring, Typed, TypeOK
  <2>4. CASE Part(Boot) = "ftpRuns"
    BY <1>2, <1>3, <2>1, <2>2, <2>4, RestoreParts DEF Restoring, Typed, TypeOK
  <2>5. QED BY <2>1, <2>3, <2>4
<1>6. CASE Save(Boot)
  <2>1. Part(Boot) = "save" /\ mem' = mem /\ disk' = mem /\ runtime' = runtime
    BY <1>0, <1>6, DoingPart DEF Save, vntVars
  <2>2. QED BY <1>2, <1>3, <2>1, RestoreParts DEF Restoring, Typed, TypeOK
<1>7. CASE ~Spawn(Boot) /\ ~SetMem(Boot) /\ ~Save(Boot)
  <2>1. mem' = mem /\ disk' = disk
    BY <1>1, <1>7 DEF Work, Take, Join, Keyring, FtpTake, FtpJoin, FtpListen, FtpHold
  <2>2. Part(Boot) \notin {"spawn", "runs", "save", "ftpRuns"}
    BY <1>0, <1>1, <1>7, DoingPart, Restorations DEF Work, Take, Join, Keyring, FtpTake, FtpJoin,
       FtpListen, FtpHold, After
  <2>3. QED BY <1>2, <1>3, <2>1, <2>2, RestoreParts DEF Restoring
<1>8. QED BY <1>4, <1>5, <1>6, <1>7

\* Each step keeps what the restoration has done so far.
LEMMA RestoringStep ==
    Typed /\ Phases /\ Restoring /\ [Next]_vars => Restoring'
<1> SUFFICES ASSUME Typed, Phases, Restoring, [Next]_vars, up' = "restore" PROVE Restoring'
    BY DEF Restoring
<1> USE DEF BootOp, BootStep
<1>1. ASSUME NEW p \in Procs, Work(p) PROVE Restoring'
  <2>1. CASE Exit(p)
    BY <2>1, ProcessEndsDown DEF Exit
  <2>2. CASE ~Exit(p)
    <3>1. job[p] # Idle /\ (JobOver(p) \/ JobGoesOn(p))
      BY <1>1, <2>2, WorkGoes
    <3>2. up = "restore" /\ p = Boot
      BY <3>1, AtWork DEF JobOver, JobGoesOn, Typed, TypeOK
    <3>3. QED BY <1>1, <3>2, RestoringWork
  <2>3. QED BY <2>1, <2>2
<1>2. ASSUME NEW c \in Conns, Request(c) PROVE Restoring'
  BY <1>2 DEF Request
<1>3. ASSUME NEW s \in Ids, SupStep(s) \/ ChildExits(s) PROVE Restoring'
  BY <1>3, SupLeaves DEF SupRest, Restoring
<1>4. ASSUME NEW s \in Ids, SrvEnds(s) PROVE Restoring'
  BY <1>4 DEF SrvEnds, Restoring, vntVars
<1>5. ASSUME NEW s \in Ids, OutputSave(s) PROVE Restoring'
  <2>1. /\ UNCHANGED <<up, mem, runtime, job>> /\ disk' = mem /\ up = "restore"
    BY <1>5 DEF OutputSave, vntVars
  <2>2. job[Boot].step \in 1..10
    BY <2>1, RestoreParts
  <2>3. QED BY <2>1, <2>2 DEF Restoring
<1>6. CASE Crash
  BY <1>6, ProcessEndsDown DEF Crash
<1>7. CASE Start
  <2>1. /\ job' = [job EXCEPT ![Boot] = [op |-> Restore, step |-> 1]]
        /\ mem' = mem /\ disk' = disk /\ runtime' = runtime
    BY <1>7 DEF Start, vntVars
  <2>2. job'[Boot] = [op |-> Restore, step |-> 1]
    BY <2>1 DEF Typed, TypeOK, Procs
  <2>3. mem = Stopped /\ runtime = None
    BY <1>7 DEF Start, Phases
  <2>4. Restore = "restoreFtp" => ~disk.vnt
    BY DEF Restore
  <2>5. QED BY <2>1, <2>2, <2>3, <2>4 DEF Restoring, Stopped
<1>8. CASE UNCHANGED vars
  BY <1>8 DEF vars, Restoring, vntVars
<1>9. QED BY <1>1, <1>2, <1>3, <1>4, <1>5, <1>6, <1>7, <1>8 DEF Next, Progress

-----------------------------------------------------------------------------
(* The file follows the flags.                                             *)

\* At the start nothing is to be saved.
LEMMA UnsavedInit == Init => Unsaved
BY DEF Init, Unsaved

\* A step that leaves flags and file alone and does not end a save.
LEMMA UnsavedKept ==
    ASSUME Unsaved, NEW p \in Procs, Others(p), Part(p) # "save", up = "serving",
           mem' = mem, disk' = disk
    PROVE  Unsaved'
BY DEF Unsaved, SomeAt, Others

\* The restoration, when it ends, has saved all it set.
LEMMA RestoringEnds ==
    ASSUME Typed, Phases, Restoring, up = "restore", Work(Boot), JobOver(Boot)
    PROVE  (disk'.vnt <=> mem'.vnt) /\ (mem'.ftp => disk'.ftp)
<1> USE DEF BootOp, BootStep
<1>0. /\ job[Boot] # Idle /\ Boot \in Procs
      /\ {"keyring", "save", "ftpListen", "spawn", "exit"} \subseteq DOMAIN After
  BY RestoreParts DEF After
<1>1. ~Exit(Boot)
  BY RestoreParts, DoingPart, <1>0 DEF Exit
<1>2. CASE Save(Boot)
  BY <1>2 DEF Save
<1>3. CASE Keyring(Boot) \/ FtpListen(Boot)
  <2>1. mem' = mem /\ disk' = disk /\ Part(Boot) \in {"keyring", "ftpListen"}
    BY <1>0, <1>3, DoingPart DEF Keyring, FtpListen
  <2>2. ~mem.ftp
    BY <2>1, RestoreParts DEF Restoring
  <2>3. disk.vnt <=> mem.vnt
    BY <2>1, RestoreParts DEF Restoring, Typed, TypeOK
  <2>4. QED BY <2>1, <2>2, <2>3
<1>4. CASE ~Save(Boot) /\ ~Keyring(Boot) /\ ~FtpListen(Boot)
  <2>1. runtime = None \/ ~Spawn(Boot)
    BY <1>0, DoingPart, RestoreParts DEF Spawn, Restoring
  <2>2. Goes(Boot)
    BY <1>1, <1>4, <2>1 DEF Work, Spawn, Take, Join, SetMem, FtpTake, FtpJoin, FtpHold
  <2>3. job[Boot].step = Len(Script[job[Boot].op])
    BY <1>0, <2>2, JobGoes, TypedJobs DEF JobOver, JobGoesOn, Idle
  <2>4. Part(Boot) = "save"
    BY <2>3, RestoreParts
  <2>5. FALSE
    BY <1>0, <1>1, <1>4, <2>4, DoingPart DEF Work, Spawn, Take, Join, SetMem, FtpTake,
       FtpJoin, FtpHold, After
  <2>6. QED BY <2>5
<1>5. QED BY <1>2, <1>3, <1>4

\* Whoever changes a flag saves next.
LEMMA UnsavedWork ==
    ASSUME Typed, Unsaved, up = "serving", NEW p \in Procs, Work(p), ~Exit(p)
    PROVE  Unsaved'
<1>0. job[p] # Idle /\ Others(p) /\ (JobOver(p) \/ JobGoesOn(p))
  BY WorkGoes
<1>1. CASE SetMem(p)
  <2>1. After[Part(p)] = {"save"}
    BY <1>1, DoingPart DEF SetMem, After
  <2>2. Part(p)' = "save"
    BY <1>0, <1>1, <2>1, JobGoes, TypedJobs DEF SetMem, JobGoesOn
  <2>3. QED BY <2>2 DEF Unsaved, SomeAt
<1>2. CASE Save(p)
  BY <1>2 DEF Save, Unsaved
<1>3. CASE ~SetMem(p) /\ ~Save(p)
  <2>1. mem' = mem /\ disk' = disk
    BY <1>3 DEF Work, Spawn, Take, Join, Keyring, FtpTake, FtpJoin, FtpListen, FtpHold
  <2>2. Part(p) # "save"
    BY <1>3, DoingPart DEF Work, Spawn, Take, Join, Keyring, FtpTake, FtpJoin, FtpListen,
       FtpHold, Exit, After
  <2>3. QED BY <1>0, <2>1, <2>2, UnsavedKept
<1>4. QED BY <1>1, <1>2, <1>3

\* Each step leaves a save to come, or file and flags in agreement.
LEMMA UnsavedStep ==
    Typed /\ Phases /\ Restoring /\ Unsaved /\ [Next]_vars => Unsaved'
<1> SUFFICES ASSUME Typed, Phases, Restoring, Unsaved, [Next]_vars PROVE Unsaved'
    OBVIOUS
<1>1. ASSUME NEW p \in Procs, Work(p) PROVE Unsaved'
  <2>1. CASE Exit(p)
    BY <2>1, ProcessEndsDown DEF Exit, Unsaved
  <2>2. CASE ~Exit(p)
    <3>1. job[p] # Idle /\ (JobOver(p) \/ JobGoesOn(p))
      BY <1>1, <2>2, WorkGoes
    <3>2. CASE up = "serving"
      BY <1>1, <2>2, <3>2, UnsavedWork
    <3>3. CASE up # "serving"
      <4>1. up = "restore" /\ p = Boot
        BY <3>1, <3>3, AtWork DEF Typed, TypeOK
      <4>2. CASE JobOver(p)
        <5>1. (disk'.vnt <=> mem'.vnt) /\ (mem'.ftp => disk'.ftp)
          BY <1>1, <4>1, <4>2, RestoringEnds
        <5>2. /\ mem' \in [vnt : BOOLEAN, ftp : BOOLEAN]
              /\ disk' \in [vnt : BOOLEAN, ftp : BOOLEAN]
          BY TypedStep DEF Typed, TypeOK
        <5>3. QED BY <5>1, <5>2 DEF Unsaved
      <4>3. CASE JobGoesOn(p)
        BY <3>3, <4>3 DEF JobGoesOn, Unsaved
      <4>4. QED BY <3>1, <4>2, <4>3
    <3>4. QED BY <3>2, <3>3
  <2>3. QED BY <2>1, <2>2
<1>2. ASSUME NEW c \in Conns, Request(c) PROVE Unsaved'
  <2>1. PICK op \in Requests : job' = [job EXCEPT ![c] = [op |-> op, step |-> 1]]
    BY <1>2 DEF Request
  <2>2. job[c] = Idle /\ mem' = mem /\ disk' = disk /\ up = "serving"
    BY <1>2 DEF Request
  <2>3. \A q \in Procs \ {c} : job'[q] = job[q]
    BY <2>1 DEF Typed, TypeOK
  <2>4. \A q \in Procs : Part(q) = "save" => Part(q)' = "save"
    BY <2>2, <2>3 DEF Part
  <2>5. QED BY <2>2, <2>4 DEF Unsaved, SomeAt
<1>3. ASSUME NEW s \in Ids, SupStep(s) \/ ChildExits(s) PROVE Unsaved'
  BY <1>3, SupLeaves DEF SupRest, Unsaved, SomeAt, Part
<1>4. ASSUME NEW s \in Ids, SrvEnds(s) PROVE Unsaved'
  BY <1>4 DEF SrvEnds, Unsaved, SomeAt, Part
<1>5. ASSUME NEW s \in Ids, OutputSave(s) PROVE Unsaved'
  BY <1>5 DEF OutputSave, Unsaved
<1>6. CASE Crash
  BY <1>6, ProcessEndsDown DEF Crash, Unsaved
<1>7. CASE Start
  <2>1. mem = Stopped /\ mem' = mem /\ disk' = disk
    BY <1>7 DEF Start, Phases
  <2>2. CASE Restore = "none"
    BY <2>1, <2>2 DEF Restore, Unsaved, Stopped, Typed, TypeOK
  <2>3. CASE Restore # "none"
    BY <1>7, <2>3 DEF Start, Unsaved
  <2>4. QED BY <2>2, <2>3
<1>8. CASE UNCHANGED vars
  BY <1>8 DEF vars, Unsaved, SomeAt, Part
<1>9. QED BY <1>1, <1>2, <1>3, <1>4, <1>5, <1>6, <1>7, <1>8 DEF Next, Progress

\* When no request is in progress, the file records what runs: after requests that
\* interleaved, a restoration that was refused, and saves of a supervisor in between.
THEOREM FileFollows == Spec => []DiskFollows
<1> DEFINE Inv == Typed /\ Phases /\ Restoring /\ Unsaved
<1>1. Init => Inv
  BY TypedInit, PhasesInit, RestoringInit, UnsavedInit
<1>2. Inv /\ [Next]_vars => Inv'
  BY TypedStep, PhasesStep, RestoringStep, UnsavedStep
<1>3. Inv => DiskFollows
  <2>1. AllIdle => ~SomeAt("save")
    BY DEF AllIdle, SomeAt, Part
  <2>2. QED BY <2>1 DEF Unsaved, DiskFollows, Typed, TypeOK
<1>4. QED BY <1>1, <1>2, <1>3, PTL DEF Spec

-----------------------------------------------------------------------------
(* What is owed.                                                           *)

\* At the start nothing is owed.
LEMMA OwesInit == Init => Owes
BY DEF Init, Owes

\* Owed is what the restoration has still to do, or has done when it ends.
LEMMA OwesEnds ==
    ASSUME Typed, Phases, Restoring, Owes, up = "restore", Work(Boot), JobOver(Boot),
           crashes <= 1
    PROVE  \A x \in owed' : mem'[x]
<1> USE DEF BootOp, BootStep
<1>0. /\ job[Boot] # Idle /\ Boot \in Procs
      /\ {"keyring", "save", "ftpListen", "spawn", "exit"} \subseteq DOMAIN After
  BY RestoreParts DEF After
<1>1. ~Exit(Boot)
  BY RestoreParts, DoingPart, <1>0 DEF Exit
<1>2. /\ owed \subseteq {"vnt", "ftp"}
      /\ "vnt" \in owed => job[Boot].op # "restoreFtp"
      /\ "ftp" \in owed => job[Boot].op # "restoreVnt"
  BY DEF Owes, Typed, TypeOK
<1>3. CASE Keyring(Boot) \/ FtpListen(Boot)
  <2>1. Part(Boot) \in {"keyring", "ftpListen"} /\ mem' = mem
    BY <1>0, <1>3, DoingPart DEF Keyring, FtpListen
  <2>2. owed' = owed \ {"ftp"}
    <3>1. "none" \notin After[Part(Boot)]
      BY <2>1 DEF After
    <3>2. ~Goes(Boot)
      BY <1>0, <3>1, JobGoes, TypedJobs DEF JobOver, JobGoesOn, Idle
    <3>3. QED BY <1>3, <3>2 DEF Keyring, FtpListen
  <2>3. "vnt" \in owed => mem.vnt
    BY <1>2, <2>1, RestoreParts DEF Restoring
  <2>4. QED BY <1>2, <2>1, <2>2, <2>3
<1>4. CASE ~Keyring(Boot) /\ ~FtpListen(Boot)
  <2>1. runtime = None \/ ~Spawn(Boot)
    BY <1>0, DoingPart, RestoreParts DEF Spawn, Restoring
  <2>2. Goes(Boot) /\ owed' = owed
    BY <1>1, <1>4, <2>1 DEF Work, Spawn, Take, Join, SetMem, Save, FtpTake, FtpJoin, FtpHold
  <2>3. job[Boot].step = Len(Script[job[Boot].op])
    BY <1>0, <2>2, JobGoes, TypedJobs DEF JobOver, JobGoesOn, Idle
  <2>4. Part(Boot) = "save"
    BY <2>3, RestoreParts
  <2>5. mem' = mem
    BY <1>0, <1>1, <2>4, DoingPart DEF Work, Spawn, Take, Join, SetMem, Save, Keyring,
       FtpTake, FtpJoin, FtpListen, FtpHold, After
  <2>6. /\ job[Boot].op # "restoreFtp" => mem.vnt
        /\ job[Boot].op # "restoreVnt" => mem.ftp
    <3>1. <<job[Boot].op, job[Boot].step>> \in
            {<<"restoreVnt", 3>>, <<"restoreFtp", 7>>, <<"restoreBoth", 10>>}
      BY <2>3, RestoreParts
    <3>2. QED BY <3>1 DEF Restoring
  <2>7. QED BY <1>2, <2>2, <2>5, <2>6
<1>5. QED BY <1>3, <1>4

\* No step of the daemon at work makes more owed.
LEMMA OwedShrinks ==
    ASSUME NEW p \in Procs, Work(p), ~Exit(p)
    PROVE  owed' \subseteq owed /\ crashes' = crashes
BY DEF Work, Spawn, Take, Join, SetMem, Save, Keyring, FtpTake, FtpJoin, FtpListen, FtpHold, counts

\* Each step keeps what is owed in the file, in the restoration or in the state.
LEMMA OwesStep ==
    Typed /\ Phases /\ Restoring /\ Unsaved /\ Owes /\ [Next]_vars => Owes'
<1> SUFFICES ASSUME Typed, Phases, Restoring, Unsaved, Owes, [Next]_vars,
                    crashes' <= 1, owed' # {}
             PROVE  Owes'
    BY DEF Owes
<1> USE DEF BootOp, BootStep
<1>0. crashes \in Nat /\ up \in {"down", "restore", "serving"}
  BY DEF Typed, TypeOK
<1>1. ASSUME NEW p \in Procs, Work(p) PROVE Owes'
  <2>1. CASE Exit(p)
    <3>1. job[p] # Idle /\ owed' = owed /\ crashes' = crashes
      BY <2>1 DEF Exit, Doing, counts
    <3>2. up = "restore" /\ p = Boot
      BY <1>0, <3>1, AtWork DEF Owes, AllIdle
    <3>3. FALSE
      BY <2>1, <3>2, RestoreParts, DoingPart DEF Exit, After
    <3>4. QED BY <3>3
  <2>2. CASE ~Exit(p)
    <3>1. job[p] # Idle /\ Others(p) /\ (JobOver(p) \/ JobGoesOn(p))
      BY <1>1, <2>2, WorkGoes
    <3>2. owed' \subseteq owed /\ crashes' = crashes
      BY <1>1, <2>2, OwedShrinks
    <3>3. crashes = 1 /\ up = "restore" /\ p = Boot
      BY <1>0, <3>1, <3>2, AtWork DEF Owes, AllIdle
    <3>4. CASE JobOver(p)
      <4>1. \A x \in owed' : mem'[x]
        BY <1>1, <3>3, <3>4, OwesEnds
      <4>2. AllIdle'
        BY <3>1, <3>3, <3>4 DEF AllIdle, JobOver, Others, Phases, Procs
      <4>3. up' = "serving"
        BY <3>3, <3>4 DEF JobOver
      <4>4. QED BY <3>2, <3>3, <4>1, <4>2, <4>3 DEF Owes
    <3>5. CASE JobGoesOn(p)
      BY <3>2, <3>3, <3>5 DEF JobGoesOn, Owes
    <3>6. QED BY <3>1, <3>4, <3>5
  <2>3. QED BY <2>1, <2>2
<1>2. ASSUME NEW c \in Conns, Request(c) PROVE Owes'
  BY <1>2 DEF Request
<1>3. ASSUME NEW s \in Ids, SupStep(s) \/ ChildExits(s) PROVE Owes'
  BY <1>3, SupLeaves DEF SupRest, Owes, AllIdle
<1>4. ASSUME NEW s \in Ids, SrvEnds(s) PROVE Owes'
  BY <1>4 DEF SrvEnds, Owes, AllIdle, counts
<1>5. ASSUME NEW s \in Ids, OutputSave(s) PROVE Owes'
  BY <1>5 DEF OutputSave, Owes, AllIdle, counts
<1>6. CASE Crash
  <2>1. crashes' = crashes + 1 /\ up' = "down" /\ disk' = disk
    BY <1>6, ProcessEndsDown DEF Crash
  <2>2. crashes = 0 /\ owed = {}
    BY <1>0, <2>1 DEF Owes
  <2>3. up = "serving" /\ AllIdle /\ owed' = {x \in DOMAIN mem : mem[x]}
    BY <1>0, <1>6, <2>2 DEF Crash
  <2>4. ~SomeAt("save")
    BY <2>3 DEF AllIdle, SomeAt, Part
  <2>5. (disk.vnt <=> mem.vnt) /\ (mem.ftp => disk.ftp) /\ DOMAIN mem = {"vnt", "ftp"}
    BY <2>3, <2>4 DEF Unsaved, Typed, TypeOK
  <2>6. \A x \in owed' : disk'[x]
    BY <2>1, <2>3, <2>5
  <2>7. QED BY <2>1, <2>2, <2>6 DEF Owes
<1>7. CASE Start
  <2>1. owed' = owed /\ crashes' = crashes /\ \A x \in owed : disk[x]
    BY <1>7 DEF Start, Owes, counts
  <2>2. Restore # "none"
    BY <2>1 DEF Restore, Typed, TypeOK
  <2>3. up' = "restore" /\ job' = [job EXCEPT ![Boot] = [op |-> Restore, step |-> 1]]
    BY <1>7, <2>2 DEF Start
  <2>4. job'[Boot].op = Restore
    BY <2>3 DEF Typed, TypeOK, Procs
  <2>5. /\ "vnt" \in owed => Restore # "restoreFtp"
        /\ "ftp" \in owed => Restore # "restoreVnt"
    BY <2>1 DEF Restore
  <2>6. QED BY <2>1, <2>3, <2>4, <2>5 DEF Owes
<1>8. CASE UNCHANGED vars
  BY <1>8 DEF vars, Owes, AllIdle, counts
<1>9. QED BY <1>1, <1>2, <1>3, <1>4, <1>5, <1>6, <1>7, <1>8 DEF Next, Progress

\* What ran when an idle daemon crashed runs again once the next one serves, as long as
\* that is the only crash: a second one that meets the restoration may lose it.
THEOREM OneCrashIsRestored == Spec => [](crashes <= 1 => RestoreKeepsServices)
<1> DEFINE Inv == Typed /\ Phases /\ Restoring /\ Unsaved /\ Owes
<1>1. Init => Inv
  BY TypedInit, PhasesInit, RestoringInit, UnsavedInit, OwesInit
<1>2. Inv /\ [Next]_vars => Inv'
  BY TypedStep, PhasesStep, RestoringStep, UnsavedStep, OwesStep
<1>3. Inv => (crashes <= 1 => RestoreKeepsServices)
  BY DEF Owes, RestoreKeepsServices
<1>4. QED BY <1>1, <1>2, <1>3, PTL DEF Spec

-----------------------------------------------------------------------------
(* One request at a time.                                                  *)

\* At the start there are no supervisors.
LEMMA KnownInit == Init => Known
BY NoneNotId DEF Init, Known

\* Only a supervisor that was started is held or cancelled.
LEMMA KnownStep == Typed /\ Known /\ [Next]_vars => Known'
<1> SUFFICES ASSUME Typed, Known, [Next]_vars PROVE Known'
    OBVIOUS
<1>1. CASE UNCHANGED vntVars
  BY <1>1 DEF vntVars, Known
<1>2. ASSUME NEW p \in Procs, Work(p) PROVE Known'
  <2>1. CASE Spawn(p)
    <3>1. CASE runtime # None
      BY <1>1, <2>1, <3>1 DEF Spawn
    <3>2. CASE runtime = None
      BY <2>1, <3>2 DEF Spawn, Known, Typed, TypeOK
    <3>3. QED BY <3>1, <3>2
  <2>2. CASE Take(p)
    BY <2>2, NoneNotId DEF Take, Known, Typed, TypeOK
  <2>3. CASE Exit(p)
    BY <2>3, ProcessEndsDown, NoneNotId DEF Exit, Known
  <2>4. CASE ~Spawn(p) /\ ~Take(p) /\ ~Exit(p)
    BY <1>1, <1>2, <2>4 DEF Work, Join, SetMem, Save, Keyring, FtpTake, FtpJoin, FtpListen, FtpHold
  <2>5. QED BY <2>1, <2>2, <2>3, <2>4
<1>3. ASSUME NEW s \in Ids, SupStep(s) \/ ChildExits(s) PROVE Known'
  <2>1. /\ runtime' = runtime /\ cancelled' = cancelled
        /\ \E pc \in SupPC : SupGoes(s, pc) /\ pc # "none"
    BY <1>3, SupLeaves DEF SupRest
  <2>2. QED BY <2>1 DEF SupGoes, Known, Typed, TypeOK
<1>4. ASSUME NEW c \in Conns, Request(c) PROVE Known'
  BY <1>4, <1>1 DEF Request
<1>5. ASSUME NEW s \in Ids, SrvEnds(s) \/ OutputSave(s) PROVE Known'
  BY <1>5, <1>1 DEF SrvEnds, OutputSave
<1>6. CASE Crash
  BY <1>6, ProcessEndsDown, NoneNotId DEF Crash, Known
<1>7. CASE Start
  BY <1>7, <1>1 DEF Start
<1>8. CASE UNCHANGED vars
  BY <1>8, <1>1 DEF vars
<1>9. QED BY <1>2, <1>3, <1>4, <1>5, <1>6, <1>7, <1>8 DEF Next, Progress

\* At the start nobody is at work.
LEMMA OneInit == Init => OneAtATime
<1> SUFFICES ASSUME Init PROVE Alone(Boot)
    BY DEF OneAtATime, Procs
<1>1. Part(Boot) = "none" /\ \A q \in Procs : job[q] = Idle
  BY DEF Init, Part, Procs
<1>2. QED BY <1>1 DEF Init, Alone, Stopped

\* The one process at work takes its next step.
LEMMA AloneWork ==
    ASSUME Typed, Known, NEW p \in Procs, Alone(p), Work(p), ~Exit(p), calm', calm
    PROVE  Alone(p)'
<1>0. job[p] # Idle /\ Others(p) /\ (JobOver(p) \/ JobGoesOn(p))
  BY WorkGoes
<1>1. /\ Part(p) \in DOMAIN After
      /\ Part(p)' = "none" \/ Part(p)' \in After[Part(p)]
      /\ Goes(p) => Part(p)' \in After[Part(p)]
  BY <1>0, InJob, JobGoes, TypedJobs DEF JobOver, JobGoesOn
<1>2. \A q \in Procs \ {p} : job'[q] = Idle
  BY <1>0 DEF Others, Alone
<1> DEFINE Same == UNCHANGED <<mem, vntVars, ftpRuntime, mine>>
<1>3. CASE Spawn(p)
  <2>1. Part(p) = "spawn" /\ mem' = mem /\ ftpRuntime' = ftpRuntime /\ cancelled' = cancelled
    BY <1>3, DoingPart DEF Spawn, ftpVars, vntVars, After
  <2>2. CASE runtime # None
    BY <1>1, <1>2, <1>3, <2>1, <2>2 DEF Spawn, Ends, Alone, Alive, After, vntVars
  <2>3. CASE runtime = None
    <3>1. PICK s \in Ids : /\ sup[s] = "none" /\ runtime' = s
                           /\ sup' = [sup EXCEPT ![s] = "check"]
      BY <1>3, <2>3 DEF Spawn, Fresh
    <3>2. Part(p)' = "runs"
      BY <1>1, <1>3, <2>1, <2>3 DEF Spawn, After
    <3>3. s \notin cancelled /\ cancelled \subseteq Ids /\ s # None
      BY <3>1, NoneNotId DEF Known, Typed, TypeOK
    <3>4. \A t \in cancelled : ~Alive(t)'
      BY <2>1, <3>1, <3>3 DEF Alone, Alive, Typed, TypeOK
    <3>5. QED BY <1>2, <2>1, <2>3, <3>1, <3>2, <3>3, <3>4 DEF Alone
  <2>4. QED BY <2>2, <2>3
<1>4. CASE Take(p)
  <2>1. /\ Part(p) = "take" /\ Part(p)' = "join" /\ mem' = mem /\ ftpRuntime' = ftpRuntime
        /\ runtime' = None /\ sup' = sup /\ mine' = [mine EXCEPT ![p] = runtime]
        /\ cancelled' = cancelled \union ({runtime} \ {None})
    BY <1>1, <1>4, DoingPart DEF Take, ftpVars, After
  <2>2. \A s \in cancelled' : Alive(s)' => mine'[p] = s
    BY <2>1 DEF Alone, Alive, Typed, TypeOK
  <2>3. QED BY <1>2, <2>1, <2>2 DEF Alone
<1>5. CASE Join(p)
  <2>1. /\ Part(p) = "join" /\ Part(p)' = "stopped" /\ Same
    BY <1>1, <1>5, DoingPart DEF Join, ftpVars, After
  <2>2. mine[p] \in {None} \union {s \in Ids : Over(s)}
    BY <1>5 DEF Join, Waits
  <2>3. \A s \in cancelled' : ~Alive(s)'
    BY <2>1, <2>2, NoneNotId DEF Alone, Alive, Over, Typed, TypeOK, vntVars
  <2>4. QED BY <1>2, <2>1, <2>3 DEF Alone, vntVars
<1>6. CASE SetMem(p)
  <2>1. Part(p)' = "save" /\ UNCHANGED <<vntVars, ftpRuntime, mine>>
    BY <1>1, <1>6, DoingPart DEF SetMem, ftpVars, After
  <2>2. \A s \in cancelled' : ~Alive(s)'
    BY <1>6, <2>1, DoingPart DEF SetMem, Alone, Alive, vntVars, After
  <2>3. \/ Part(p) = "stopped" /\ mem' = [mem EXCEPT !.vnt = FALSE]
        \/ Part(p) = "runs" /\ mem' = [mem EXCEPT !.vnt = TRUE]
        \/ Part(p) = "ftpStopped" /\ mem' = [mem EXCEPT !.ftp = FALSE]
        \/ Part(p) = "ftpRuns" /\ mem' = [mem EXCEPT !.ftp = TRUE]
    BY <1>6, DoingPart DEF SetMem, After
  <2>4. (mem'.vnt <=> runtime' # None) /\ (ftpRuntime' # None => mem'.ftp)
    BY <2>1, <2>3 DEF Alone, vntVars, Typed, TypeOK
  <2>5. QED BY <1>2, <2>1, <2>2, <2>4 DEF Alone
<1>7. CASE Save(p) \/ Keyring(p)
  <2>1. Part(p) \in {"save", "keyring"} /\ UNCHANGED <<mem, vntVars, ftpRuntime>>
    BY <1>7, DoingPart DEF Save, Keyring, ftpVars, After
  <2>2. Part(p)' \in {"none", "spawn", "keyring", "ftpTake", "exit"}
    BY <1>1, <2>1 DEF After
  <2>3. QED BY <1>2, <2>1, <2>2 DEF Alone, Alive, vntVars
<1>8. CASE FtpTake(p)
  <2>1. Part(p) = "ftpTake" /\ Part(p)' = "ftpJoin" /\ ftpRuntime' = None
        /\ UNCHANGED <<mem, vntVars>>
    BY <1>1, <1>8, DoingPart DEF FtpTake, After
  <2>2. QED BY <1>2, <2>1 DEF Alone, Alive, vntVars
<1>9. CASE FtpJoin(p)
  <2>1. /\ Part(p) = "ftpJoin" /\ Part(p)' \in {"ftpStopped", "ftpListen"}
        /\ UNCHANGED <<mem, vntVars, ftpRuntime>>
    BY <1>1, <1>9, DoingPart DEF FtpJoin, ftpVars, After
  <2>2. QED BY <1>2, <2>1 DEF Alone, Alive, vntVars
<1>10. CASE FtpListen(p)
  <2>1. /\ Part(p) = "ftpListen" /\ Part(p)' \in {"none", "ftpHold"}
        /\ UNCHANGED <<mem, vntVars, ftpRuntime>>
    BY <1>1, <1>10, DoingPart DEF FtpListen, After
  <2>2. QED BY <1>2, <2>1 DEF Alone, Alive, vntVars
<1>11. CASE FtpHold(p)
  <2>1. /\ Part(p) = "ftpHold" /\ Part(p)' = "ftpRuns" /\ UNCHANGED <<mem, vntVars>>
    BY <1>1, <1>11, DoingPart DEF FtpHold, After
  <2>2. QED BY <1>2, <2>1 DEF Alone, Alive, vntVars
<1>12. QED
  BY <1>3, <1>4, <1>5, <1>6, <1>7, <1>8, <1>9, <1>10, <1>11 DEF Work

\* Each step that does not overlap requests leaves one process at work, or none.
LEMMA OneStep ==
    Typed /\ Phases /\ Known /\ OneAtATime /\ [Next]_vars => OneAtATime'
<1> SUFFICES ASSUME Typed, Phases, Known, OneAtATime, [Next]_vars, calm'
             PROVE  \E p \in Procs : Alone(p)'
    BY DEF OneAtATime
<1> USE DEF Procs
<1>1. ASSUME NEW p \in Procs, Work(p) PROVE \E q \in Procs : Alone(q)'
  <2>1. CASE Exit(p)
    <3>1. Part(p)' = "none" /\ \A q \in Procs : job'[q] = Idle
      BY <2>1, ProcessEndsDown DEF Exit, AllIdle, Part
    <3>2. QED BY <2>1, <3>1, ProcessEndsDown DEF Exit, Alone, Stopped
  <2>2. CASE ~Exit(p)
    <3>1. job[p] # Idle /\ calm
      <4>1. calm' => calm
        BY <1>1, <2>2, WaitTyped DEF Typed, Work, Spawn, Take, Join, SetMem, Save, Keyring,
           FtpTake, FtpJoin, FtpListen, FtpHold
      <4>2. QED BY <1>1, <2>2, <4>1, WorkGoes
    <3>2. Alone(p)
      BY <3>1 DEF OneAtATime, Alone
    <3>3. QED BY <1>1, <2>2, <3>1, <3>2, AloneWork
  <2>3. QED BY <2>1, <2>2
<1>2. ASSUME NEW c \in Conns, Request(c) PROVE \E q \in Procs : Alone(q)'
  <2>1. calm /\ AllIdle
    BY <1>2 DEF Request
  <2>2. PICK p \in Procs : Alone(p)
    BY <2>1 DEF OneAtATime
  <2>3. Part(p) = "none"
    BY <2>1 DEF AllIdle, Part
  <2>4. PICK op \in Requests : job' = [job EXCEPT ![c] = [op |-> op, step |-> 1]]
    BY <1>2 DEF Request
  <2>5. job'[c] = [op |-> op, step |-> 1] /\ \A q \in Procs \ {c} : job'[q] = Idle
    BY <2>1, <2>4 DEF AllIdle, Typed, TypeOK
  <2>6. Part(c)' \in {"spawn", "take", "keyring", "ftpTake"}
    BY <2>5, RequestsBegin DEF Part, Idle
  <2>7. UNCHANGED <<mem, vntVars, ftpRuntime, mine>>
    BY <1>2 DEF Request, ftpVars
  <2>8. Alone(c)'
    BY <2>2, <2>3, <2>5, <2>6, <2>7 DEF Alone, Alive, vntVars
  <2>9. QED BY <2>8
<1>3. ASSUME NEW s \in Ids, SupStep(s) \/ ChildExits(s) PROVE \E q \in Procs : Alone(q)'
  <2>1. UNCHANGED SupRest
    BY <1>3, SupLeaves
  <2>2. PICK p \in Procs : Alone(p)
    BY <2>1 DEF OneAtATime, SupRest
  <2>3. \A t \in cancelled : Alive(t)' => Alive(t)
    BY <1>3, SupLeaves DEF SupGoes, Alive, Typed, TypeOK
  <2>4. Alone(p)'
    BY <2>1, <2>2, <2>3 DEF Alone, Part, SupRest, ftpVars
  <2>5. QED BY <2>4
<1>4. ASSUME NEW s \in Ids, SrvEnds(s) \/ OutputSave(s) PROVE \E q \in Procs : Alone(q)'
  <2>1. UNCHANGED <<mem, vntVars, ftpRuntime, mine, job, calm>>
    BY <1>4 DEF SrvEnds, OutputSave, ftpVars
  <2>2. QED BY <2>1 DEF OneAtATime, Alone, Alive, Part, vntVars
<1>5. CASE Crash
  <2>1. Part(Boot)' = "none" /\ \A q \in Procs : job'[q] = Idle
    BY <1>5, ProcessEndsDown DEF Crash, AllIdle, Part
  <2>2. QED BY <1>5, <2>1, ProcessEndsDown DEF Crash, Alone, Stopped
<1>6. CASE Start
  <2>1. UNCHANGED <<mem, vntVars, ftpRuntime, mine>>
    BY <1>6 DEF Start, ftpVars
  <2>2. /\ AllIdle /\ mem = Stopped /\ runtime = None /\ ftpRuntime = None
        /\ \A s \in Ids : sup[s] = "none"
    BY <1>6 DEF Start, Phases
  <2>3. \A q \in Conns : job'[q] = Idle
    BY <1>6, <2>2, ConstantsOK DEF Start, AllIdle, Boot, Typed, TypeOK
  <2>4. Part(Boot)' \in {"none", "spawn", "keyring"}
    <3>1. CASE Restore = "none"
      BY <1>6, <2>2, <3>1 DEF Start, AllIdle, Part
    <3>2. CASE Restore # "none"
      <4>1. job'[Boot] = [op |-> Restore, step |-> 1]
        BY <1>6, <3>2 DEF Start, Typed, TypeOK
      <4>2. Restore \in {"restoreVnt", "restoreFtp", "restoreBoth"}
        BY <3>2 DEF Restore
      <4>3. QED BY <4>1, <4>2, Restorations DEF Part, Idle
    <3>3. QED BY <3>1, <3>2
  <2>5. \A s \in cancelled' : ~Alive(s)'
    BY <2>1, <2>2 DEF Alive, vntVars, Typed, TypeOK
  <2>6. Alone(Boot)'
    BY <2>1, <2>2, <2>3, <2>4, <2>5 DEF Alone, vntVars, Stopped
  <2>7. QED BY <2>6
<1>7. CASE UNCHANGED vars
  BY <1>7 DEF vars, OneAtATime, Alone, Alive, Part, vntVars, ftpVars
<1>8. QED BY <1>1, <1>2, <1>3, <1>4, <1>5, <1>6, <1>7 DEF Next, Progress

Calm == Typed /\ Phases /\ Known /\ OneAtATime

\* The invariant on requests that do not overlap.
LEMMA CalmInvariant == Spec => []Calm
<1>1. Init => Calm
  BY TypedInit, PhasesInit, KnownInit, OneInit DEF Calm
<1>2. Calm /\ [Next]_vars => Calm'
  BY TypedStep, PhasesStep, KnownStep, OneStep DEF Calm
<1>3. QED BY <1>1, <1>2, PTL DEF Spec

\* Between requests that did not overlap, VNT is shown as running exactly when there is
\* a supervisor to stop, and an FTP server that could be stopped is shown as running.
THEOREM FlagsAreTrue == Spec => []StateIsTrue
<1>1. Calm => StateIsTrue
  <2> SUFFICES ASSUME Calm, calm, AllIdle PROVE RunningIsTrue
      BY DEF StateIsTrue, RunningIsTrue
  <2>1. PICK p \in Procs : Alone(p)
    BY DEF Calm, OneAtATime
  <2>2. Part(p) = "none"
    BY DEF AllIdle, Part
  <2>3. QED BY <2>1, <2>2 DEF Alone, RunningIsTrue
<1>2. QED BY <1>1, CalmInvariant, PTL

\* A restart does not start the new vnt-cli before the old one has ended, unless the
\* stop gave up waiting or another request came between.
THEOREM OneChild == Spec => []NoTwoChildren
<1>1. Calm /\ Held => NoTwoChildren
  <2> SUFFICES ASSUME Calm, Held, calm
               PROVE  Cardinality({s \in Ids : sup[s] = "running"}) <= 1
      BY DEF NoTwoChildren
  <2>1. PICK p \in Procs : Alone(p)
    BY DEF Calm, OneAtATime
  <2>2. ASSUME NEW s \in Ids, NEW t \in Ids, sup[s] = "running", sup[t] = "running"
        PROVE  s = t
    BY <2>1, <2>2, NoneNotId DEF Alone, Alive, Held, SupervisorHeld
  <2>3. CASE {s \in Ids : sup[s] = "running"} = {}
    BY <2>3, FS_EmptySet
  <2>4. CASE {s \in Ids : sup[s] = "running"} # {}
    <3>1. PICK s \in Ids : sup[s] = "running"
      BY <2>4
    <3>2. {t \in Ids : sup[t] = "running"} = {s}
      BY <2>2, <3>1
    <3>3. QED BY <3>2, FS_Singleton
  <2>5. QED BY <2>3, <2>4
<1>2. Spec => []Held
  BY HeldInit, HeldStep, PTL DEF Spec
<1>3. QED BY <1>1, <1>2, CalmInvariant, PTL
=============================================================================
