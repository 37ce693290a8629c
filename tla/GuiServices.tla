---------------------------- MODULE GuiServices ----------------------------
(***************************************************************************)
(* The GUI process and the daemon that it starts, seen from the GUI.  A    *)
(* startup task looks for a daemon, spawns one, waits for its port, may    *)
(* connect by itself and then polls for ever; commands of the window and   *)
(* of the tray run next to it and write the same state; the stored         *)
(* configurations are a file that is loaded, changed and written back.     *)
(*                                                                         *)
(* A process is the list of the steps it has still to do, an await or a    *)
(* thread switch is possible between any two.  What a request does inside  *)
(* the daemon is the matter of VntDaemon, here it is one step.             *)
(***************************************************************************)
EXTENDS Integers, Sequences, FiniteSets

CONSTANTS
    Configs,       \* identities of configurations, in the order they are stored
    MaxLaunches,   \* bound: times the GUI is launched
    MaxDaemons,    \* bound: daemons spawned
    MaxCommands,   \* bound: commands of the window and of the tray
    MaxCrashes     \* bound: crashes of a daemon

ASSUME ConstantsOK ==
    /\ Configs \subseteq Nat \ {0}
    /\ {MaxLaunches, MaxDaemons, MaxCommands, MaxCrashes} \subseteq Nat

None    == 0
Daemons == 1..MaxDaemons
Tasks   == {"boot", "ftp", "main", "async"}   \* "main": the thread of the commands that are not async
Stores  == [active : Configs \union {None}, ids : SUBSET Configs]
NoStore == [active |-> None, ids |-> {}]
Torn    == [active |-> None, ids |-> {None}]   \* a file that does not parse
Statuses == {"stopped", "starting", "connected"}

VARIABLES
    gui,       \* the GUI process runs
    job,       \* task -> the steps it has still to do
    local,     \* task -> the configuration it is about, and what it has read
    view,      \* AppState.connection
    tray,      \* the status that icon and menu of the tray show
    file,      \* config.json
    ftpFile,   \* the switch "enabled" of ftp_config.json
    daemon,    \* daemon -> where it is
    pidFile,   \* the daemon that daemon.pid names
    svc,       \* what the daemon runs: VNT's configuration, connected, FTP
    wasOn,     \* the configuration that the next daemon restores
    launches, commands, crashes

guiVars    == <<gui, job, local, view, tray>>
fileVars   == <<file, ftpFile>>
daemonVars == <<daemon, pidFile, svc, wasOn>>
counts     == <<launches, commands, crashes>>
vars       == <<guiVars, fileVars, daemonVars, counts>>

Idle    == [cfg |-> None, connected |-> FALSE, ftp |-> FALSE]
Blank   == [cfg |-> None, seen |-> "stopped", loaded |-> NoStore]
Serving == \E d \in Daemons : daemon[d] = "serving"
Status  == IF svc.connected THEN "connected" ELSE IF svc.cfg # None THEN "starting" ELSE "stopped"
First(ids) == CHOOSE c \in ids : \A k \in ids : c <= k

\* The configurations are stored and none has been used; FTP is switched on.
Init ==
    /\ gui = FALSE
    /\ job = [p \in Tasks |-> <<>>] /\ local = [p \in Tasks |-> Blank]
    /\ view = "stopped" /\ tray = "stopped"
    /\ file = [active |-> None, ids |-> Configs] /\ ftpFile = TRUE
    /\ daemon = [d \in Daemons |-> "none"] /\ pidFile = None
    /\ svc = Idle /\ wasOn = None
    /\ launches = 0 /\ commands = 0 /\ crashes = 0

-----------------------------------------------------------------------------
(* The steps of the tasks.                                                 *)

\* Wrong: the poll leaves the tray to the commands.
WrongPoll == <<"read", "view">>

Sync == <<"read", "view", "tray">>
Poll == <<"read", "view", "tray">>
Store == <<"truncate", "write">>

Script ==
    [startConnection |-> <<"loadStart">> \o Store \o <<"vntStart">> \o Sync,
     stopConnection  |-> <<"vntStop">> \o Sync,
     setActive       |-> <<"loadActive">> \o Store,
     saveConfig      |-> <<"loadSave">> \o Store,
     deleteConfig    |-> <<"loadDelete">> \o Store,
     trayConnect     |-> <<"pickActive", "vntStart">>,
     copyIp          |-> <<"peek", "tray">>,
     ftpStart        |-> <<"ftpLoad", "ftpStart">>,
     ftpStop         |-> <<"ftpStop">>,
     ftpSave         |-> <<"ftpWrite", "ftpApply">>,
     exitGuiOnly     |-> <<"exit">>,
     exitFull        |-> <<"leave", "ftpStop", "shutdown", "exit">>]

Startup == <<"check", "wait">> \o Sync \o <<"autoGet", "autoPick", "vntStart">> \o Sync
MainCommands == {"saveConfig", "deleteConfig"}
AboutConfig  == MainCommands \union {"startConnection", "setActive"}

Doing(p, step) == gui /\ job[p] # <<>> /\ Head(job[p]) = step

\* A task is over after its last step, or one that failed; the startup task polls then.
Ends(p) ==
    /\ job' = [job EXCEPT ![p] = IF p = "boot" THEN Poll ELSE <<>>]
    /\ local' = [local EXCEPT ![p] = Blank]

\* On to the next step, with what the task has now.
GoesWith(p, l) ==
    IF Len(job[p]) = 1 THEN Ends(p)
    ELSE job' = [job EXCEPT ![p] = Tail(@)] /\ local' = [local EXCEPT ![p] = l]

Goes(p) == GoesWith(p, local[p])

Command(p, op, c) ==
    /\ gui /\ p \in {"main", "async"} /\ job[p] = <<>> /\ commands < MaxCommands
    /\ op \in MainCommands <=> p = "main"
    /\ op \notin AboutConfig => c = First(Configs)
    /\ job' = [job EXCEPT ![p] = Script[op]]
    /\ local' = [local EXCEPT ![p].cfg = IF op \in AboutConfig THEN c ELSE None]
    /\ commands' = commands + 1
    /\ UNCHANGED <<gui, view, tray, fileVars, daemonVars, launches, crashes>>

-----------------------------------------------------------------------------
(* The process: lib.rs run, and the tray's two ways to leave.              *)

\* The task that starts FTP four seconds later is there if FTP is switched on now.
Launch ==
    /\ ~gui /\ launches < MaxLaunches
    /\ gui' = TRUE /\ launches' = launches + 1
    /\ \E auto \in BOOLEAN :
          job' = [p \in Tasks |-> CASE p = "boot" -> Startup
                                    [] p = "ftp" -> IF auto /\ ftpFile THEN <<"ftpStart">> ELSE <<>>
                                    [] OTHER -> <<>>]
    /\ local' = [p \in Tasks |-> Blank]
    /\ view' = "stopped" /\ tray' = "stopped"
    /\ UNCHANGED <<fileVars, daemonVars, commands, crashes>>

\* A process that ends in the middle of a write leaves what it has written.
Exit(p) ==
    /\ Doing(p, "exit")
    /\ gui' = FALSE /\ job' = [q \in Tasks |-> <<>>]
    /\ local' = [q \in Tasks |-> Blank] /\ view' = "stopped" /\ tray' = "stopped"
    /\ UNCHANGED <<fileVars, daemonVars, counts>>

Alive(d) == d # None /\ daemon[d] \in {"boot", "serving"}

\* is_daemon_running and start_daemon_sidecar; a spawn may fail.
CheckDaemon(p) ==
    /\ Doing(p, "check") /\ Goes(p)
    /\ \/ Alive(pidFile) /\ UNCHANGED daemon
       \/ ~Alive(pidFile) /\ UNCHANGED daemon
       \/ /\ ~Alive(pidFile)
          /\ \E d \in Daemons : /\ daemon[d] = "none" /\ \A k \in 1..(d - 1) : daemon[k] # "none"
                                /\ daemon' = [daemon EXCEPT ![d] = "spawned"]
    /\ UNCHANGED <<gui, view, tray, fileVars, pidFile, svc, wasOn, counts>>

\* Fifty pings within five seconds; without an answer the task ends, and so does polling.
WaitReady(p) ==
    /\ Doing(p, "wait")
    /\ IF Serving THEN Goes(p) ELSE job' = [job EXCEPT ![p] = <<>>] /\ UNCHANGED local
    /\ UNCHANGED <<gui, view, tray, fileVars, daemonVars, counts>>

-----------------------------------------------------------------------------
(* The status: get_status, then the state, then the tray.                  *)

\* A daemon that does not answer leaves what the GUI has.
Read(p) ==
    /\ Doing(p, "read")
    /\ GoesWith(p, [local[p] EXCEPT !.seen = IF Serving THEN Status ELSE view])
    /\ UNCHANGED <<gui, view, tray, fileVars, daemonVars, counts>>

\* copy_ip shows the state that the GUI has two seconds later.
Peek(p) ==
    /\ Doing(p, "peek")
    /\ GoesWith(p, [local[p] EXCEPT !.seen = view])
    /\ UNCHANGED <<gui, view, tray, fileVars, daemonVars, counts>>

SetView(p) ==
    /\ Doing(p, "view") /\ Goes(p)
    /\ view' = local[p].seen
    /\ UNCHANGED <<gui, tray, fileVars, daemonVars, counts>>

UpdateTray(p) ==
    /\ Doing(p, "tray") /\ Goes(p)
    /\ tray' = local[p].seen
    /\ UNCHANGED <<gui, view, fileVars, daemonVars, counts>>

-----------------------------------------------------------------------------
(* VNT: start_connection, stop_connection, auto_connect_default, the tray. *)

\* auto_connect_default: only if it is set, the daemon answers and VNT does not run.
AutoGet(p) ==
    /\ Doing(p, "autoGet")
    /\ \/ Serving /\ svc.cfg = None /\ Goes(p)
       \/ Ends(p)
    /\ UNCHANGED <<gui, view, tray, fileVars, daemonVars, counts>>

\* What load_config_store returns: nothing if the file does not parse.
Loaded == IF file = Torn THEN NoStore ELSE file

Picks(p, c) ==
    /\ IF c = None THEN Ends(p) ELSE GoesWith(p, [local[p] EXCEPT !.cfg = c])
    /\ UNCHANGED <<gui, view, tray, fileVars, daemonVars, counts>>

\* select_default_config: the active one, or else the first.
AutoPick(p) ==
    /\ Doing(p, "autoPick")
    /\ Picks(p, IF Loaded.active \in Loaded.ids THEN Loaded.active
                ELSE IF Loaded.ids # {} THEN First(Loaded.ids) ELSE None)

PickActive(p) ==
    /\ Doing(p, "pickActive")
    /\ Picks(p, IF Loaded.active \in Loaded.ids THEN Loaded.active ELSE None)

\* The daemon refuses a start while VNT runs.
VntStart(p) ==
    /\ Doing(p, "vntStart")
    /\ IF Serving /\ svc.cfg = None
       THEN /\ svc' = [svc EXCEPT !.cfg = local[p].cfg, !.connected = FALSE] /\ wasOn' = local[p].cfg
            /\ Goes(p)
       ELSE Ends(p) /\ UNCHANGED <<svc, wasOn>>
    /\ UNCHANGED <<gui, view, tray, fileVars, daemon, pidFile, counts>>

\* Wrong: connected outlives the child.
WrongStopped(s) == [s EXCEPT !.cfg = None]

Stopped(s) == [s EXCEPT !.cfg = None, !.connected = FALSE]

\* stop_connection ends with the error of a daemon that does not answer, leaving goes on.
VntStop(p) ==
    /\ Doing(p, "vntStop") \/ Doing(p, "leave")
    /\ IF Serving THEN svc' = Stopped(svc) /\ wasOn' = None /\ Goes(p)
       ELSE /\ UNCHANGED <<svc, wasOn>>
            /\ IF Head(job[p]) = "leave" THEN Goes(p) ELSE Ends(p)
    /\ UNCHANGED <<gui, view, tray, fileVars, daemon, pidFile, counts>>

-----------------------------------------------------------------------------
(* The stored configurations: config.rs and the commands on them.          *)

SetActive(s, c) == IF c \in s.ids THEN [s EXCEPT !.active = c] ELSE s
AddOrUpdate(s, c) == [s EXCEPT !.ids = @ \union {c}]

\* Wrong: the active configuration is deleted and stays the active one.
WrongDelete(s, c) == [s EXCEPT !.ids = @ \ {c}]

\* Deleting the active configuration makes the first of the others active.
Delete(s, c) ==
    LET ids == s.ids \ {c} IN
    [ids |-> ids,
     active |-> IF s.active # c THEN s.active ELSE IF ids = {} THEN None ELSE First(ids)]

Edited(p, s) ==
    CASE Head(job[p]) \in {"loadStart", "loadActive"} -> SetActive(s, local[p].cfg)
      [] Head(job[p]) = "loadSave"                    -> AddOrUpdate(s, local[p].cfg)
      [] Head(job[p]) = "loadDelete"                  -> Delete(s, local[p].cfg)

\* The file is loaded and changed in memory; a connection needs its configuration.
LoadStore(p) ==
    /\ \E step \in {"loadStart", "loadActive", "loadSave", "loadDelete"} : Doing(p, step)
    /\ IF Head(job[p]) = "loadStart" /\ local[p].cfg \notin Loaded.ids
       THEN Ends(p)
       ELSE GoesWith(p, [local[p] EXCEPT !.loaded = Edited(p, Loaded)])
    /\ UNCHANGED <<gui, view, tray, fileVars, daemonVars, counts>>

\* save_config_store opens the file, which empties it, and then writes.
TruncateFile(p) ==
    /\ Doing(p, "truncate") /\ Goes(p)
    /\ file' = Torn
    /\ UNCHANGED <<gui, view, tray, ftpFile, daemonVars, counts>>

\* Written over what another wrote meanwhile the two may mix.
WriteFile(p) ==
    /\ Doing(p, "write") /\ GoesWith(p, [local[p] EXCEPT !.loaded = NoStore])
    /\ \/ file' = local[p].loaded
       \/ file # Torn /\ file' = Torn
    /\ UNCHANGED <<gui, view, tray, ftpFile, daemonVars, counts>>

-----------------------------------------------------------------------------
(* FTP: ftp/mod.rs and the start with the application.                     *)

FtpLoad(p) ==
    /\ Doing(p, "ftpLoad")
    /\ IF ftpFile THEN Goes(p) ELSE Ends(p)
    /\ UNCHANGED <<gui, view, tray, fileVars, daemonVars, counts>>

\* A start is a start, whatever the switch says.  It may be refused, by the daemon or
\* by the server, which has stopped the old one then.
FtpStart(p) ==
    /\ Doing(p, "ftpStart") /\ Goes(p)
    /\ \/ Serving /\ \E on \in BOOLEAN : svc' = [svc EXCEPT !.ftp = on]
       \/ UNCHANGED svc
    /\ UNCHANGED <<gui, view, tray, fileVars, daemon, pidFile, wasOn, counts>>

FtpStop(p) ==
    /\ Doing(p, "ftpStop") /\ Goes(p)
    /\ svc' = IF Serving THEN [svc EXCEPT !.ftp = FALSE] ELSE svc
    /\ UNCHANGED <<gui, view, tray, fileVars, daemon, pidFile, wasOn, counts>>

\* Saved, or refused before or after the file was written.
FtpWrite(p) ==
    /\ Doing(p, "ftpWrite") /\ (Goes(p) \/ Ends(p))
    /\ ftpFile' \in BOOLEAN
    /\ UNCHANGED <<gui, view, tray, file, daemonVars, counts>>

\* ftp_save_config starts the server anew or stops it, if the daemon answers.
FtpApply(p) ==
    /\ Doing(p, "ftpApply") /\ Goes(p)
    /\ \/ Serving /\ \E on \in {ftpFile, FALSE} : svc' = [svc EXCEPT !.ftp = on]
       \/ (ftpFile \/ ~Serving) /\ UNCHANGED svc
    /\ UNCHANGED <<gui, view, tray, fileVars, daemon, pidFile, wasOn, counts>>

-----------------------------------------------------------------------------
(* The daemon process: main.rs.                                            *)

WritePid(d) ==
    /\ daemon[d] = "spawned"
    /\ daemon' = [daemon EXCEPT ![d] = "boot"] /\ pidFile' = d
    /\ UNCHANGED <<guiVars, fileVars, svc, wasOn, counts>>

\* Services are restored, then the port is bound; a daemon that finds the port taken
\* removes the pid file, whoever it names, and ends.
Bind(d) ==
    /\ daemon[d] = "boot"
    /\ IF Serving
       THEN /\ daemon' = [daemon EXCEPT ![d] = "dead"] /\ pidFile' = None /\ UNCHANGED svc
       ELSE /\ daemon' = [daemon EXCEPT ![d] = "serving"]
            /\ svc' = [svc EXCEPT !.cfg = wasOn] /\ UNCHANGED pidFile
    /\ UNCHANGED <<guiVars, fileVars, wasOn, counts>>

\* The request is answered when the services are stopped; then the daemon ends.
Shutdown(p) ==
    /\ Doing(p, "shutdown") /\ Goes(p)
    /\ IF Serving
       THEN /\ daemon' = [d \in Daemons |-> IF daemon[d] = "serving" THEN "dead" ELSE daemon[d]]
            /\ svc' = Idle /\ wasOn' = None /\ pidFile' = None
       ELSE UNCHANGED <<daemon, svc, wasOn, pidFile>>
    /\ UNCHANGED <<gui, view, tray, fileVars, counts>>

\* A daemon that dies leaves its pid file; the GUI does not start another one.
Crash ==
    /\ Serving /\ crashes < MaxCrashes /\ crashes' = crashes + 1
    /\ daemon' = [d \in Daemons |-> IF daemon[d] = "serving" THEN "dead" ELSE daemon[d]]
    /\ svc' = Idle
    /\ UNCHANGED <<guiVars, fileVars, pidFile, wasOn, launches, commands>>

\* What vnt-cli prints: connected, or connecting again.
ConnectionChanges ==
    /\ svc.cfg # None /\ svc' = [svc EXCEPT !.connected = ~@]
    /\ UNCHANGED <<guiVars, fileVars, daemon, pidFile, wasOn, counts>>

-----------------------------------------------------------------------------

Step(p) ==
    \/ CheckDaemon(p) \/ WaitReady(p) \/ Exit(p)
    \/ Read(p) \/ Peek(p) \/ SetView(p) \/ UpdateTray(p)
    \/ AutoGet(p) \/ AutoPick(p) \/ PickActive(p) \/ VntStart(p) \/ VntStop(p)
    \/ LoadStore(p) \/ TruncateFile(p) \/ WriteFile(p)
    \/ FtpLoad(p) \/ FtpStart(p) \/ FtpStop(p) \/ FtpWrite(p) \/ FtpApply(p) \/ Shutdown(p)

Next ==
    \/ Launch \/ Crash \/ ConnectionChanges
    \/ \E p \in Tasks : Step(p) \/ \E op \in DOMAIN Script, c \in Configs : Command(p, op, c)
    \/ \E d \in Daemons : WritePid(d) \/ Bind(d)

Spec == Init /\ [][Next]_vars

\* Tasks and daemons go on.  All tasks but the polling one come to an end, and so does
\* the start of a daemon, so that they need no fairness each.
FairSpec ==
    /\ Spec
    /\ WF_vars(Step("boot")) /\ WF_vars(\E p \in Tasks \ {"boot"} : Step(p))
    /\ WF_vars(\E d \in Daemons : WritePid(d) \/ Bind(d))

-----------------------------------------------------------------------------

\* The values of the variables; connected is about a VNT that runs.
TypeOK ==
    /\ gui \in BOOLEAN /\ ftpFile \in BOOLEAN
    /\ \A p \in Tasks : Len(job[p]) <= Len(Startup)
    /\ local \in [Tasks -> [cfg : Configs \union {None}, seen : Statuses, loaded : Stores]]
    /\ {view, tray} \subseteq Statuses /\ file \in Stores \union {Torn}
    /\ daemon \in [Daemons -> {"none", "spawned", "boot", "serving", "dead"}]
    /\ Cardinality({d \in Daemons : daemon[d] = "serving"}) <= 1
    /\ pidFile \in Daemons \union {None}
    /\ svc \in [cfg : Configs \union {None}, connected : BOOLEAN, ftp : BOOLEAN]
    /\ svc.connected => svc.cfg # None
    /\ wasOn \in Configs \union {None}
    /\ launches \in 0..MaxLaunches /\ commands \in 0..MaxCommands /\ crashes \in 0..MaxCrashes

Polling == gui /\ job["boot"] # <<>> /\ Head(job["boot"]) \notin {"check", "wait"}

\* When the daemon's VNT keeps its status, state and tray come to show it, whatever
\* the commands that write them next to the poll had read before
\* (sync_status_from_daemon, the loop in run, update_tray_status).
StatusSettles ==
    <>[](Polling /\ Serving) /\ <>[][Status' = Status]_vars
        => <>[](view = Status /\ tray = Status)

\* The file never names an active configuration that it does not hold, whichever
\* commands load and save it at the same time (set_active, delete).
ActiveIsStored == file # Torn /\ file.active # None => file.active \in file.ids

-----------------------------------------------------------------------------
(* What the code does not keep.                                            *)

\* A saved configuration is lost only by deleting it.
ConfigsStay ==
    [][\A c \in Configs : (file # Torn /\ file' # Torn /\ c \in file.ids /\ c \notin file'.ids)
          => \E p \in Tasks : job[p] # <<>> /\ local[p].cfg = c]_vars

\* The active configuration is the one that runs, unless a command is on its way.
ActiveRuns ==
    (svc.cfg # None /\ \A p \in Tasks \ {"boot"} : job[p] = <<>>) /\ file # Torn
        => svc.cfg = file.active

\* With the switch off and no command on its way the FTP server does not run.
SwitchedOff ==
    svc.ftp /\ (\A p \in Tasks \ {"boot"} : job[p] = <<>>) => ftpFile

\* A GUI that stays comes to poll.
StartsPolling == gui ~> (Polling \/ ~gui)

\* The pid file names the daemon that serves.
PidNamesServer == \A d \in Daemons : daemon[d] = "serving" => pidFile = d
=============================================================================
