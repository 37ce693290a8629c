------------------------- MODULE GuiServicesProofs -------------------------
(***************************************************************************)
(* What holds of the GUI process and its daemons for any configurations    *)
(* and any number of launches, daemons, commands and crashes: the types,   *)
(* and that the file of the configurations never names one it does not     *)
(* hold as the active one.                                                 *)
(*                                                                         *)
(* The file may be written by two commands at a time, each from the store  *)
(* it has loaded.  The invariant therefore says of every store a task      *)
(* holds what it says of the file, and that a configuration is added by    *)
(* the first step of a command alone, which is about one.                  *)
(***************************************************************************)
EXTENDS GuiServices, SequenceTheorems, FiniteSetTheorems, WellFoundedInduction, NaturalsInduction,
        TLAPS

-----------------------------------------------------------------------------
(* The invariant.                                                          *)

Locals   == [cfg : Configs \union {None}, seen : Statuses, loaded : Stores]
Services == [cfg : Configs \union {None}, connected : BOOLEAN, ftp : BOOLEAN]
Longest  == 11                      \* the length of Startup

\* The steps that may come after another, and all.
Later == {"check", "wait", "read", "view", "tray", "autoGet", "autoPick", "vntStart", "vntStop",
          "loadStart", "loadActive", "loadDelete", "truncate", "write", "pickActive", "peek",
          "ftpLoad", "ftpStart", "ftpStop", "ftpWrite", "ftpApply", "leave", "shutdown", "exit"}
Steps == Later \union {"loadSave"}

\* A store whose active configuration is one of its own.
Good(s) == s \in Stores /\ (s.active # None => s.active \in s.ids)

\* Only a first step adds a configuration to the file, and then it is about one.
Usable(s, l) ==
    /\ s \in Seq(Steps) /\ Len(s) <= Longest
    /\ s # <<>> => Tail(s) \in Seq(Later)
    /\ s # <<>> /\ Head(s) = "loadSave" => l.cfg \in Configs
    /\ l \in Locals /\ Good(l.loaded)

Processes ==
    /\ gui \in BOOLEAN
    /\ job = [p \in Tasks |-> job[p]] /\ local = [p \in Tasks |-> local[p]]
    /\ \A p \in Tasks : Usable(job[p], local[p])
    /\ view \in Statuses /\ tray \in Statuses

Files == ftpFile \in BOOLEAN /\ (file = Torn \/ Good(file))

\* One daemon serves at most, and VNT runs only in one that serves.
Servers ==
    /\ daemon \in [Daemons -> {"none", "spawned", "boot", "serving", "dead"}]
    /\ \A d, e \in Daemons : daemon[d] = "serving" /\ daemon[e] = "serving" => d = e
    /\ pidFile \in Daemons \union {None}
    /\ svc \in Services /\ (svc.connected => svc.cfg # None)
    /\ ~Serving => svc.cfg = None
    /\ wasOn \in Configs \union {None}

Counts ==
    /\ launches \in 0..MaxLaunches /\ commands \in 0..MaxCommands /\ crashes \in 0..MaxCrashes

Inv == Processes /\ Files /\ Servers /\ Counts

-----------------------------------------------------------------------------
(* Lemmas about the operators.                                             *)

\* The first of a set of configurations is one of them.
LEMMA FirstIsOne ==
    ASSUME NEW T \in SUBSET Configs, T # {}
    PROVE  First(T) \in T
<1>1. T \subseteq Nat
  BY ConstantsOK
<1>2. PICK m \in T : \A k \in T : <<k, m>> \notin OpToRel(<, Nat)
  BY <1>1, WFMin, NatLessThanWellFounded, Zenon
<1>3. \A k \in T : ~(k < m)
  BY <1>1, <1>2, Zenon DEF OpToRel
<1>4. m \in T /\ \A k \in T : m <= k
  BY <1>1, <1>3
<1> QED
  BY <1>1, <1>4 DEF First

LEMMA NoStoreGood == NoStore \in Stores /\ Good(NoStore)
BY DEF NoStore, Stores, Good

LEMMA BlankOK == Blank \in Locals /\ Good(Blank.loaded)
BY NoStoreGood DEF Blank, Locals, Statuses

LEMMA LoadedGood ==
    ASSUME Files PROVE Good(Loaded)
BY NoStoreGood DEF Files, Loaded

\* What the commands make of a store.
LEMMA SetActiveGood ==
    ASSUME NEW s, Good(s), NEW c PROVE Good(SetActive(s, c))
<1>1. s = [active |-> s.active, ids |-> s.ids] /\ s.ids \subseteq Configs
  BY DEF Good, Stores
<1>2. CASE c \in s.ids
  <2>1. SetActive(s, c) = [active |-> c, ids |-> s.ids]
    BY <1>1, <1>2 DEF SetActive
  <2> QED
    BY <1>1, <1>2, <2>1 DEF Good, Stores
<1> QED
  BY <1>2 DEF SetActive

LEMMA AddOrUpdateGood ==
    ASSUME NEW s, Good(s), NEW c \in Configs PROVE Good(AddOrUpdate(s, c))
<1>1. /\ s = [active |-> s.active, ids |-> s.ids] /\ s.ids \subseteq Configs
      /\ s.active \in Configs \union {None} /\ (s.active # None => s.active \in s.ids)
  BY DEF Good, Stores
<1>2. AddOrUpdate(s, c) = [active |-> s.active, ids |-> s.ids \union {c}]
  BY <1>1 DEF AddOrUpdate
<1> QED
  BY <1>1, <1>2 DEF Good, Stores

LEMMA DeleteGood ==
    ASSUME NEW s, Good(s), NEW c PROVE Good(Delete(s, c))
<1> DEFINE ids    == s.ids \ {c}
           active == IF s.active # c THEN s.active ELSE IF ids = {} THEN None ELSE First(ids)
<1>1. /\ s.ids \subseteq Configs /\ s.active \in Configs \union {None}
      /\ s.active # None => s.active \in s.ids
  BY DEF Good, Stores
<1>2. ids # {} => First(ids) \in ids
  BY <1>1, FirstIsOne
<1>3. active \in Configs \union {None} /\ (active # None => active \in ids)
  BY <1>1, <1>2
<1>4. Delete(s, c) = [ids |-> ids, active |-> active]
  BY DEF Delete
<1> HIDE DEF active
<1> QED
  BY <1>1, <1>3, <1>4 DEF Good, Stores

\* The scripts.
Plain(s, n) == s \in Seq(Later) /\ Len(s) = n

LEMMA Join ==
    ASSUME NEW m \in Nat, NEW n \in Nat, NEW s, NEW t, Plain(s, m), Plain(t, n)
    PROVE  Plain(s \o t, m + n)
BY ConcatProperties DEF Plain

LEMMA PlainUsable ==
    ASSUME NEW n \in 0..Longest, NEW s, Plain(s, n), NEW l \in Locals, Good(l.loaded)
    PROVE  Usable(s, l)
<1>1. s \in Seq(Steps) /\ Len(s) <= Longest
  BY SeqMonotonic DEF Plain, Steps, Longest
<1>2. s # <<>> => Tail(s) \in Seq(Later) /\ Head(s) \in Later
  BY HeadTailProperties DEF Plain
<1> QED
  BY <1>1, <1>2 DEF Usable, Later

\* A tuple is a sequence.
LEMMA Tuples ==
    ASSUME NEW S, NEW a \in S, NEW b \in S, NEW c \in S, NEW d \in S
    PROVE  /\ <<>> \in Seq(S) /\ Len(<<>>) = 0
           /\ <<a>> \in Seq(S) /\ Len(<<a>>) = 1
           /\ <<a, b>> \in Seq(S) /\ Len(<<a, b>>) = 2
           /\ <<a, b, c>> \in Seq(S) /\ Len(<<a, b, c>>) = 3
           /\ <<a, b, c, d>> \in Seq(S) /\ Len(<<a, b, c, d>>) = 4
OBVIOUS

LEMMA Parts ==
    /\ Plain(<<>>, 0) /\ Plain(Sync, 3) /\ Plain(Poll, 3) /\ Plain(Store, 2)
    /\ \A a \in Later : Plain(<<a>>, 1)
    /\ \A a \in Later, b \in Later : Plain(<<a, b>>, 2)
    /\ \A a \in Later, b \in Later, c \in Later : Plain(<<a, b, c>>, 3)
    /\ \A a \in Later, b \in Later, c \in Later, d \in Later : Plain(<<a, b, c, d>>, 4)
<1>1. \A a \in Later, b \in Later, c \in Later, d \in Later :
         Plain(<<>>, 0) /\ Plain(<<a>>, 1) /\ Plain(<<a, b>>, 2) /\ Plain(<<a, b, c>>, 3)
         /\ Plain(<<a, b, c, d>>, 4)
  BY Tuples DEF Plain
<1>2. {"read", "view", "tray", "truncate", "write"} \subseteq Later
  BY DEF Later
<1>3. Plain(<<"read", "view", "tray">>, 3) /\ Plain(<<"truncate", "write">>, 2) /\ Plain(<<>>, 0)
  BY <1>1, <1>2
<1> QED
  BY <1>1, <1>2, <1>3 DEF Sync, Poll, Store

LEMMA StartupPlain == Plain(Startup, Longest)
<1>0. {"check", "wait", "autoGet", "autoPick", "vntStart"} \subseteq Later
  BY DEF Later
<1>1. Plain(<<"check", "wait">>, 2) /\ Plain(<<"autoGet", "autoPick", "vntStart">>, 3)
  BY <1>0, Parts
<1>2. Plain(<<"check", "wait">> \o Sync, 2 + 3)
  BY <1>1, Parts, Join
<1>3. Plain((<<"check", "wait">> \o Sync) \o <<"autoGet", "autoPick", "vntStart">>, 5 + 3)
  BY <1>1, <1>2, Join
<1>4. Plain(((<<"check", "wait">> \o Sync) \o <<"autoGet", "autoPick", "vntStart">>) \o Sync, 8 + 3)
  BY <1>3, Parts, Join
<1> QED
  BY <1>4 DEF Startup, Longest

\* Every script but that of saveConfig.
LEMMA ScriptPlain ==
    ASSUME NEW op \in DOMAIN Script, op # "saveConfig"
    PROVE  \E n \in 0..Longest : Plain(Script[op], n)
<1>1. {"loadStart", "loadActive", "loadDelete", "vntStart", "vntStop", "pickActive", "peek", "tray",
       "ftpLoad", "ftpStart", "ftpStop", "ftpWrite", "ftpApply", "exit", "leave", "shutdown"}
         \subseteq Later
  BY DEF Later
<1>2. Plain(<<"loadStart">> \o Store \o <<"vntStart">> \o Sync, 7)
  <2>1. Plain(<<"loadStart">> \o Store, 1 + 2)
    BY <1>1, Parts, Join
  <2>2. Plain((<<"loadStart">> \o Store) \o <<"vntStart">>, 3 + 1)
    BY <1>1, <2>1, Parts, Join
  <2>3. Plain(((<<"loadStart">> \o Store) \o <<"vntStart">>) \o Sync, 4 + 3)
    BY <2>2, Parts, Join
  <2> QED
    BY <2>3
<1>3. Plain(<<"vntStop">> \o Sync, 1 + 3)
  BY <1>1, Parts, Join
<1>4. Plain(<<"loadActive">> \o Store, 1 + 2) /\ Plain(<<"loadDelete">> \o Store, 1 + 2)
  BY <1>1, Parts, Join
<1>5. /\ Plain(<<"pickActive", "vntStart">>, 2) /\ Plain(<<"peek", "tray">>, 2)
      /\ Plain(<<"ftpLoad", "ftpStart">>, 2) /\ Plain(<<"ftpStop">>, 1)
      /\ Plain(<<"ftpWrite", "ftpApply">>, 2) /\ Plain(<<"exit">>, 1)
  BY <1>1, Parts
<1>6. Plain(<<"leave", "ftpStop", "shutdown", "exit">>, 4)
  BY <1>1, Parts
<1>7. {1, 2, 1 + 2, 1 + 3, 4, 7} \subseteq 0..Longest
  BY DEF Longest
<1>8. op \in {"startConnection", "stopConnection", "setActive", "deleteConfig", "trayConnect", "copyIp",
              "ftpStart", "ftpStop", "ftpSave", "exitGuiOnly", "exitFull"}
  BY DEF Script
<1> DEFINE Goal == \E n \in 0..Longest : Plain(Script[op], n)
<1>9. CASE op \in {"startConnection", "stopConnection", "setActive", "deleteConfig"}
  <2>1. op = "startConnection" => Script[op] = <<"loadStart">> \o Store \o <<"vntStart">> \o Sync
    BY DEF Script
  <2>2. op = "stopConnection" => Script[op] = <<"vntStop">> \o Sync
    BY DEF Script
  <2>3. op = "setActive" => Script[op] = <<"loadActive">> \o Store
    BY DEF Script
  <2>4. op = "deleteConfig" => Script[op] = <<"loadDelete">> \o Store
    BY DEF Script
  <2> QED
    BY <1>2, <1>3, <1>4, <1>7, <1>9, <2>1, <2>2, <2>3, <2>4
<1>10. CASE op \in {"trayConnect", "copyIp", "ftpStart", "ftpStop", "ftpSave", "exitGuiOnly", "exitFull"}
  <2>1. \/ Script[op] = <<"pickActive", "vntStart">>
        \/ Script[op] = <<"peek", "tray">>
        \/ Script[op] = <<"ftpLoad", "ftpStart">>
        \/ Script[op] = <<"ftpStop">>
        \/ Script[op] = <<"ftpWrite", "ftpApply">>
        \/ Script[op] = <<"exit">>
        \/ Script[op] = <<"leave", "ftpStop", "shutdown", "exit">>
    BY <1>10 DEF Script
  <2> QED
    BY <1>5, <1>6, <1>7, <2>1
<1> QED
  BY <1>8, <1>9, <1>10

\* One step in front of others.
LEMMA InFront ==
    ASSUME NEW S, NEW a \in S, NEW t \in Seq(S)
    PROVE  /\ <<a>> \o t \in Seq(S) /\ Len(<<a>> \o t) = 1 + Len(t)
           /\ Head(<<a>> \o t) = a /\ Tail(<<a>> \o t) = t
<1> DEFINE s == <<a>> \o t
<1>1. <<a>> \in Seq(S) /\ Len(<<a>>) = 1 /\ <<a>>[1] = a /\ Len(t) \in Nat
  BY LenProperties
<1>2. /\ s \in Seq(S) /\ Len(s) = 1 + Len(t)
      /\ \A i \in 1..(1 + Len(t)) : s[i] = IF i <= 1 THEN <<a>>[i] ELSE t[i - 1]
  <2>1. /\ s \in Seq(S) /\ Len(s) = Len(<<a>>) + Len(t)
        /\ \A i \in 1..(Len(<<a>>) + Len(t)) :
              s[i] = IF i <= Len(<<a>>) THEN <<a>>[i] ELSE t[i - Len(<<a>>)]
    BY <1>1, ConcatProperties
  <2> QED
    BY <1>1, <2>1
<1> HIDE DEF s
<1>3. s # <<>> /\ s[1] = a
  BY <1>1, <1>2, EmptySeq
<1>4. /\ Tail(s) \in Seq(S) /\ Len(Tail(s)) = Len(s) - 1 /\ Head(s) = s[1]
      /\ \A i \in 1..Len(Tail(s)) : Tail(s)[i] = s[i + 1]
  BY <1>2, <1>3, HeadTailProperties
<1>5. \A i \in 1..Len(t) : Tail(s)[i] = t[i]
  <2> SUFFICES ASSUME NEW i \in 1..Len(t) PROVE Tail(s)[i] = t[i]
    OBVIOUS
  <2>1. i + 1 \in 1..(1 + Len(t)) /\ ~(i + 1 <= 1) /\ (i + 1) - 1 = i /\ i \in 1..Len(Tail(s))
    BY <1>1, <1>2, <1>4
  <2> QED
    BY <1>2, <1>4, <2>1
<1>6. Tail(s) = t
  <2>1. Len(Tail(s)) = Len(t)
    BY <1>1, <1>2, <1>4
  <2> QED
    BY <1>4, <1>5, <2>1, SeqEqual
<1> QED
  BY <1>2, <1>3, <1>4, <1>6 DEF s

LEMMA LongerUsable ==
    ASSUME NEW a \in Steps, NEW t, NEW n \in Nat, n < Longest, Plain(t, n),
           NEW l \in Locals, Good(l.loaded), l.cfg \in Configs
    PROVE  Usable(<<a>> \o t, l)
<1> DEFINE s == <<a>> \o t
<1>1. t \in Seq(Steps) /\ t \in Seq(Later) /\ Len(t) = n
  <2>1. Later \subseteq Steps
    BY DEF Steps
  <2> QED
    BY <2>1, SeqMonotonic DEF Plain
<1>2. s \in Seq(Steps) /\ Len(s) = 1 + n /\ Tail(s) = t
  BY <1>1, InFront
<1> HIDE DEF s
<1>3. Len(s) <= Longest
  BY <1>2 DEF Longest
<1>4. Tail(s) \in Seq(Later)
  BY <1>1, <1>2
<1>5. Usable(s, l)
  BY <1>2, <1>3, <1>4 DEF Usable
<1> QED
  BY <1>5 DEF s

LEMMA SaveUsable ==
    ASSUME NEW l \in Locals, Good(l.loaded), l.cfg \in Configs
    PROVE  Usable(Script["saveConfig"], l)
<1>1. Script["saveConfig"] = <<"loadSave">> \o Store
  BY DEF Script
<1>2. "loadSave" \in Steps /\ 2 < Longest
  BY DEF Steps, Longest
<1> QED
  BY <1>1, <1>2, Parts, LongerUsable

-----------------------------------------------------------------------------
(* The tasks.                                                              *)

\* A task ends, and the startup task polls.
LEMMA EndsOK ==
    ASSUME Processes, NEW p \in Tasks, Ends(p), gui' \in BOOLEAN, view' \in Statuses, tray' \in Statuses
    PROVE  Processes'
<1> DEFINE s == IF p = "boot" THEN Poll ELSE <<>>
<1>1. Usable(s, Blank)
  <2>1. Plain(s, 3) \/ Plain(s, 0)
    BY Parts
  <2>2. {0, 3} \subseteq 0..Longest
    BY DEF Longest
  <2> QED
    BY <2>1, <2>2, PlainUsable, BlankOK
<1> HIDE DEF s
<1>2. job' = [job EXCEPT ![p] = s] /\ local' = [local EXCEPT ![p] = Blank]
  BY DEF Ends, s
<1>3. job' = [q \in Tasks |-> job'[q]] /\ local' = [q \in Tasks |-> local'[q]]
  BY <1>2 DEF Processes
<1>4. \A q \in Tasks : Usable(job'[q], local'[q])
  BY <1>1, <1>2 DEF Processes
<1> QED
  BY <1>3, <1>4 DEF Processes

\* A task goes on to its next step.
LEMMA GoesWithOK ==
    ASSUME Processes, NEW p \in Tasks, job[p] # <<>>, NEW l \in Locals, Good(l.loaded), GoesWith(p, l),
           gui' \in BOOLEAN, view' \in Statuses, tray' \in Statuses
    PROVE  Processes'
<1>1. Usable(job[p], local[p])
  BY DEF Processes
<1>2. CASE Ends(p)
  BY <1>2, EndsOK
<1>3. CASE job' = [job EXCEPT ![p] = Tail(@)] /\ local' = [local EXCEPT ![p] = l]
  <2>1. Tail(job[p]) \in Seq(Later) /\ job[p] \in Seq(Steps) /\ Len(job[p]) <= Longest
    BY <1>1 DEF Usable
  <2>2. Len(Tail(job[p])) = Len(job[p]) - 1 /\ Len(job[p]) \in Nat \ {0}
    BY <2>1, HeadTailProperties, EmptySeq
  <2>3. Len(Tail(job[p])) \in 0..Longest
    <3>1. \A n \in Nat \ {0} : n <= Longest => n - 1 \in 0..Longest
      BY DEF Longest
    <3> QED
      BY <2>1, <2>2, <3>1
  <2>4. Usable(Tail(job[p]), l)
    BY <2>1, <2>3, PlainUsable DEF Plain
  <2>5. job' = [q \in Tasks |-> job'[q]] /\ local' = [q \in Tasks |-> local'[q]]
    BY <1>3 DEF Processes
  <2>6. \A q \in Tasks : Usable(job'[q], local'[q])
    BY <1>3, <2>4 DEF Processes
  <2> QED
    BY <2>5, <2>6 DEF Processes
<1> QED
  BY <1>2, <1>3 DEF GoesWith

LEMMA GoesOK ==
    ASSUME Processes, NEW p \in Tasks, job[p] # <<>>, Goes(p),
           gui' \in BOOLEAN, view' \in Statuses, tray' \in Statuses
    PROVE  Processes'
<1>1. local[p] \in Locals /\ Good(local[p].loaded)
  BY DEF Processes, Usable
<1> QED
  BY <1>1, GoesWithOK DEF Goes

\* What a task keeps for its next step.
LEMMA LocalOK ==
    ASSUME NEW l \in Locals, Good(l.loaded)
    PROVE  /\ \A x \in Statuses : [l EXCEPT !.seen = x] \in Locals /\ Good([l EXCEPT !.seen = x].loaded)
           /\ \A x \in Configs \union {None} : [l EXCEPT !.cfg = x] \in Locals /\ Good([l EXCEPT !.cfg = x].loaded)
           /\ \A x : Good(x) => [l EXCEPT !.loaded = x] \in Locals /\ Good([l EXCEPT !.loaded = x].loaded)
<1>1. l = [cfg |-> l.cfg, seen |-> l.seen, loaded |-> l.loaded]
  BY DEF Locals
<1>2. ASSUME NEW x \in Statuses PROVE [l EXCEPT !.seen = x] \in Locals /\ Good([l EXCEPT !.seen = x].loaded)
  BY <1>1, <1>2 DEF Locals
<1>3. ASSUME NEW x \in Configs \union {None} PROVE [l EXCEPT !.cfg = x] \in Locals /\ Good([l EXCEPT !.cfg = x].loaded)
  BY <1>1, <1>3 DEF Locals
<1>4. ASSUME NEW x, Good(x) PROVE [l EXCEPT !.loaded = x] \in Locals /\ Good([l EXCEPT !.loaded = x].loaded)
  <2>1. x \in Stores
    BY <1>4 DEF Good
  <2> QED
    BY <1>1, <1>4, <2>1 DEF Locals
<1> QED
  BY <1>2, <1>3, <1>4

LEMMA EditedGood ==
    ASSUME Processes, Files, NEW p \in Tasks, job[p] # <<>>,
           Head(job[p]) \in {"loadStart", "loadActive", "loadSave", "loadDelete"}
    PROVE  Good(Edited(p, Loaded))
<1>1. Good(Loaded) /\ Usable(job[p], local[p])
  BY LoadedGood DEF Processes
<1>2. CASE Head(job[p]) \in {"loadStart", "loadActive"}
  BY <1>1, <1>2, SetActiveGood DEF Edited
<1>3. CASE Head(job[p]) = "loadSave"
  <2>1. local[p].cfg \in Configs
    BY <1>1, <1>3 DEF Usable
  <2> QED
    BY <1>1, <1>3, <2>1, AddOrUpdateGood DEF Edited
<1>4. CASE Head(job[p]) = "loadDelete"
  BY <1>1, <1>4, DeleteGood DEF Edited
<1> QED
  BY <1>2, <1>3, <1>4

LEMMA ProcessesStep ==
    ASSUME Inv, Next PROVE Processes'
<1> USE DEF guiVars, daemonVars, fileVars, counts
<1>0. /\ Processes /\ Files /\ gui \in BOOLEAN /\ view \in Statuses /\ tray \in Statuses
      /\ \A p \in Tasks : Usable(job[p], local[p]) /\ local[p] \in Locals /\ Good(local[p].loaded)
      /\ svc \in Services /\ Status \in Statuses
  BY DEF Inv, Processes, Usable, Servers, Status, Statuses
<1>1. ASSUME UNCHANGED guiVars PROVE Processes'
  BY <1>0, <1>1 DEF Processes
<1>2. ASSUME NEW p \in Tasks, job[p] # <<>>, UNCHANGED <<gui, view, tray>>, Goes(p) \/ Ends(p)
      PROVE  Processes'
  BY <1>0, <1>2, GoesOK, EndsOK
<1>3. ASSUME Launch PROVE Processes'
  <2>1. /\ gui' = TRUE /\ view' = "stopped" /\ tray' = "stopped"
        /\ local' = [p \in Tasks |-> Blank]
        /\ \E auto \in BOOLEAN :
              job' = [p \in Tasks |-> CASE p = "boot" -> Startup
                                        [] p = "ftp" -> IF auto /\ ftpFile THEN <<"ftpStart">> ELSE <<>>
                                        [] OTHER -> <<>>]
    BY <1>3 DEF Launch
  <2>2. /\ job' = [p \in Tasks |-> job'[p]]
        /\ \A p \in Tasks : job'[p] \in {Startup, <<"ftpStart">>, <<>>}
    BY <2>1 DEF Tasks
  <2>3. Usable(Startup, Blank) /\ Usable(<<"ftpStart">>, Blank) /\ Usable(<<>>, Blank)
    <3>1. "ftpStart" \in Later /\ {0, 1, Longest} \subseteq 0..Longest
      BY DEF Later, Longest
    <3>2. Plain(Startup, Longest) /\ Plain(<<"ftpStart">>, 1) /\ Plain(<<>>, 0)
      BY <3>1, StartupPlain, Parts
    <3> QED
      BY <3>1, <3>2, PlainUsable, BlankOK
  <2>4. \A p \in Tasks : Usable(job'[p], local'[p])
    BY <2>1, <2>2, <2>3
  <2> QED
    BY <2>1, <2>2, <2>4 DEF Processes, Statuses
<1>4. ASSUME NEW p \in Tasks, Exit(p) PROVE Processes'
  <2>1. /\ gui' = FALSE /\ job' = [q \in Tasks |-> <<>>] /\ local' = [q \in Tasks |-> Blank]
        /\ view' = "stopped" /\ tray' = "stopped"
    BY <1>4 DEF Exit
  <2>2. Usable(<<>>, Blank)
    <3>1. 0 \in 0..Longest
      BY DEF Longest
    <3> QED
      BY <3>1, Parts, PlainUsable, BlankOK
  <2> QED
    BY <2>1, <2>2 DEF Processes, Statuses
<1>5. ASSUME NEW p \in Tasks, NEW op \in DOMAIN Script, NEW c \in Configs, Command(p, op, c)
      PROVE  Processes'
  <2> DEFINE l == [local[p] EXCEPT !.cfg = IF op \in AboutConfig THEN c ELSE None]
  <2>1. /\ job' = [job EXCEPT ![p] = Script[op]] /\ local' = [local EXCEPT ![p] = l]
        /\ UNCHANGED <<gui, view, tray>>
    BY <1>5 DEF Command
  <2>2. l \in Locals /\ Good(l.loaded)
    BY <1>0, LocalOK
  <2>3. Usable(Script[op], l)
    <3>1. CASE op = "saveConfig"
      <4>1. op \in AboutConfig
        BY <3>1 DEF AboutConfig, MainCommands
      <4>2. l.cfg = c
        BY <1>0, <4>1 DEF Locals
      <4> HIDE DEF l
      <4> QED
        BY <2>2, <3>1, <4>2, SaveUsable
    <3>2. CASE op # "saveConfig"
      <4> HIDE DEF l
      <4> QED
        BY <2>2, <3>2, ScriptPlain, PlainUsable
    <3> QED
      BY <3>1, <3>2
  <2> HIDE DEF l
  <2>4. job' = [q \in Tasks |-> job'[q]] /\ local' = [q \in Tasks |-> local'[q]]
    BY <1>0, <2>1 DEF Processes
  <2>5. \A q \in Tasks : Usable(job'[q], local'[q])
    BY <1>0, <2>1, <2>3 DEF Processes
  <2> QED
    BY <1>0, <2>1, <2>4, <2>5 DEF Processes
<1>6. ASSUME NEW p \in Tasks, Step(p) PROVE Processes'
  <2> USE DEF Doing
  <2>1. ASSUME WaitReady(p) PROVE Processes'
    <3>1. CASE Goes(p)
      BY <1>2, <2>1, <3>1 DEF WaitReady
    <3>2. CASE job' = [job EXCEPT ![p] = <<>>] /\ local' = local
      <4>1. Usable(<<>>, local[p])
        <5>1. 0 \in 0..Longest
          BY DEF Longest
        <5> QED
          BY <1>0, <5>1, Parts, PlainUsable
      <4>2. \A q \in Tasks : Usable(job'[q], local'[q])
        BY <1>0, <3>2, <4>1 DEF Processes
      <4>3. job' = [q \in Tasks |-> job'[q]] /\ local' = [q \in Tasks |-> local'[q]]
        BY <1>0, <3>2 DEF Processes
      <4> QED
        BY <1>0, <2>1, <4>2, <4>3 DEF Processes, WaitReady
    <3> QED
      BY <2>1, <3>1, <3>2 DEF WaitReady
  <2>2. ASSUME Read(p) PROVE Processes'
    <3> DEFINE x == IF Serving THEN Status ELSE view
    <3>1. x \in Statuses
      BY <1>0
    <3> HIDE DEF x
    <3>2. job[p] # <<>> /\ GoesWith(p, [local[p] EXCEPT !.seen = x]) /\ UNCHANGED <<gui, view, tray>>
      BY <2>2 DEF Read, x
    <3> QED
      BY <1>0, <3>1, <3>2, LocalOK, GoesWithOK
  <2>3. ASSUME Peek(p) PROVE Processes'
    BY <1>0, <2>3, LocalOK, GoesWithOK DEF Peek
  <2>4. ASSUME SetView(p) PROVE Processes'
    <3>1. view' \in Statuses
      BY <1>0, <2>4 DEF SetView, Locals
    <3> QED
      BY <1>0, <2>4, <3>1, GoesOK DEF SetView
  <2>5. ASSUME UpdateTray(p) PROVE Processes'
    <3>1. tray' \in Statuses
      BY <1>0, <2>5 DEF UpdateTray, Locals
    <3> QED
      BY <1>0, <2>5, <3>1, GoesOK DEF UpdateTray
  <2>6. ASSUME NEW c \in Configs \union {None}, job[p] # <<>>, Picks(p, c) PROVE Processes'
    <3>1. UNCHANGED <<gui, view, tray>>
      BY <2>6 DEF Picks
    <3>2. Ends(p) \/ GoesWith(p, [local[p] EXCEPT !.cfg = c])
      BY <2>6 DEF Picks
    <3> QED
      BY <1>0, <2>6, <3>1, <3>2, EndsOK, LocalOK, GoesWithOK
  <2>7. /\ Loaded.ids \subseteq Configs
        /\ Loaded.ids # {} => First(Loaded.ids) \in Configs
    BY <1>0, LoadedGood, FirstIsOne DEF Good, Stores
  <2>8. ASSUME AutoPick(p) PROVE Processes'
    BY <2>6, <2>7, <2>8 DEF AutoPick
  <2>9. ASSUME PickActive(p) PROVE Processes'
    BY <2>6, <2>7, <2>9 DEF PickActive
  <2>10. ASSUME LoadStore(p) PROVE Processes'
    <3>1. /\ job[p] # <<>> /\ Head(job[p]) \in {"loadStart", "loadActive", "loadSave", "loadDelete"}
          /\ Ends(p) \/ GoesWith(p, [local[p] EXCEPT !.loaded = Edited(p, Loaded)])
          /\ UNCHANGED <<gui, view, tray>>
      BY <2>10 DEF LoadStore
    <3>2. Good(Edited(p, Loaded))
      BY <1>0, <3>1, EditedGood
    <3> QED
      BY <1>0, <3>1, <3>2, EndsOK, LocalOK, GoesWithOK
  <2>11. ASSUME WriteFile(p) PROVE Processes'
    <3>1. /\ job[p] # <<>> /\ GoesWith(p, [local[p] EXCEPT !.loaded = NoStore])
          /\ UNCHANGED <<gui, view, tray>>
      BY <2>11 DEF WriteFile
    <3> QED
      BY <1>0, <3>1, LocalOK, GoesWithOK, NoStoreGood
  <2>12. ASSUME CheckDaemon(p) \/ AutoGet(p) \/ VntStart(p) \/ VntStop(p) PROVE Processes'
    <3>1. job[p] # <<>> /\ UNCHANGED <<gui, view, tray>> /\ (Goes(p) \/ Ends(p))
      BY <2>12 DEF CheckDaemon, AutoGet, VntStart, VntStop
    <3> QED
      BY <1>2, <3>1
  <2>13. ASSUME \/ TruncateFile(p) \/ FtpLoad(p) \/ FtpStart(p) \/ FtpStop(p) \/ FtpWrite(p)
                \/ FtpApply(p) \/ Shutdown(p)
         PROVE  Processes'
    <3>1. job[p] # <<>> /\ UNCHANGED <<gui, view, tray>> /\ (Goes(p) \/ Ends(p))
      BY <2>13 DEF TruncateFile, FtpLoad, FtpStart, FtpStop, FtpWrite, FtpApply, Shutdown
    <3> QED
      BY <1>2, <3>1
  <2> QED
    BY <1>4, <1>6, <2>1, <2>2, <2>3, <2>4, <2>5, <2>8, <2>9, <2>10, <2>11, <2>12, <2>13 DEF Step
<1>7. ASSUME NEW d \in Daemons, WritePid(d) \/ Bind(d) PROVE Processes'
  BY <1>1, <1>7 DEF WritePid, Bind
<1>8. ASSUME Crash \/ ConnectionChanges PROVE Processes'
  BY <1>1, <1>8 DEF Crash, ConnectionChanges
<1> QED
  BY <1>3, <1>5, <1>6, <1>7, <1>8 DEF Next

-----------------------------------------------------------------------------
(* The files, and the daemons.                                             *)

LEMMA FilesStep ==
    ASSUME Inv, Next PROVE Files'
<1> USE DEF guiVars, daemonVars, fileVars, counts
<1>0. Files /\ \A p \in Tasks : Good(local[p].loaded)
  BY DEF Inv, Processes, Usable
<1>1. ASSUME UNCHANGED <<file, ftpFile>> PROVE Files'
  BY <1>0, <1>1 DEF Files, Good
<1>2. ASSUME NEW p \in Tasks, TruncateFile(p) PROVE Files'
  BY <1>0, <1>2 DEF TruncateFile, Files
<1>3. ASSUME NEW p \in Tasks, WriteFile(p) PROVE Files'
  <2>1. (file' = local[p].loaded \/ file' = Torn) /\ ftpFile' = ftpFile
    BY <1>3 DEF WriteFile
  <2>2. file' = Torn \/ Good(file')
    BY <1>0, <2>1
  <2> QED
    BY <1>0, <2>1, <2>2 DEF Files, Good
<1>4. ASSUME NEW p \in Tasks, FtpWrite(p) PROVE Files'
  BY <1>0, <1>4 DEF FtpWrite, Files, Good
<1>5. ASSUME NEW p \in Tasks, Step(p) PROVE Files'
  <2>1. ASSUME CheckDaemon(p) \/ WaitReady(p) \/ Exit(p) \/ Read(p) \/ Peek(p) \/ SetView(p) \/ UpdateTray(p)
        PROVE  Files'
    BY <1>1, <2>1 DEF CheckDaemon, WaitReady, Exit, Read, Peek, SetView, UpdateTray
  <2>2. ASSUME AutoGet(p) \/ AutoPick(p) \/ PickActive(p) \/ VntStart(p) \/ VntStop(p) \/ LoadStore(p)
        PROVE  Files'
    BY <1>1, <2>2 DEF AutoGet, AutoPick, PickActive, Picks, VntStart, VntStop, LoadStore
  <2>3. ASSUME FtpLoad(p) \/ FtpStart(p) \/ FtpStop(p) \/ FtpApply(p) \/ Shutdown(p)
        PROVE  Files'
    BY <1>1, <2>3 DEF FtpLoad, FtpStart, FtpStop, FtpApply, Shutdown
  <2> QED
    BY <1>2, <1>3, <1>4, <1>5, <2>1, <2>2, <2>3 DEF Step
<1>6. ASSUME NEW p \in Tasks, NEW op \in DOMAIN Script, NEW c \in Configs, Command(p, op, c)
      PROVE  Files'
  BY <1>1, <1>6 DEF Command
<1>7. ASSUME NEW d \in Daemons, WritePid(d) \/ Bind(d) PROVE Files'
  BY <1>1, <1>7 DEF WritePid, Bind
<1>8. ASSUME Launch \/ Crash \/ ConnectionChanges PROVE Files'
  BY <1>1, <1>8 DEF Launch, Crash, ConnectionChanges
<1> QED
  BY <1>5, <1>6, <1>7, <1>8 DEF Next

\* The services a daemon that serves may have.
LEMMA ServicesOK ==
    ASSUME Servers, UNCHANGED <<daemon, pidFile>>, wasOn' \in Configs \union {None},
           svc' \in Services, svc'.connected => svc'.cfg # None, ~Serving => svc'.cfg = None
    PROVE  Servers'
<1>1. ~Serving' => ~Serving
  BY DEF Serving
<1> QED
  BY <1>1 DEF Servers

LEMMA FtpOK ==
    ASSUME Servers, NEW on \in BOOLEAN
    PROVE  /\ [svc EXCEPT !.ftp = on] \in Services
           /\ [svc EXCEPT !.ftp = on].cfg = svc.cfg
           /\ [svc EXCEPT !.ftp = on].connected => svc.cfg # None
<1>1. svc = [cfg |-> svc.cfg, connected |-> svc.connected, ftp |-> svc.ftp]
      /\ svc.cfg \in Configs \union {None} /\ svc.connected \in BOOLEAN
      /\ (svc.connected => svc.cfg # None)
  BY DEF Servers, Services
<1>2. [svc EXCEPT !.ftp = on] = [cfg |-> svc.cfg, connected |-> svc.connected, ftp |-> on]
  BY <1>1
<1> QED
  BY <1>1, <1>2 DEF Services

\* Nothing serves any more.
LEMMA DownOK ==
    ASSUME Servers, daemon' = [d \in Daemons |-> IF daemon[d] = "serving" THEN "dead" ELSE daemon[d]],
           svc' = Idle, wasOn' \in Configs \union {None}, pidFile' \in Daemons \union {None}
    PROVE  Servers'
<1>1. /\ daemon' \in [Daemons -> {"none", "spawned", "boot", "serving", "dead"}]
      /\ \A d \in Daemons : daemon'[d] # "serving"
  BY DEF Servers
<1>2. Idle \in Services /\ Idle.cfg = None /\ Idle.connected = FALSE
  BY DEF Idle, Services
<1> QED
  BY <1>1, <1>2 DEF Servers

LEMMA ServersStep ==
    ASSUME Inv, Next PROVE Servers'
<1> USE DEF guiVars, daemonVars, fileVars, counts
<1>0. Servers /\ \A p \in Tasks : local[p].cfg \in Configs \union {None}
  BY DEF Inv, Processes, Usable, Locals
<1>00. /\ svc = [cfg |-> svc.cfg, connected |-> svc.connected, ftp |-> svc.ftp]
       /\ svc.cfg \in Configs \union {None} /\ svc.connected \in BOOLEAN /\ svc.ftp \in BOOLEAN
       /\ (svc.connected => svc.cfg # None) /\ (~Serving => svc.cfg = None)
       /\ wasOn \in Configs \union {None} /\ pidFile \in Daemons \union {None} /\ svc \in Services
       /\ daemon \in [Daemons -> {"none", "spawned", "boot", "serving", "dead"}]
       /\ \A d, e \in Daemons : daemon[d] = "serving" /\ daemon[e] = "serving" => d = e
  BY <1>0 DEF Servers, Services
<1>1. ASSUME UNCHANGED daemonVars PROVE Servers'
  BY <1>00, <1>0, <1>1, ServicesOK
<1>2. ASSUME NEW p \in Tasks, CheckDaemon(p) PROVE Servers'
  <2>1. CASE UNCHANGED daemon
    BY <1>1, <1>2, <2>1 DEF CheckDaemon
  <2>2. ASSUME NEW d \in Daemons, daemon[d] = "none", daemon' = [daemon EXCEPT ![d] = "spawned"]
        PROVE  Servers'
    <3>1. /\ daemon' \in [Daemons -> {"none", "spawned", "boot", "serving", "dead"}]
          /\ \A e \in Daemons : daemon'[e] = "serving" <=> daemon[e] = "serving"
          /\ UNCHANGED <<pidFile, svc, wasOn>>
      BY <1>00, <1>2, <2>2 DEF CheckDaemon
    <3>2. Serving' <=> Serving
      BY <3>1 DEF Serving
    <3> QED
      BY <1>00, <3>1, <3>2 DEF Servers
  <2> QED
    BY <1>2, <2>1, <2>2 DEF CheckDaemon
<1>3. ASSUME NEW p \in Tasks, VntStart(p) PROVE Servers'
  <2>1. UNCHANGED <<daemon, pidFile>>
    BY <1>3 DEF VntStart
  <2>2. CASE UNCHANGED <<svc, wasOn>>
    BY <1>1, <2>1, <2>2
  <2>3. CASE /\ Serving /\ wasOn' = local[p].cfg
             /\ svc' = [svc EXCEPT !.cfg = local[p].cfg, !.connected = FALSE]
    <3>1. svc' = [cfg |-> local[p].cfg, connected |-> FALSE, ftp |-> svc.ftp]
      BY <1>00, <2>3
    <3>2. svc' \in Services /\ ~svc'.connected
      BY <1>0, <1>00, <3>1 DEF Services
    <3> QED
      BY <1>0, <2>1, <2>3, <3>2, ServicesOK
  <2> QED
    BY <1>3, <2>2, <2>3 DEF VntStart
<1>4. ASSUME NEW p \in Tasks, VntStop(p) PROVE Servers'
  <2>1. UNCHANGED <<daemon, pidFile>>
    BY <1>4 DEF VntStop
  <2>2. CASE UNCHANGED <<svc, wasOn>>
    BY <1>1, <2>1, <2>2
  <2>3. CASE Serving /\ wasOn' = None /\ svc' = Stopped(svc)
    <3>1. svc' = [cfg |-> None, connected |-> FALSE, ftp |-> svc.ftp]
      BY <1>00, <2>3 DEF Stopped
    <3>2. svc' \in Services /\ ~svc'.connected
      BY <1>00, <3>1 DEF Services
    <3> QED
      BY <1>0, <2>1, <2>3, <3>2, ServicesOK
  <2> QED
    BY <1>4, <2>2, <2>3 DEF VntStop
<1>5. ASSUME NEW on \in BOOLEAN, svc' = [svc EXCEPT !.ftp = on], UNCHANGED <<daemon, pidFile, wasOn>>
      PROVE  Servers'
  BY <1>0, <1>00, <1>5, FtpOK, ServicesOK
<1>6. ASSUME NEW p \in Tasks, FtpStart(p) \/ FtpStop(p) \/ FtpApply(p) PROVE Servers'
  <2>1. /\ UNCHANGED <<daemon, pidFile, wasOn>>
        /\ svc' = svc \/ \E on \in BOOLEAN : svc' = [svc EXCEPT !.ftp = on]
    <3>1. ftpFile \in BOOLEAN
      BY DEF Inv, Files
    <3> QED
      BY <1>6, <3>1 DEF FtpStart, FtpStop, FtpApply
  <2> QED
    BY <1>1, <1>5, <2>1
<1>7. ASSUME NEW p \in Tasks, Shutdown(p) PROVE Servers'
  <2>1. CASE UNCHANGED <<daemon, svc, wasOn, pidFile>>
    BY <1>1, <2>1
  <2>2. CASE /\ daemon' = [d \in Daemons |-> IF daemon[d] = "serving" THEN "dead" ELSE daemon[d]]
             /\ svc' = Idle /\ wasOn' = None /\ pidFile' = None
    BY <1>0, <2>2, DownOK
  <2> QED
    BY <1>7, <2>1, <2>2 DEF Shutdown
<1>8. ASSUME NEW p \in Tasks, Step(p) PROVE Servers'
  <2>1. ASSUME WaitReady(p) \/ Exit(p) \/ Read(p) \/ Peek(p) \/ SetView(p) \/ UpdateTray(p)
        PROVE  Servers'
    BY <1>1, <2>1 DEF WaitReady, Exit, Read, Peek, SetView, UpdateTray
  <2>2. ASSUME AutoGet(p) \/ AutoPick(p) \/ PickActive(p) \/ LoadStore(p)
        PROVE  Servers'
    BY <1>1, <2>2 DEF AutoGet, AutoPick, PickActive, Picks, LoadStore
  <2>3. ASSUME TruncateFile(p) \/ WriteFile(p) \/ FtpLoad(p) \/ FtpWrite(p)
        PROVE  Servers'
    BY <1>1, <2>3 DEF TruncateFile, WriteFile, FtpLoad, FtpWrite
  <2> QED
    BY <1>2, <1>3, <1>4, <1>6, <1>7, <1>8, <2>1, <2>2, <2>3 DEF Step
<1>9. ASSUME NEW p \in Tasks, NEW op \in DOMAIN Script, NEW c \in Configs, Command(p, op, c)
      PROVE  Servers'
  BY <1>1, <1>9 DEF Command
<1>10. ASSUME NEW d \in Daemons, WritePid(d) PROVE Servers'
  <2>1. /\ daemon[d] = "spawned" /\ daemon' = [daemon EXCEPT ![d] = "boot"] /\ pidFile' = d
        /\ UNCHANGED <<svc, wasOn>>
    BY <1>10 DEF WritePid
  <2>2. /\ daemon' \in [Daemons -> {"none", "spawned", "boot", "serving", "dead"}]
        /\ \A e \in Daemons : daemon'[e] = "serving" <=> daemon[e] = "serving"
    BY <1>00, <2>1
  <2>3. Serving' <=> Serving
    BY <2>2 DEF Serving
  <2> QED
    BY <1>00, <2>1, <2>2, <2>3 DEF Servers
<1>11. ASSUME NEW d \in Daemons, Bind(d) PROVE Servers'
  <2>1. daemon[d] = "boot" /\ UNCHANGED wasOn
    BY <1>11 DEF Bind
  <2>2. CASE /\ Serving /\ daemon' = [daemon EXCEPT ![d] = "dead"] /\ pidFile' = None /\ UNCHANGED svc
    <3>1. /\ daemon' \in [Daemons -> {"none", "spawned", "boot", "serving", "dead"}]
          /\ \A e \in Daemons : daemon'[e] = "serving" <=> daemon[e] = "serving"
      BY <1>00, <2>1, <2>2
    <3>2. Serving' <=> Serving
      BY <3>1 DEF Serving
    <3> QED
      BY <1>00, <2>1, <2>2, <3>1, <3>2 DEF Servers
  <2>3. CASE /\ ~Serving /\ daemon' = [daemon EXCEPT ![d] = "serving"]
             /\ svc' = [svc EXCEPT !.cfg = wasOn] /\ UNCHANGED pidFile
    <3>1. /\ daemon' \in [Daemons -> {"none", "spawned", "boot", "serving", "dead"}]
          /\ \A e \in Daemons : daemon'[e] = "serving" <=> e = d
      BY <1>00, <2>3 DEF Serving
    <3>2. Serving'
      BY <3>1 DEF Serving
    <3>3. svc' = [cfg |-> wasOn, connected |-> svc.connected, ftp |-> svc.ftp] /\ ~svc.connected
      BY <1>00, <2>3
    <3>4. svc' \in Services /\ ~svc'.connected
      BY <1>00, <3>3 DEF Services
    <3> QED
      BY <1>00, <2>1, <2>3, <3>1, <3>2, <3>4 DEF Servers
  <2> QED
    BY <1>11, <2>2, <2>3 DEF Bind
<1>12. ASSUME Crash PROVE Servers'
  BY <1>0, <1>00, <1>12, DownOK DEF Crash
<1>13. ASSUME ConnectionChanges PROVE Servers'
  <2>1. /\ svc.cfg # None /\ svc' = [svc EXCEPT !.connected = ~@]
        /\ UNCHANGED <<daemon, pidFile, wasOn>>
    BY <1>13 DEF ConnectionChanges
  <2>2. (~svc.connected) \in BOOLEAN
    OBVIOUS
  <2>3. svc' = [cfg |-> svc.cfg, connected |-> ~svc.connected, ftp |-> svc.ftp]
    BY <1>00, <2>1
  <2>4. svc' \in Services /\ svc'.cfg = svc.cfg
    BY <1>00, <2>2, <2>3 DEF Services
  <2> QED
    BY <1>0, <1>00, <2>1, <2>4, ServicesOK
<1>14. ASSUME Launch PROVE Servers'
  BY <1>1, <1>14 DEF Launch
<1> QED
  BY <1>8, <1>9, <1>10, <1>11, <1>12, <1>13, <1>14 DEF Next

LEMMA CountsStep ==
    ASSUME Inv, Next PROVE Counts'
<1> USE DEF counts
<1>0. Counts
  BY DEF Inv
<1>1. ASSUME UNCHANGED counts PROVE Counts'
  BY <1>0, <1>1 DEF Counts
<1>2. ASSUME Launch PROVE Counts'
  BY <1>0, <1>2, ConstantsOK DEF Launch, Counts
<1>3. ASSUME Crash PROVE Counts'
  BY <1>0, <1>3, ConstantsOK DEF Crash, Counts
<1>4. ASSUME ConnectionChanges PROVE Counts'
  BY <1>1, <1>4 DEF ConnectionChanges
<1>5. ASSUME NEW p \in Tasks, NEW op \in DOMAIN Script, NEW c \in Configs, Command(p, op, c)
      PROVE  Counts'
  BY <1>0, <1>5, ConstantsOK DEF Command, Counts
<1>6. ASSUME NEW d \in Daemons, WritePid(d) \/ Bind(d) PROVE Counts'
  BY <1>1, <1>6 DEF WritePid, Bind
<1>7. ASSUME NEW p \in Tasks, Step(p) PROVE Counts'
  <2>1. ASSUME CheckDaemon(p) \/ WaitReady(p) \/ Exit(p) \/ Read(p) \/ Peek(p) \/ SetView(p) \/ UpdateTray(p)
        PROVE  Counts'
    BY <1>1, <2>1 DEF CheckDaemon, WaitReady, Exit, Read, Peek, SetView, UpdateTray
  <2>2. ASSUME \/ AutoGet(p) \/ AutoPick(p) \/ PickActive(p) \/ VntStart(p) \/ VntStop(p) \/ LoadStore(p)
               \/ TruncateFile(p) \/ WriteFile(p)
        PROVE  Counts'
    BY <1>1, <2>2 DEF AutoGet, AutoPick, PickActive, Picks, VntStart, VntStop, LoadStore, TruncateFile,
                      WriteFile
  <2>3. ASSUME FtpLoad(p) \/ FtpStart(p) \/ FtpStop(p) \/ FtpWrite(p) \/ FtpApply(p) \/ Shutdown(p)
        PROVE  Counts'
    BY <1>1, <2>3 DEF FtpLoad, FtpStart, FtpStop, FtpWrite, FtpApply, Shutdown
  <2> QED
    BY <1>7, <2>1, <2>2, <2>3 DEF Step
<1> QED
  BY <1>2, <1>3, <1>4, <1>5, <1>6, <1>7 DEF Next

-----------------------------------------------------------------------------
(* The theorems.                                                           *)

LEMMA InvInit == Init => Inv
<1> SUFFICES ASSUME Init PROVE Inv
  OBVIOUS
<1>1. Processes
  <2>1. Usable(<<>>, Blank)
    <3>1. 0 \in 0..Longest
      BY DEF Longest
    <3> QED
      BY <3>1, Parts, PlainUsable, BlankOK
  <2> QED
    BY <2>1 DEF Init, Processes, Statuses
<1>2. Files
  BY DEF Init, Files, Good, Stores
<1>3. Servers
  <2>1. Idle \in Services /\ Idle.cfg = None /\ Idle.connected = FALSE
    BY DEF Idle, Services
  <2> QED
    BY <2>1 DEF Init, Servers
<1>4. Counts
  BY ConstantsOK DEF Init, Counts
<1> QED
  BY <1>1, <1>2, <1>3, <1>4 DEF Inv

LEMMA InvStep == Inv /\ [Next]_vars => Inv'
<1> SUFFICES ASSUME Inv, [Next]_vars PROVE Inv'
  OBVIOUS
<1>1. CASE Next
  BY <1>1, ProcessesStep, FilesStep, ServersStep, CountsStep DEF Inv
<1>2. CASE UNCHANGED vars
  <2>1. /\ UNCHANGED <<gui, job, local, view, tray, file, ftpFile>>
        /\ UNCHANGED <<daemon, pidFile, svc, wasOn, launches, commands, crashes>>
    BY <1>2 DEF vars, guiVars, fileVars, daemonVars, counts
  <2>2. Processes' /\ Files'
    BY <2>1 DEF Inv, Processes, Files, Good
  <2>3. Servers'
    BY <2>1 DEF Inv, Servers, Serving
  <2>4. Counts'
    BY <2>1 DEF Inv, Counts
  <2> QED
    BY <2>2, <2>3, <2>4 DEF Inv
<1> QED
  BY <1>1, <1>2

LEMMA AlwaysInv == Spec => []Inv
BY InvInit, InvStep, PTL DEF Spec

LEMMA AtMostOne ==
    ASSUME NEW T, \A d, e \in T : d = e
    PROVE  Cardinality(T) <= 1
<1>1. CASE T = {}
  BY <1>1, FS_EmptySet
<1>2. CASE T # {}
  <2>1. PICK d : T = {d}
    BY <1>2
  <2>2. Cardinality({d}) = 1
    BY FS_Singleton
  <2> QED
    BY <2>1, <2>2
<1> QED
  BY <1>1, <1>2

LEMMA InvTyped == Inv => TypeOK
<1> SUFFICES ASSUME Inv PROVE TypeOK
  OBVIOUS
<1>0. Processes /\ Files /\ Servers /\ Counts
  BY DEF Inv
<1>1. \A p \in Tasks : Len(job[p]) <= Len(Startup)
  BY <1>0, StartupPlain DEF Processes, Usable, Plain
<1>2. local \in [Tasks -> [cfg : Configs \union {None}, seen : Statuses, loaded : Stores]]
  BY <1>0 DEF Processes, Usable, Locals
<1>3. Cardinality({d \in Daemons : daemon[d] = "serving"}) <= 1
  <2>1. \A d, e \in {x \in Daemons : daemon[x] = "serving"} : d = e
    BY <1>0 DEF Servers
  <2> QED
    BY <2>1, AtMostOne
<1>4. file \in Stores \union {Torn}
  BY <1>0 DEF Files, Good
<1> QED
  BY <1>0, <1>1, <1>2, <1>3, <1>4 DEF TypeOK, Processes, Files, Servers, Services, Counts

\* The variables of the GUI process, its files and the daemons keep their types: at
\* most one daemon serves, and VNT is connected only where it runs (lib.rs run,
\* main.rs), for any configurations and any number of launches, daemons, commands and
\* crashes.
THEOREM TypeCorrect == Spec => []TypeOK
BY AlwaysInv, InvTyped, PTL

\* The file never names an active configuration that it does not hold: each command
\* keeps this for the store it has loaded, so it holds whichever of them writes last,
\* and a mixture of two writes does not parse (config.rs set_active, delete,
\* load_config_store, save_config_store).
THEOREM ActiveStaysStored == Spec => []ActiveIsStored
<1>1. Inv => ActiveIsStored
  BY DEF Inv, Files, Good, ActiveIsStored
<1> QED
  BY <1>1, AlwaysInv, PTL
=============================================================================
