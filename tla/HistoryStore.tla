---------------------------- MODULE HistoryStore ----------------------------
(***************************************************************************)
(* The transfer history: records in memory and in a file.  Every transfer  *)
(* that ends adds its record, the user deletes some of the records that    *)
(* the list shows, or all.  Each operation changes the memory and writes   *)
(* the whole file, under one lock; the next id has a lock of its own.      *)
(*                                                                         *)
(* A record is its id and the number of the transfer it is about.  The     *)
(* program can end at any moment, and is started again.                    *)
(***************************************************************************)
EXTENDS Integers, FiniteSets

CONSTANTS
    Tasks,        \* coroutines that use the store
    NoTask,       \* none of them
    MaxPushes,    \* bound: transfers that are recorded
    MaxStarts,    \* bound: times the program is started
    MaxFaults     \* bound: calls of the file system that fail

ASSUME ConstantsOK == {MaxPushes, MaxStarts, MaxFaults} \subseteq Nat /\ NoTask \notin Tasks

Record == [id : Nat \ {0}, item : 1..MaxPushes]

VARIABLES
    up,       \* the program runs
    records,  \* the records in memory
    next_id,  \* the next id
    lock,     \* the task that holds the lock of the records
    op,       \* task -> its operation
    file,     \* what the history file holds
    tmp,      \* what the temporary file holds
    shown,    \* the records in the list of the user interface
    pushes, starts, faults,
    kept,     \* records whose addition succeeded, and that nobody deletes
    gone      \* records whose deletion succeeded

memory == <<up, records, next_id, lock, op, shown>>
disk   == <<file, tmp>>
vars   == <<memory, disk, pushes, starts, faults, kept, gone>>

\* pc "push", "delete": waits for the lock; "open", "write", "rename": holds
\* it.  wants: what is to be deleted, then what was.
Idle == [pc |-> "idle", add |-> {}, wants |-> {}]

Ids(S) == {r.id : r \in S}

Init ==
    /\ up = TRUE /\ records = {} /\ next_id = 1 /\ lock = NoTask
    /\ op = [t \in Tasks |-> Idle]
    /\ file = {} /\ tmp = {} /\ shown = {}
    /\ pushes = 0 /\ starts = 1 /\ faults = 0
    /\ kept = {} /\ gone = {}

-----------------------------------------------------------------------------
(* The operations.                                                         *)

Free == up /\ lock = NoTask

\* push, with the lock of next_id.
Push(t) ==
    /\ up /\ op[t].pc = "idle" /\ pushes < MaxPushes
    /\ pushes' = pushes + 1 /\ next_id' = next_id + 1
    /\ op' = [op EXCEPT ![t] = [Idle EXCEPT !.pc = "push",
                                            !.add = {[id |-> next_id, item |-> pushes + 1]}]]
    /\ UNCHANGED <<up, records, lock, shown, disk, starts, faults, kept, gone>>

\* Wrong: the lock is given back before the file is written.
WrongAppend(t) ==
    /\ Free /\ op[t].pc = "push"
    /\ records' = records \union op[t].add
    /\ op' = [op EXCEPT ![t].pc = "open"]
    /\ UNCHANGED <<up, next_id, lock, shown, disk, pushes, starts, faults, kept, gone>>

Append(t) ==
    /\ Free /\ op[t].pc = "push"
    /\ lock' = t /\ records' = records \union op[t].add
    /\ op' = [op EXCEPT ![t].pc = "open"]
    /\ UNCHANGED <<up, next_id, shown, disk, pushes, starts, faults, kept, gone>>

\* The user deletes one record or several, of those that are shown.
Delete(t) ==
    /\ up /\ op[t].pc = "idle"
    /\ \E chosen \in SUBSET shown \ {{}} :
          op' = [op EXCEPT ![t] = [Idle EXCEPT !.pc = "delete", !.wants = chosen]]
    /\ UNCHANGED <<up, records, next_id, lock, shown, disk, pushes, starts, faults, kept, gone>>

\* delete, delete_many: by the ids.
Retained(t) == {r \in records : r.id \notin Ids(op[t].wants)}

Remove(t) ==
    /\ Free /\ op[t].pc = "delete"
    /\ lock' = t /\ records' = Retained(t)
    /\ op' = [op EXCEPT ![t].pc = "open", ![t].wants = records \ Retained(t)]
    /\ kept' = kept \ (records \ Retained(t))
    /\ UNCHANGED <<up, next_id, shown, disk, pushes, starts, faults, gone>>

\* clear_all.
Clear(t) ==
    /\ Free /\ op[t].pc = "idle"
    /\ lock' = t /\ records' = {}
    /\ op' = [op EXCEPT ![t] = [Idle EXCEPT !.pc = "open", !.wants = records]]
    /\ kept' = kept \ records
    /\ UNCHANGED <<up, next_id, shown, disk, pushes, starts, faults, gone>>

\* persist: the temporary file is emptied, written, and renamed.
Open(t) ==
    /\ op[t].pc = "open"
    /\ tmp' = {} /\ op' = [op EXCEPT ![t].pc = "write"]
    /\ UNCHANGED <<up, records, next_id, lock, shown, file, pushes, starts, faults, kept, gone>>

Write(t) ==
    /\ op[t].pc = "write"
    /\ tmp' = records /\ op' = [op EXCEPT ![t].pc = "rename"]
    /\ UNCHANGED <<up, records, next_id, lock, shown, file, pushes, starts, faults, kept, gone>>

Rename(t) ==
    /\ op[t].pc = "rename"
    /\ file' = tmp /\ tmp' = {}
    /\ op' = [op EXCEPT ![t] = Idle] /\ lock' = NoTask
    /\ kept' = kept \union op[t].add /\ gone' = gone \union op[t].wants
    /\ UNCHANGED <<up, records, next_id, shown, pushes, starts, faults>>

\* One of them fails: the operation returns the error, the memory stays changed.
PersistFails(t) ==
    /\ op[t].pc \in {"open", "write", "rename"} /\ faults < MaxFaults
    /\ faults' = faults + 1
    /\ op' = [op EXCEPT ![t] = Idle] /\ lock' = NoTask
    /\ UNCHANGED <<up, records, next_id, shown, disk, pushes, starts, kept, gone>>

\* query, for the list.
Query ==
    /\ Free /\ shown' = records
    /\ UNCHANGED <<up, records, next_id, lock, op, disk, pushes, starts, faults, kept, gone>>

-----------------------------------------------------------------------------
(* The end of the program and its next start.                              *)

Crash ==
    /\ up /\ starts < MaxStarts
    /\ up' = FALSE /\ records' = {} /\ shown' = {}
    /\ lock' = NoTask /\ op' = [t \in Tasks |-> Idle]
    /\ UNCHANGED <<next_id, disk, pushes, starts, faults, kept, gone>>

\* Wrong: the ids go on behind the number of records.
WrongNextId(S) == Cardinality(S) + 1

\* The ids go on behind the largest that is left.
NextId(S) == IF S = {} THEN 1 ELSE 1 + CHOOSE n \in Ids(S) : \A k \in Ids(S) : k <= n

Load ==
    /\ ~up /\ up' = TRUE /\ starts' = starts + 1
    /\ records' = file /\ next_id' = NextId(file)
    /\ UNCHANGED <<lock, op, shown, disk, pushes, faults, kept, gone>>

\* The file cannot be read: the program starts with an empty history, which the next
\* operation writes over the file.
LoadUnreadable ==
    /\ ~up /\ up' = TRUE /\ starts' = starts + 1
    /\ faults < MaxFaults /\ faults' = faults + 1
    /\ records' = {} /\ next_id' = 1 /\ kept' = {}
    /\ UNCHANGED <<lock, op, shown, disk, pushes, gone>>

-----------------------------------------------------------------------------
Operation(t) ==
    \/ Push(t) \/ Append(t) \/ Delete(t) \/ Remove(t) \/ Clear(t)
    \/ Open(t) \/ Write(t) \/ Rename(t) \/ PersistFails(t)

Next == (\E t \in Tasks : Operation(t)) \/ Query \/ Crash \/ Load \/ LoadUnreadable

Spec == Init /\ [][Next]_vars

-----------------------------------------------------------------------------

Operations == [pc : {"idle", "push", "delete", "open", "write", "rename"},
               add : SUBSET Record, wants : SUBSET Record]

\* The values of the variables; whoever writes the file holds the lock.
TypeOK ==
    /\ up \in BOOLEAN /\ next_id \in Nat \ {0} /\ lock \in Tasks \union {NoTask}
    /\ op \in [Tasks -> Operations]
    /\ {records, file, tmp, shown, kept, gone} \subseteq SUBSET Record
    /\ pushes \in 0..MaxPushes /\ starts \in Nat /\ faults \in 0..MaxFaults
    /\ \A t \in Tasks : /\ op[t].pc \in {"open", "write", "rename"} <=> lock = t
                        /\ op[t].pc = "delete" => op[t].add = {}
                        /\ op[t].pc = "push" => op[t].wants = {}

Writing(t)   == op[t].pc \in {"open", "write", "rename"}
Pending(t)   == IF op[t].pc = "push" THEN op[t].add ELSE {}
Session      == records \union shown \union UNION {op[t].add \union op[t].wants : t \in Tasks}
Distinct(S)  == \A r, q \in S : r.id = q.id => r = q
Numbered(S)  == \A r \in S : r.item <= pushes

\* All that a session knows are records with ids of their own, below the next one;
\* so are the records of the file, from which a session starts.
IdsApart ==
    /\ up => Distinct(Session) /\ \A r \in Session : r.id < next_id
    /\ Distinct(file)

\* A record that waits to be added is in no set that deletions go by.
NewIsNew ==
    /\ Numbered(Session) /\ Numbered(file) /\ Numbered(gone)
    /\ \A t \in Tasks : /\ Pending(t) \intersect (records \union gone) = {}
                        /\ \A u \in Tasks \ {t} :
                               /\ Pending(t) \intersect Pending(u) = {}
                               /\ Writing(u) => Pending(t) \intersect op[u].wants = {}

\* What is being written is what the memory holds, with what was added and without
\* what was deleted.
WritesMemory ==
    \A t \in Tasks :
        Writing(t) => /\ op[t].add \subseteq records
                      /\ op[t].wants \intersect records = {}
                      /\ op[t].pc = "rename" => tmp = records

\* Nothing runs while the program does not.
DownIsIdle == ~up => records = {} /\ shown = {} /\ \A t \in Tasks : op[t] = Idle

\* What was added with success is in the file until somebody deletes it, what was
\* deleted with success is not and does not come back: over any interleaving, failed
\* calls, and ends of the program in the middle of an operation ("write .tmp, then
\* rename").  A file that cannot be read at the start is lost to the program.
Durable == kept \subseteq file /\ gone \intersect file = {}

\* The memory of a running program is as good.
MemoryDurable == up => kept \subseteq records /\ gone \intersect records = {}

\* The inductive invariant.
IInv == /\ TypeOK /\ IdsApart /\ NewIsNew /\ WritesMemory /\ DownIsIdle
        /\ Durable /\ MemoryDurable

\* A deletion hits the records that the user chose and no other, though the list is
\* stale, ids start again behind the largest that is left, and the program is
\* restarted ("by id, unique across sessions; with the transfer's id the deletion
\* would be confused").
OnlyChosen ==
    [][\A t \in Tasks : op[t].pc = "delete" /\ op'[t].pc = "open"
            => records \ records' \subseteq op[t].wants]_vars
=============================================================================
