------------------------- MODULE HistoryStoreProofs -------------------------
(***************************************************************************)
(* The history is durable, and a deletion hits what the user chose, for    *)
(* any number of tasks, transfers, starts and failing calls.               *)
(***************************************************************************)
EXTENDS HistoryStore, WellFoundedInduction, NaturalsInduction, TLAPS

Bounded(S) == \E n \in Nat : \A r \in S : r.id <= n

\* IInv holds in every state.  There are finitely many records: their ids have a bound.
Inv == IInv /\ Bounded(file)

\* The next id is above every id that is left.
LEMMA NextIdAbove ==
  ASSUME NEW S \in SUBSET Record, Bounded(S)
  PROVE  NextId(S) \in Nat \ {0} /\ \A r \in S : r.id < NextId(S)
<1>1. CASE S = {}
  BY <1>1 DEF NextId
<1>2. CASE S # {}
  <2>1. PICK n \in Nat : \A r \in S : r.id <= n
    BY DEF Bounded
  <2> DEFINE T == {n - k : k \in Ids(S)}
  <2>2. Ids(S) \subseteq Nat \ {0} /\ Ids(S) # {} /\ \A k \in Ids(S) : k <= n
    BY <1>2, <2>1 DEF Ids, Record
  <2>3. T \subseteq Nat /\ T # {}
    BY <2>1, <2>2
  <2>4. PICK m \in T : \A k \in T : <<k, m>> \notin OpToRel(<, Nat)
    BY <2>3, WFMin, NatLessThanWellFounded, Zenon
  <2>5. \A k \in T : ~(k < m)
    BY <2>3, <2>4, Zenon DEF OpToRel
  <2>6. PICK x \in Ids(S) : m = n - x
    BY <2>4
  <2>7. \A k \in Ids(S) : k <= x
    BY <2>1, <2>2, <2>5, <2>6
  <2> DEFINE y == CHOOSE z \in Ids(S) : \A k \in Ids(S) : k <= z
  <2>8. y \in Ids(S) /\ \A k \in Ids(S) : k <= y
    BY <2>6, <2>7
  <2>9. NextId(S) = 1 + y
    BY <1>2 DEF NextId
  <2> HIDE DEF y
  <2>10. \A r \in S : r.id \in Ids(S)
    BY DEF Ids
  <2> QED
    BY <2>2, <2>8, <2>9, <2>10
<1> QED
  BY <1>1, <1>2

\* The invariant holds initially.
LEMMA InitInv == Init => Inv
<1> SUFFICES ASSUME Init PROVE Inv
  OBVIOUS
<1> USE ConstantsOK DEF Init, Idle
<1>1. TypeOK
  BY DEF TypeOK, Operations
<1>2. Session = {}
  BY DEF Session
<1>3. IdsApart /\ Bounded(file)
  BY <1>2 DEF IdsApart, Distinct, Bounded
<1>4. NewIsNew /\ WritesMemory /\ DownIsIdle
  BY <1>2 DEF NewIsNew, Numbered, Pending, Writing, WritesMemory, DownIsIdle
<1> QED
  BY <1>1, <1>3, <1>4 DEF Inv, IInv, Durable, MemoryDurable

\* What an operation is after each of its steps.
Becomes(t, o) ==
    /\ o \in Operations /\ op' \in [Tasks -> Operations]
    /\ op'[t] = o /\ \A u \in Tasks \ {t} : op'[u] = op[u]

\* What each step of a task does to its operation.
LEMMA OpSteps ==
  ASSUME TypeOK, NEW t \in Tasks
  PROVE  /\ Push(t) => Becomes(t, [pc |-> "push", add |-> {[id |-> next_id, item |-> pushes + 1]}, wants |-> {}])
         /\ Append(t) => Becomes(t, [pc |-> "open", add |-> op[t].add, wants |-> op[t].wants])
         /\ Remove(t) => Becomes(t, [pc |-> "open", add |-> op[t].add, wants |-> records \ Retained(t)])
         /\ Clear(t) => Becomes(t, [pc |-> "open", add |-> {}, wants |-> records])
         /\ Open(t) => Becomes(t, [pc |-> "write", add |-> op[t].add, wants |-> op[t].wants])
         /\ Write(t) => Becomes(t, [pc |-> "rename", add |-> op[t].add, wants |-> op[t].wants])
         /\ Rename(t) => Becomes(t, [pc |-> "idle", add |-> {}, wants |-> {}])
         /\ PersistFails(t) => Becomes(t, [pc |-> "idle", add |-> {}, wants |-> {}])
         /\ Delete(t) => \E chosen \in SUBSET shown :
               Becomes(t, [pc |-> "delete", add |-> {}, wants |-> chosen])
<1> USE DEF TypeOK
<1>1. ASSUME Push(t) PROVE Becomes(t, [pc |-> "push", add |-> {[id |-> next_id, item |-> pushes + 1]}, wants |-> {}])
  <2>1. [pc |-> "push", add |-> {[id |-> next_id, item |-> pushes + 1]}, wants |-> {}] \in Operations
    BY <1>1, ConstantsOK DEF Push, Idle, Record, Operations
  <2> QED
    BY <1>1, <2>1 DEF Push, Idle, Record, Operations, Becomes
<1>2. ASSUME Append(t) PROVE Becomes(t, [pc |-> "open", add |-> op[t].add, wants |-> op[t].wants])
  <2>1. [pc |-> "open", add |-> op[t].add, wants |-> op[t].wants] \in Operations
    BY <1>2, ConstantsOK DEF Append, Operations
  <2> QED
    BY <1>2, <2>1 DEF Append, Operations, Becomes
<1>3. ASSUME Remove(t) PROVE Becomes(t, [pc |-> "open", add |-> op[t].add, wants |-> records \ Retained(t)])
  <2>1. [pc |-> "open", add |-> op[t].add, wants |-> records \ Retained(t)] \in Operations
    BY <1>3, ConstantsOK DEF Remove, Retained, Operations
  <2> QED
    BY <1>3, <2>1 DEF Remove, Retained, Operations, Becomes
<1>4. ASSUME Clear(t) PROVE Becomes(t, [pc |-> "open", add |-> {}, wants |-> records])
  <2>1. [pc |-> "open", add |-> {}, wants |-> records] \in Operations
    BY <1>4, ConstantsOK DEF Clear, Idle, Operations
  <2> QED
    BY <1>4, <2>1 DEF Clear, Idle, Operations, Becomes
<1>5. ASSUME Open(t) PROVE Becomes(t, [pc |-> "write", add |-> op[t].add, wants |-> op[t].wants])
  <2>1. [pc |-> "write", add |-> op[t].add, wants |-> op[t].wants] \in Operations
    BY <1>5, ConstantsOK DEF Open, Operations
  <2> QED
    BY <1>5, <2>1 DEF Open, Operations, Becomes
<1>6. ASSUME Write(t) PROVE Becomes(t, [pc |-> "rename", add |-> op[t].add, wants |-> op[t].wants])
  <2>1. [pc |-> "rename", add |-> op[t].add, wants |-> op[t].wants] \in Operations
    BY <1>6, ConstantsOK DEF Write, Operations
  <2> QED
    BY <1>6, <2>1 DEF Write, Operations, Becomes
<1>7. ASSUME Rename(t) PROVE Becomes(t, [pc |-> "idle", add |-> {}, wants |-> {}])
  <2>1. [pc |-> "idle", add |-> {}, wants |-> {}] \in Operations
    BY <1>7, ConstantsOK DEF Rename, Idle, Operations
  <2> QED
    BY <1>7, <2>1 DEF Rename, Idle, Operations, Becomes
<1>8. ASSUME PersistFails(t) PROVE Becomes(t, [pc |-> "idle", add |-> {}, wants |-> {}])
  <2>1. [pc |-> "idle", add |-> {}, wants |-> {}] \in Operations
    BY <1>8, ConstantsOK DEF PersistFails, Idle, Operations
  <2> QED
    BY <1>8, <2>1 DEF PersistFails, Idle, Operations, Becomes
<1>9. ASSUME Delete(t)
      PROVE  \E chosen \in SUBSET shown :
                Becomes(t, [pc |-> "delete", add |-> {}, wants |-> chosen])
  <2>1. PICK chosen \in SUBSET shown :
            op' = [op EXCEPT ![t] = [Idle EXCEPT !.pc = "delete", !.wants = chosen]]
    BY <1>9 DEF Delete
  <2>2. [pc |-> "delete", add |-> {}, wants |-> chosen] \in Operations
    BY DEF Operations
  <2> QED
    BY <2>1, <2>2 DEF Idle, Operations, Becomes
<1> QED
  BY <1>1, <1>2, <1>3, <1>4, <1>5, <1>6, <1>7, <1>8, <1>9

\* A record waits to be added, with the next id.
LEMMA PushKeeps == ASSUME Inv, NEW t \in Tasks, Push(t) PROVE Inv'
<1> USE DEF Inv, IInv
<1> DEFINE o == [pc |-> "push", add |-> {[id |-> next_id, item |-> pushes + 1]}, wants |-> {}]
<1>1. Becomes(t, o)
  BY OpSteps
<1>2. TypeOK'
  <2>1. op' \in [Tasks -> Operations] /\ op'[t].pc = "push" /\ op'[t].wants = {}
    BY <1>1 DEF Becomes
  <2>2. pushes' \in 0..MaxPushes /\ next_id' \in Nat \ {0}
    BY ConstantsOK DEF Push, TypeOK
  <2>3. UNCHANGED <<up, records, lock, shown, file, tmp, starts, faults, kept, gone>>
    BY DEF Push, disk
  <2>4. \A u \in Tasks \ {t} : op'[u] = op[u]
    BY <1>1 DEF Becomes
  <2>5. op[t].pc = "idle"
    BY DEF Push
  <2> QED
    BY <2>1, <2>2, <2>3, <2>4, <2>5 DEF TypeOK
<1> DEFINE r == [id |-> next_id, item |-> pushes + 1]
<1>3. Session' \subseteq Session \union {r}
  <2>1. records' = records /\ shown' = shown
    BY DEF Push
  <2>2. op'[t].add = {r} /\ op'[t].wants = {}
    BY <1>1 DEF Becomes
  <2>3. \A u \in Tasks : op'[u].add \union op'[u].wants \subseteq Session \union {r}
    BY <1>1, <2>2 DEF Becomes, Session
  <2> QED
    BY <2>1, <2>3 DEF Session
<1>4. IdsApart'
  <2>1. up /\ up' /\ file' = file /\ next_id \in Nat /\ next_id' = next_id + 1
    BY DEF Push, TypeOK, disk
  <2>2. Distinct(Session) /\ \A q \in Session : q.id < next_id
    BY <2>1 DEF IdsApart
  <2>3. Session \subseteq Record
    BY DEF Session, TypeOK, Operations
  <2>4. \A q \in Session : q.id \in Nat
    BY <2>3 DEF Record
  <2>5. r.id = next_id
    OBVIOUS
  <2> HIDE DEF r
  <2>6. \A q \in Session' : q.id < next_id'
    BY <1>3, <2>1, <2>2, <2>4, <2>5
  <2>7. \A q \in Session : q.id # r.id
    BY <2>1, <2>2, <2>4, <2>5
  <2>8. Distinct(Session')
    BY <1>3, <2>2, <2>7 DEF Distinct
  <2> QED
    BY <2>1, <2>6, <2>8 DEF IdsApart, Distinct
<1>5. NewIsNew'
  <2>1. Numbered(Session)' /\ Numbered(file)' /\ Numbered(gone)'
    <3>1. pushes' = pushes + 1 /\ file' = file /\ gone' = gone /\ pushes \in Nat
      BY ConstantsOK DEF Push, TypeOK, disk
    <3>2. Session \subseteq Record /\ file \subseteq Record /\ gone \subseteq Record
      BY DEF Session, TypeOK, Operations
    <3>3. \A q \in Session \union file \union gone : q.item \in Nat /\ q.item <= pushes
      BY <3>2 DEF Record, NewIsNew, Numbered
    <3>4. r.item = pushes + 1
      OBVIOUS
    <3> HIDE DEF r
    <3> QED
      BY <1>3, <3>1, <3>3, <3>4 DEF Numbered
  <2>2. r \notin Session /\ r \notin gone
    BY DEF NewIsNew, Numbered, TypeOK
  <2>3. \A u \in Tasks : Pending(u) \subseteq Session /\ op[u].wants \subseteq Session
    BY DEF Pending, Session
  <2>4. Pending(t)' = {r} /\ \A u \in Tasks \ {t} : Pending(u)' = Pending(u) /\ op'[u] = op[u]
    BY <1>1 DEF Becomes, Pending
  <2>5. ~Writing(t)'
    BY <1>1 DEF Becomes, Writing
  <2>6. records \subseteq Session
    BY DEF Session
  <2> QED
    BY <2>1, <2>2, <2>3, <2>4, <2>5, <2>6 DEF Push, NewIsNew, Writing, memory, disk
<1>6. WritesMemory'
  BY <1>1 DEF Push, Becomes, WritesMemory, Writing, NewIsNew, Pending, TypeOK, Retained, Free, memory, disk
<1>7. DownIsIdle'
  BY <1>1 DEF Push, Becomes, DownIsIdle, Idle, TypeOK, Free, memory, disk
<1>8. Durable' /\ MemoryDurable'
  BY <1>1 DEF Push, Becomes, Durable, MemoryDurable, WritesMemory, Writing, NewIsNew, Pending, Retained, TypeOK, Free, memory, disk
<1>9. Bounded(file)'
  BY DEF Push, Bounded, memory, disk
<1> QED
  BY <1>2, <1>4, <1>5, <1>6, <1>7, <1>8, <1>9

\* A record is added to the memory.
LEMMA AppendKeeps == ASSUME Inv, NEW t \in Tasks, Append(t) PROVE Inv'
<1> USE DEF Inv, IInv
<1> DEFINE o == [pc |-> "open", add |-> op[t].add, wants |-> op[t].wants]
<1>1. Becomes(t, o)
  BY OpSteps
<1>10. \A u \in Tasks \ {t} : ~Writing(u) /\ ~Writing(u)' /\ Pending(u)' = Pending(u) /\ op'[u] = op[u]
  BY <1>1, ConstantsOK DEF Append, Becomes, TypeOK, Writing, Pending, Free
<1>12. op[t].pc = "push" /\ op[t].wants = {} /\ Pending(t) = op[t].add /\ records' = records \union Pending(t)
  BY DEF Append, TypeOK, Pending
<1>11. Pending(t)' = {}
  BY <1>1 DEF Becomes, Pending
<1>2. TypeOK'
  BY <1>1, ConstantsOK DEF Append, Becomes, TypeOK, Free, Operations, Retained, Record, memory, disk
<1>3. Session' \subseteq Session
  BY <1>1 DEF Append, Becomes, Session, Retained, Free, memory, disk
<1>4. IdsApart'
  BY <1>3 DEF Append, IdsApart, Distinct, WritesMemory, Writing, Session, memory, disk
<1>5. NewIsNew'
  <2>1. Numbered(Session)' /\ Numbered(file)' /\ Numbered(gone)'
    BY <1>3 DEF Append, NewIsNew, Numbered, Session, WritesMemory, Writing, memory, disk
  <2>2. ASSUME NEW u \in Tasks PROVE (Pending(u) \intersect (records \union gone))' = {}
    BY <1>10, <1>11, <1>12, <2>2 DEF Append, NewIsNew
  <2>3. ASSUME NEW u \in Tasks, NEW w \in Tasks \ {u}
        PROVE  /\ (Pending(u) \intersect Pending(w))' = {}
               /\ Writing(w)' => Pending(u)' \intersect op'[w].wants = {}
    BY <1>1, <1>10, <1>11, <1>12, <2>3 DEF Becomes, NewIsNew
  <2> QED
    BY <2>1, <2>2, <2>3 DEF NewIsNew
<1>6. WritesMemory'
  <2>1. Writing(t)' => op'[t].add \subseteq records' /\ op'[t].wants \intersect records' = {}
    BY <1>1, <1>12 DEF Becomes
  <2>2. op'[t].pc = "rename" => tmp' = records'
    BY <1>1 DEF Append, Becomes, memory, disk
  <2> QED
    BY <1>10, <2>1, <2>2 DEF WritesMemory
<1>7. DownIsIdle'
  BY <1>1 DEF Append, Becomes, DownIsIdle, Idle, TypeOK, Free, memory, disk
<1>8. Durable' /\ MemoryDurable'
  BY <1>1 DEF Append, Becomes, Durable, MemoryDurable, WritesMemory, Writing, NewIsNew, Pending, Retained, TypeOK, Free, memory, disk
<1>9. Bounded(file)'
  BY DEF Append, Bounded, memory, disk
<1> QED
  BY <1>2, <1>4, <1>5, <1>6, <1>7, <1>8, <1>9

\* The user chooses what is to be deleted.
LEMMA DeleteKeeps == ASSUME Inv, NEW t \in Tasks, Delete(t) PROVE Inv'
<1> USE DEF Inv, IInv
<1>1. PICK chosen \in SUBSET shown :
          Becomes(t, [pc |-> "delete", add |-> {}, wants |-> chosen])
  BY OpSteps
<1> DEFINE o == [pc |-> "delete", add |-> {}, wants |-> chosen]
<1>10. UNCHANGED <<up, records, next_id, lock, shown, disk, pushes, starts, faults, kept, gone>>
  BY DEF Delete
<1>11. ~Writing(t) /\ op[t].pc = "idle" /\ up
  BY DEF Delete, Writing
<1>2. TypeOK'
  BY <1>1, <1>10, <1>11, ConstantsOK DEF Becomes, TypeOK, Free, Operations, Retained, Record, memory, disk
<1>3. Session' \subseteq Session
  BY <1>1, <1>10, <1>11 DEF Becomes, Session, Retained, Free, memory, disk
<1>4. IdsApart'
  BY <1>3, <1>10, <1>11 DEF IdsApart, Distinct, WritesMemory, Writing, Session, memory, disk
<1>5. NewIsNew'
  <2>1. Numbered(Session)' /\ Numbered(file)' /\ Numbered(gone)'
    BY <1>3, <1>10, <1>11 DEF NewIsNew, Numbered, Session, WritesMemory, Writing, memory, disk
  <2>2. ASSUME NEW u \in Tasks PROVE (Pending(u) \intersect (records \union gone))' = {}
    BY <1>1, <2>2, <1>10, <1>11 DEF Becomes, NewIsNew, Pending, Writing, Retained, Free, memory, disk
  <2>3. ASSUME NEW u \in Tasks, NEW w \in Tasks \ {u}
        PROVE  /\ (Pending(u) \intersect Pending(w))' = {}
               /\ Writing(w)' => Pending(u)' \intersect op'[w].wants = {}
    BY <1>1, <2>3, <1>10, <1>11 DEF Becomes, NewIsNew, Pending, Writing, Retained, Free, memory, disk
  <2> QED
    BY <2>1, <2>2, <2>3 DEF NewIsNew
<1>6. WritesMemory'
  BY <1>1, <1>10, <1>11 DEF Becomes, WritesMemory, Writing, NewIsNew, Pending, TypeOK, Retained, Free, memory, disk
<1>7. DownIsIdle'
  BY <1>1, <1>10, <1>11 DEF Becomes, DownIsIdle, Idle, TypeOK, Free, memory, disk
<1>8. Durable' /\ MemoryDurable'
  BY <1>1, <1>10, <1>11 DEF Becomes, Durable, MemoryDurable, WritesMemory, Writing, NewIsNew, Pending, Retained, TypeOK, Free, memory, disk
<1>9. Bounded(file)'
  BY <1>10 DEF Bounded, memory, disk
<1> QED
  BY <1>2, <1>4, <1>5, <1>6, <1>7, <1>8, <1>9

\* What was chosen leaves the memory.
LEMMA RemoveKeeps == ASSUME Inv, NEW t \in Tasks, Remove(t) PROVE Inv'
<1> USE DEF Inv, IInv
<1> DEFINE o == [pc |-> "open", add |-> op[t].add, wants |-> records \ Retained(t)]
<1>1. Becomes(t, o)
  BY OpSteps
<1>10. \A u \in Tasks \ {t} : ~Writing(u) /\ ~Writing(u)' /\ Pending(u)' = Pending(u) /\ op'[u] = op[u]
  BY <1>1, ConstantsOK DEF Remove, Becomes, TypeOK, Writing, Pending, Free
<1>11. Pending(t)' = {}
  BY <1>1 DEF Becomes, Pending
<1>2. TypeOK'
  <2>1. op' \in [Tasks -> Operations] /\ lock' = t /\ op'[t].pc = "open"
    BY <1>1 DEF Remove, Becomes
  <2>2. records' \in SUBSET Record /\ kept' \in SUBSET Record
    BY DEF Remove, Retained, TypeOK
  <2>3. UNCHANGED <<up, next_id, shown, file, tmp, pushes, starts, faults, gone>>
    BY DEF Remove, disk
  <2>4. \A u \in Tasks \ {t} : /\ op[u].pc = "delete" => op[u].add = {}
                              /\ op[u].pc = "push" => op[u].wants = {}
    BY DEF TypeOK
  <2> QED
    BY <1>10, <2>1, <2>2, <2>3, <2>4 DEF TypeOK, Writing
<1>3. Session' \subseteq Session
  BY <1>1 DEF Remove, Becomes, Session, Retained, Free, memory, disk
<1>4. IdsApart'
  BY <1>3 DEF Remove, IdsApart, Distinct, WritesMemory, Writing, Session, memory, disk
<1>5. NewIsNew'
  <2>1. Numbered(Session)' /\ Numbered(file)' /\ Numbered(gone)'
    BY <1>3 DEF Remove, NewIsNew, Numbered, Session, WritesMemory, Writing, memory, disk
  <2>2. ASSUME NEW u \in Tasks PROVE (Pending(u) \intersect (records \union gone))' = {}
    BY <1>1, <1>10, <1>11, <2>2 DEF Remove, Becomes, NewIsNew, Retained, memory, disk
  <2>3. ASSUME NEW u \in Tasks, NEW w \in Tasks \ {u}
        PROVE  /\ (Pending(u) \intersect Pending(w))' = {}
               /\ Writing(w)' => Pending(u)' \intersect op'[w].wants = {}
    BY <1>1, <1>10, <1>11, <2>3 DEF Remove, Becomes, NewIsNew, Retained, memory, disk
  <2> QED
    BY <2>1, <2>2, <2>3 DEF NewIsNew
<1>6. WritesMemory'
  <2>1. Writing(t)' => op'[t].add \subseteq records' /\ op'[t].wants \intersect records' = {}
    BY <1>1 DEF Remove, Becomes, Retained, TypeOK
  <2>2. op'[t].pc = "rename" => tmp' = records'
    BY <1>1 DEF Remove, Becomes, memory, disk
  <2> QED
    BY <1>10, <2>1, <2>2 DEF WritesMemory
<1>7. DownIsIdle'
  BY <1>1 DEF Remove, Becomes, DownIsIdle, Idle, TypeOK, Free, memory, disk
<1>8. Durable' /\ MemoryDurable'
  BY <1>1 DEF Remove, Becomes, Durable, MemoryDurable, WritesMemory, Writing, NewIsNew, Pending, Retained, TypeOK, Free, memory, disk
<1>9. Bounded(file)'
  BY DEF Remove, Bounded, memory, disk
<1> QED
  BY <1>2, <1>4, <1>5, <1>6, <1>7, <1>8, <1>9

\* Everything leaves the memory.
LEMMA ClearKeeps == ASSUME Inv, NEW t \in Tasks, Clear(t) PROVE Inv'
<1> USE DEF Inv, IInv
<1> DEFINE o == [pc |-> "open", add |-> {}, wants |-> records]
<1>1. Becomes(t, o)
  BY OpSteps
<1>10. \A u \in Tasks \ {t} : ~Writing(u) /\ ~Writing(u)' /\ Pending(u)' = Pending(u) /\ op'[u] = op[u]
  BY <1>1, ConstantsOK DEF Clear, Becomes, TypeOK, Writing, Pending, Free
<1>11. Pending(t)' = {}
  BY <1>1 DEF Becomes, Pending
<1>2. TypeOK'
  BY <1>1, ConstantsOK DEF Clear, Becomes, TypeOK, Free, Operations, Retained, Record, memory, disk
<1>3. Session' \subseteq Session
  <2>1. records' = {} /\ shown' = shown /\ op'[t].add = {} /\ op'[t].wants = records
    BY <1>1 DEF Clear, Becomes
  <2>2. \A u \in Tasks : op'[u].add \union op'[u].wants \subseteq Session
    BY <1>1, <2>1 DEF Becomes, Session
  <2> QED
    BY <2>1, <2>2 DEF Session
<1>4. IdsApart'
  BY <1>3 DEF Clear, IdsApart, Distinct, WritesMemory, Writing, Session, memory, disk
<1>5. NewIsNew'
  <2>1. Numbered(Session)' /\ Numbered(file)' /\ Numbered(gone)'
    BY <1>3 DEF Clear, NewIsNew, Numbered, Session, WritesMemory, Writing, memory, disk
  <2>2. ASSUME NEW u \in Tasks PROVE (Pending(u) \intersect (records \union gone))' = {}
    BY <1>1, <1>10, <1>11, <2>2 DEF Clear, Becomes, NewIsNew, Retained, memory, disk
  <2>3. ASSUME NEW u \in Tasks, NEW w \in Tasks \ {u}
        PROVE  /\ (Pending(u) \intersect Pending(w))' = {}
               /\ Writing(w)' => Pending(u)' \intersect op'[w].wants = {}
    BY <1>1, <1>10, <1>11, <2>3 DEF Clear, Becomes, NewIsNew, Retained, memory, disk
  <2> QED
    BY <2>1, <2>2, <2>3 DEF NewIsNew
<1>6. WritesMemory'
  <2>1. Writing(t)' => op'[t].add \subseteq records' /\ op'[t].wants \intersect records' = {}
    BY <1>1 DEF Clear, Becomes
  <2>2. op'[t].pc = "rename" => tmp' = records'
    BY <1>1 DEF Clear, Becomes, memory, disk
  <2> QED
    BY <1>10, <2>1, <2>2 DEF WritesMemory
<1>7. DownIsIdle'
  BY <1>1 DEF Clear, Becomes, DownIsIdle, Idle, TypeOK, Free, memory, disk
<1>8. Durable' /\ MemoryDurable'
  BY <1>1 DEF Clear, Becomes, Durable, MemoryDurable, WritesMemory, Writing, NewIsNew, Pending, Retained, TypeOK, Free, memory, disk
<1>9. Bounded(file)'
  BY DEF Clear, Bounded, memory, disk
<1> QED
  BY <1>2, <1>4, <1>5, <1>6, <1>7, <1>8, <1>9

\* The temporary file is emptied.
LEMMA OpenKeeps == ASSUME Inv, NEW t \in Tasks, Open(t) PROVE Inv'
<1> USE DEF Inv, IInv
<1> DEFINE o == [pc |-> "write", add |-> op[t].add, wants |-> op[t].wants]
<1>1. Becomes(t, o)
  BY OpSteps
<1>10. \A u \in Tasks \ {t} : ~Writing(u) /\ ~Writing(u)' /\ Pending(u)' = Pending(u) /\ op'[u] = op[u]
  BY <1>1 DEF Open, Becomes, TypeOK, Writing, Pending, Free
<1>12. Writing(t)
  BY DEF Open, Writing
<1>11. Pending(t)' = {}
  BY <1>1 DEF Becomes, Pending
<1>2. TypeOK'
  BY <1>1, ConstantsOK DEF Open, Becomes, TypeOK, Free, Operations, Retained, Record, memory, disk
<1>3. Session' \subseteq Session
  BY <1>1 DEF Open, Becomes, Session, Retained, Free, memory, disk
<1>4. IdsApart'
  BY <1>3 DEF Open, IdsApart, Distinct, WritesMemory, Writing, Session, memory, disk
<1>5. NewIsNew'
  <2>1. Numbered(Session)' /\ Numbered(file)' /\ Numbered(gone)'
    BY <1>3 DEF Open, NewIsNew, Numbered, Session, WritesMemory, Writing, memory, disk
  <2>2. ASSUME NEW u \in Tasks PROVE (Pending(u) \intersect (records \union gone))' = {}
    BY <1>1, <1>10, <1>11, <2>2 DEF Open, Becomes, NewIsNew, Retained, memory, disk
  <2>3. ASSUME NEW u \in Tasks, NEW w \in Tasks \ {u}
        PROVE  /\ (Pending(u) \intersect Pending(w))' = {}
               /\ Writing(w)' => Pending(u)' \intersect op'[w].wants = {}
    BY <1>1, <1>10, <1>11, <1>12, <2>3 DEF Becomes, NewIsNew
  <2> QED
    BY <2>1, <2>2, <2>3 DEF NewIsNew
<1>6. WritesMemory'
  <2>1. Writing(t)' => op'[t].add \subseteq records' /\ op'[t].wants \intersect records' = {}
    BY <1>1 DEF Open, Becomes, WritesMemory, Writing, NewIsNew, Pending, Retained, memory, disk
  <2>2. op'[t].pc = "rename" => tmp' = records'
    BY <1>1 DEF Open, Becomes, memory, disk
  <2> QED
    BY <1>10, <2>1, <2>2 DEF WritesMemory
<1>7. DownIsIdle'
  BY <1>1 DEF Open, Becomes, DownIsIdle, Idle, TypeOK, Free, memory, disk
<1>8. Durable' /\ MemoryDurable'
  BY <1>1 DEF Open, Becomes, Durable, MemoryDurable, WritesMemory, Writing, NewIsNew, Pending, Retained, TypeOK, Free, memory, disk
<1>9. Bounded(file)'
  BY DEF Open, Bounded, memory, disk
<1> QED
  BY <1>2, <1>4, <1>5, <1>6, <1>7, <1>8, <1>9

\* The temporary file gets what the memory holds.
LEMMA WriteKeeps == ASSUME Inv, NEW t \in Tasks, Write(t) PROVE Inv'
<1> USE DEF Inv, IInv
<1> DEFINE o == [pc |-> "rename", add |-> op[t].add, wants |-> op[t].wants]
<1>1. Becomes(t, o)
  BY OpSteps
<1>10. \A u \in Tasks \ {t} : ~Writing(u) /\ ~Writing(u)' /\ Pending(u)' = Pending(u) /\ op'[u] = op[u]
  BY <1>1 DEF Write, Becomes, TypeOK, Writing, Pending, Free
<1>12. Writing(t)
  BY DEF Write, Writing
<1>11. Pending(t)' = {}
  BY <1>1 DEF Becomes, Pending
<1>2. TypeOK'
  BY <1>1, ConstantsOK DEF Write, Becomes, TypeOK, Free, Operations, Retained, Record, memory, disk
<1>3. Session' \subseteq Session
  BY <1>1 DEF Write, Becomes, Session, Retained, Free, memory, disk
<1>4. IdsApart'
  BY <1>3 DEF Write, IdsApart, Distinct, WritesMemory, Writing, Session, memory, disk
<1>5. NewIsNew'
  <2>1. Numbered(Session)' /\ Numbered(file)' /\ Numbered(gone)'
    BY <1>3 DEF Write, NewIsNew, Numbered, Session, WritesMemory, Writing, memory, disk
  <2>2. ASSUME NEW u \in Tasks PROVE (Pending(u) \intersect (records \union gone))' = {}
    BY <1>1, <1>10, <1>11, <2>2 DEF Write, Becomes, NewIsNew, Retained, memory, disk
  <2>3. ASSUME NEW u \in Tasks, NEW w \in Tasks \ {u}
        PROVE  /\ (Pending(u) \intersect Pending(w))' = {}
               /\ Writing(w)' => Pending(u)' \intersect op'[w].wants = {}
    BY <1>1, <1>10, <1>11, <1>12, <2>3 DEF Becomes, NewIsNew
  <2> QED
    BY <2>1, <2>2, <2>3 DEF NewIsNew
<1>6. WritesMemory'
  <2>1. Writing(t)' => op'[t].add \subseteq records' /\ op'[t].wants \intersect records' = {}
    BY <1>1 DEF Write, Becomes, WritesMemory, Writing, NewIsNew, Pending, Retained, memory, disk
  <2>2. op'[t].pc = "rename" => tmp' = records'
    BY <1>1 DEF Write, Becomes, memory, disk
  <2> QED
    BY <1>10, <2>1, <2>2 DEF WritesMemory
<1>7. DownIsIdle'
  BY <1>1 DEF Write, Becomes, DownIsIdle, Idle, TypeOK, Free, memory, disk
<1>8. Durable' /\ MemoryDurable'
  BY <1>1 DEF Write, Becomes, Durable, MemoryDurable, WritesMemory, Writing, NewIsNew, Pending, Retained, TypeOK, Free, memory, disk
<1>9. Bounded(file)'
  BY DEF Write, Bounded, memory, disk
<1> QED
  BY <1>2, <1>4, <1>5, <1>6, <1>7, <1>8, <1>9

\* The temporary file becomes the history file.
LEMMA RenameKeeps == ASSUME Inv, NEW t \in Tasks, Rename(t) PROVE Inv'
<1> USE DEF Inv, IInv
<1> DEFINE o == [pc |-> "idle", add |-> {}, wants |-> {}]
<1>1. Becomes(t, o)
  BY OpSteps
<1>10. \A u \in Tasks \ {t} : ~Writing(u) /\ ~Writing(u)' /\ Pending(u)' = Pending(u) /\ op'[u] = op[u]
  BY <1>1 DEF Rename, Becomes, TypeOK, Writing, Pending, Free
<1>12. Writing(t)
  BY DEF Rename, Writing
<1>11. Pending(t)' = {}
  BY <1>1 DEF Becomes, Pending
<1>2. TypeOK'
  BY <1>1, ConstantsOK DEF Rename, Becomes, TypeOK, Free, Operations, Retained, Record, memory, disk
<1>3. Session' \subseteq Session
  BY <1>1 DEF Rename, Becomes, Session, Retained, Free, memory, disk
<1>4. IdsApart'
  <2>1. file' = records /\ up /\ up' = up /\ next_id' = next_id
    BY DEF Rename, WritesMemory, Writing, DownIsIdle, Idle
  <2>2. records \subseteq Session
    BY DEF Session
  <2> QED
    BY <1>3, <2>1, <2>2 DEF IdsApart, Distinct
<1>5. NewIsNew'
  <2>1. Numbered(Session)' /\ Numbered(file)' /\ Numbered(gone)'
    BY <1>3 DEF Rename, NewIsNew, Numbered, Session, WritesMemory, Writing, memory, disk
  <2>2. ASSUME NEW u \in Tasks PROVE (Pending(u) \intersect (records \union gone))' = {}
    BY <1>10, <1>11, <1>12, <2>2 DEF Rename, NewIsNew
  <2>3. ASSUME NEW u \in Tasks, NEW w \in Tasks \ {u}
        PROVE  /\ (Pending(u) \intersect Pending(w))' = {}
               /\ Writing(w)' => Pending(u)' \intersect op'[w].wants = {}
    BY <1>1, <1>10, <1>11, <2>3 DEF Rename, Becomes, NewIsNew, Retained, memory, disk
  <2> QED
    BY <2>1, <2>2, <2>3 DEF NewIsNew
<1>6. WritesMemory'
  <2>1. Writing(t)' => op'[t].add \subseteq records' /\ op'[t].wants \intersect records' = {}
    BY <1>1 DEF Rename, Becomes, WritesMemory, Writing, NewIsNew, Pending, Retained, memory, disk
  <2>2. op'[t].pc = "rename" => tmp' = records'
    BY <1>1 DEF Rename, Becomes, memory, disk
  <2> QED
    BY <1>10, <2>1, <2>2 DEF WritesMemory
<1>7. DownIsIdle'
  BY <1>1 DEF Rename, Becomes, DownIsIdle, Idle, TypeOK, Free, memory, disk
<1>8. Durable' /\ MemoryDurable'
  <2>1. file' = records /\ up /\ up' = up /\ records' = records
    BY DEF Rename, WritesMemory, Writing, DownIsIdle, Idle
  <2>2. op[t].add \subseteq records /\ op[t].wants \intersect records = {}
    BY DEF Rename, WritesMemory, Writing
  <2>3. kept' = kept \union op[t].add /\ gone' = gone \union op[t].wants
    BY DEF Rename
  <2> QED
    BY <2>1, <2>2, <2>3 DEF Durable, MemoryDurable
<1>9. Bounded(file)'
  <2>1. file' = records /\ next_id \in Nat /\ up
    BY DEF Rename, WritesMemory, Writing, TypeOK, DownIsIdle, Idle
  <2>2. \A r \in records : r.id < next_id
    BY <2>1 DEF IdsApart, Session
  <2>3. \A r \in records : r.id \in Nat
    BY DEF TypeOK, Record
  <2> QED
    BY <2>1, <2>2, <2>3 DEF Bounded
<1> QED
  BY <1>2, <1>4, <1>5, <1>6, <1>7, <1>8, <1>9

\* An operation fails, with its lock.
LEMMA PersistFailsKeeps == ASSUME Inv, NEW t \in Tasks, PersistFails(t) PROVE Inv'
<1> USE DEF Inv, IInv
<1> DEFINE o == [pc |-> "idle", add |-> {}, wants |-> {}]
<1>1. Becomes(t, o)
  BY OpSteps
<1>10. \A u \in Tasks \ {t} : ~Writing(u) /\ ~Writing(u)' /\ Pending(u)' = Pending(u) /\ op'[u] = op[u]
  BY <1>1 DEF PersistFails, Becomes, TypeOK, Writing, Pending, Free
<1>11. Pending(t)' = {}
  BY <1>1 DEF Becomes, Pending
<1>2. TypeOK'
  BY <1>1, ConstantsOK DEF PersistFails, Becomes, TypeOK, Free, Operations, Retained, Record, memory, disk
<1>3. Session' \subseteq Session
  BY <1>1 DEF PersistFails, Becomes, Session, Retained, Free, memory, disk
<1>4. IdsApart'
  BY <1>3 DEF PersistFails, IdsApart, Distinct, WritesMemory, Writing, Session, memory, disk
<1>5. NewIsNew'
  <2>1. Numbered(Session)' /\ Numbered(file)' /\ Numbered(gone)'
    BY <1>3 DEF PersistFails, NewIsNew, Numbered, Session, WritesMemory, Writing, memory, disk
  <2>2. ASSUME NEW u \in Tasks PROVE (Pending(u) \intersect (records \union gone))' = {}
    BY <1>1, <1>10, <1>11, <2>2 DEF PersistFails, Becomes, NewIsNew, Retained, memory, disk
  <2>3. ASSUME NEW u \in Tasks, NEW w \in Tasks \ {u}
        PROVE  /\ (Pending(u) \intersect Pending(w))' = {}
               /\ Writing(w)' => Pending(u)' \intersect op'[w].wants = {}
    BY <1>1, <1>10, <1>11, <2>3 DEF PersistFails, Becomes, NewIsNew, Retained, memory, disk
  <2> QED
    BY <2>1, <2>2, <2>3 DEF NewIsNew
<1>6. WritesMemory'
  <2>1. Writing(t)' => op'[t].add \subseteq records' /\ op'[t].wants \intersect records' = {}
    BY <1>1 DEF PersistFails, Becomes, WritesMemory, Writing, NewIsNew, Pending, Retained, memory, disk
  <2>2. op'[t].pc = "rename" => tmp' = records'
    BY <1>1 DEF PersistFails, Becomes, memory, disk
  <2> QED
    BY <1>10, <2>1, <2>2 DEF WritesMemory
<1>7. DownIsIdle'
  BY <1>1 DEF PersistFails, Becomes, DownIsIdle, Idle, TypeOK, Free, memory, disk
<1>8. Durable' /\ MemoryDurable'
  BY <1>1 DEF PersistFails, Becomes, Durable, MemoryDurable, WritesMemory, Writing, NewIsNew, Pending, Retained, TypeOK, Free, memory, disk
<1>9. Bounded(file)'
  BY DEF PersistFails, Bounded, memory, disk
<1> QED
  BY <1>2, <1>4, <1>5, <1>6, <1>7, <1>8, <1>9

\* The list is read.
LEMMA QueryKeeps == ASSUME Inv, Query PROVE Inv'
<1> USE DEF Inv, IInv
<1>1. shown' = records /\ UNCHANGED <<up, records, next_id, lock, op, file, tmp, pushes, starts, faults, kept, gone>> /\ up
  BY DEF Query, disk, Free
<1>2. Session' \subseteq Session
  BY <1>1 DEF Session
<1>3. TypeOK'
  BY <1>1 DEF TypeOK
<1>4. IdsApart'
  BY <1>1, <1>2 DEF IdsApart, Distinct
<1>5. NewIsNew'
  BY <1>1, <1>2 DEF NewIsNew, Numbered, Pending, Writing
<1>6. WritesMemory' /\ DownIsIdle'
  BY <1>1 DEF WritesMemory, Writing, DownIsIdle
<1>7. Durable' /\ MemoryDurable' /\ Bounded(file)'
  BY <1>1 DEF Durable, MemoryDurable, Bounded
<1> QED
  BY <1>3, <1>4, <1>5, <1>6, <1>7

\* At the end of the program, and at its start, no operation is under way.
LEMMA IdleKeeps ==
  ASSUME Inv, op' = [t \in Tasks |-> Idle], lock' = NoTask, shown' = {},
         UNCHANGED <<file, tmp, pushes, gone>>, up' \in BOOLEAN,
         records' \in {{}, file}, next_id' \in Nat \ {0}, starts' \in Nat, faults' \in 0..MaxFaults,
         up' => \A r \in records' : r.id < next_id',
         ~up' => records' = {},
         kept' \subseteq kept, up' => kept' \subseteq records'
  PROVE  Inv'
<1> USE DEF Inv, IInv
<1>1. \A t \in Tasks : op'[t].pc = "idle" /\ op'[t].add = {} /\ op'[t].wants = {}
  BY DEF Idle
<1>2. Session' = records'
  BY <1>1 DEF Session
<1>3. TypeOK'
  <2>1. op' \in [Tasks -> Operations]
    BY DEF Idle, Operations
  <2>2. {records, file, tmp, shown, kept, gone}' \subseteq SUBSET Record
    BY DEF TypeOK
  <2> QED
    BY <1>1, <2>1, <2>2, ConstantsOK DEF TypeOK
<1>4. IdsApart'
  BY <1>2 DEF IdsApart, Distinct
<1>5. NewIsNew'
  BY <1>1, <1>2 DEF NewIsNew, Numbered, Pending, Writing
<1>6. WritesMemory' /\ DownIsIdle'
  BY <1>1 DEF WritesMemory, Writing, DownIsIdle
<1>7. Durable' /\ MemoryDurable' /\ Bounded(file)'
  BY DEF Durable, MemoryDurable, Bounded
<1> QED
  BY <1>3, <1>4, <1>5, <1>6, <1>7

\* The program ends.
LEMMA CrashKeeps == ASSUME Inv, Crash PROVE Inv'
<1>1. next_id \in Nat \ {0} /\ starts \in Nat /\ faults \in 0..MaxFaults
  BY DEF Inv, IInv, TypeOK
<1> QED
  BY <1>1, IdleKeeps DEF Crash, disk

\* The program starts again.
LEMMA LoadKeeps == ASSUME Inv, Load \/ LoadUnreadable PROVE Inv'
<1>1. TypeOK /\ ~up /\ DownIsIdle /\ kept \subseteq file /\ Bounded(file)
  BY DEF Inv, IInv, Load, LoadUnreadable, Durable
<1>2. op = [t \in Tasks |-> Idle] /\ lock = NoTask /\ shown = {}
  <2>1. op \in [Tasks -> Operations] /\ \A t \in Tasks : op[t] = Idle
    BY <1>1 DEF TypeOK, DownIsIdle
  <2>2. lock \notin Tasks
    BY <1>1, <2>1 DEF TypeOK, Idle
  <2> QED
    BY <1>1, <2>1, <2>2 DEF TypeOK, DownIsIdle
<1>3. NextId(file) \in Nat \ {0} /\ \A r \in file : r.id < NextId(file)
  BY <1>1, NextIdAbove DEF TypeOK
<1>4. CASE Load
  BY <1>1, <1>2, <1>3, <1>4, IdleKeeps DEF Load, TypeOK, disk
<1>5. CASE LoadUnreadable
  BY <1>1, <1>2, <1>5, ConstantsOK, IdleKeeps DEF LoadUnreadable, TypeOK, disk
<1> QED
  BY <1>4, <1>5

\* A step that changes nothing.
LEMMA StutterKeeps == ASSUME Inv, UNCHANGED vars PROVE Inv'
BY DEF vars, memory, disk, Inv, IInv, TypeOK, IdsApart, NewIsNew, WritesMemory, DownIsIdle,
       Durable, MemoryDurable, Bounded, Session, Distinct, Numbered, Pending, Writing

\* Every step keeps the invariant.
LEMMA NextKeeps == Inv /\ [Next]_vars => Inv'
BY PushKeeps, AppendKeeps, DeleteKeeps, RemoveKeeps, ClearKeeps, OpenKeeps, WriteKeeps,
   RenameKeeps, PersistFailsKeeps, QueryKeeps, CrashKeeps, LoadKeeps, StutterKeeps
   DEF Next, Operation

-----------------------------------------------------------------------------

\* The inductive invariant holds in every state.
THEOREM Invariant == Spec => []Inv
BY InitInv, NextKeeps, PTL DEF Spec

\* The variables keep their types, and only the task with the lock writes the file.
THEOREM TypeCorrect == Spec => []TypeOK
<1>1. Inv => TypeOK
  BY DEF Inv, IInv
<1> QED
  BY <1>1, Invariant, PTL

\* Whatever was added with success is in the file until it is deleted, whatever was
\* deleted with success is not: persist writes what the memory holds, under the lock.
THEOREM HistoryIsDurable == Spec => []Durable
<1>1. Inv => Durable
  BY DEF Inv, IInv
<1> QED
  BY <1>1, Invariant, PTL

\* A deletion by id hits the records that were chosen, since no id that a session
\* knows is given to a second record.
THEOREM DeletesOnlyChosen == Spec => OnlyChosen
<1> DEFINE Step == \A t \in Tasks : op[t].pc = "delete" /\ op'[t].pc = "open"
                      => records \ records' \subseteq op[t].wants
<1>1. Inv /\ [Next]_vars => [Step]_vars
  <2> SUFFICES ASSUME Inv, Next, NEW t \in Tasks, op[t].pc = "delete", op'[t].pc = "open"
               PROVE  records \ records' \subseteq op[t].wants
    BY Zenon DEF Inv
  <2>1. TypeOK
    BY DEF Inv, IInv
  <2>2. CASE Remove(t)
    <3> SUFFICES ASSUME NEW r \in records, r \notin records' PROVE r \in op[t].wants
      OBVIOUS
    <3>1. PICK w \in op[t].wants : w.id = r.id
      BY <2>2 DEF Remove, Retained, Ids
    <3>2. up /\ r \in Session /\ w \in Session
      BY <2>2, <3>1 DEF Remove, Free, Session
    <3> QED
      BY <3>1, <3>2 DEF Inv, IInv, IdsApart, Distinct
  <2>3. ASSUME NEW u \in Tasks, Operation(u), ~(u = t /\ Remove(u)) PROVE FALSE
    <3>1. u = t
      BY <2>1, <2>3, OpSteps DEF Operation, Becomes
    <3> QED
      BY <2>1, <2>3, <3>1, OpSteps DEF Operation, Becomes, Append, Open, Write, Rename, PersistFails, Clear, Push, Delete
  <2>4. CASE Query \/ Crash \/ Load \/ LoadUnreadable
    BY <2>4 DEF Query, Crash, Load, LoadUnreadable, Idle
  <2> QED
    BY <2>2, <2>3, <2>4 DEF Next
<1> QED
  BY <1>1, Invariant, PTL DEF Spec, OnlyChosen
=============================================================================
