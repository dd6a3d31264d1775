----------------------------- MODULE ObjcProofs ------------------------------
(***************************************************************************)
(* Proofs about the object runtime: object locks, reference counts, weak   *)
(* variables and autorelease pools (ObjcRefs), message dispatch            *)
(* (MessageDispatch) and key-value observing (KeyValueObserving). All but  *)
(* the first are instances, with a section each at the end.                *)
(*                                                                         *)
(* One thread at a time is in the @synchronized blocks, or the atomic      *)
(* accessors, of an object, for any number of threads, objects and mutexes *)
(* and any nesting.                                                        *)
(*                                                                         *)
(* The argument: every entry of the two tables is a mutex of its own, and  *)
(* that mutex knows, in its holder and lock count, how deep which thread   *)
(* is, and, in its count of waiters, that it must not be destroyed (Good). *)
(* A step deals with the mutex of one object and one thread; Elsewhere     *)
(* says that it leaves the other entries and the other threads alone.      *)
(***************************************************************************)
EXTENDS ObjectLocks, FiniteSetTheorems, WellFoundedInduction, TLAPS

(***************************************************************************)
(* How often a frame is in a stack                                         *)
(***************************************************************************)
Frames == [kind : Kinds, obj : Objs]

Positions(s, f) == {i \in DOMAIN s : s[i] = f}

Count(s, f) == Cardinality(Positions(s, f))

\* The frames that t has entered: one that waits has not entered its last.
Inside(t) == IF Runs(t) THEN stack[t] ELSE Front(stack[t])

LEMMA DepthIsCount ==
    ASSUME NEW t, NEW kind, NEW o
    PROVE  Depth(t, kind, o) = Count(Inside(t), Frame(kind, o))
BY DEF Depth, Count, Positions, Inside

\* Counting in a stack.
LEMMA CountFacts ==
    ASSUME NEW s \in Seq(Frames), NEW f
    PROVE  /\ IsFiniteSet(Positions(s, f)) /\ Count(s, f) \in Nat
           /\ Count(s, f) > 0 <=> \E i \in DOMAIN s : s[i] = f
<1>1. IsFiniteSet(1 .. Len(s)) /\ DOMAIN s = 1 .. Len(s) /\ Len(s) \in Nat
  BY FS_Interval
<1>2. IsFiniteSet(Positions(s, f))
  BY <1>1, FS_Subset DEF Positions
<1>3. Count(s, f) \in Nat /\ (Count(s, f) = 0 <=> Positions(s, f) = {})
  BY <1>2, FS_CardinalityType, FS_EmptySet DEF Count
<1>4. QED
  BY <1>2, <1>3 DEF Positions

\* A frame that is pushed counts once, and no other frame does.
LEMMA CountAppend ==
    ASSUME NEW s \in Seq(Frames), NEW f \in Frames, NEW g
    PROVE  /\ Append(s, f) \in Seq(Frames) /\ Append(s, f) # <<>>
           /\ Front(Append(s, f)) = s /\ Last(Append(s, f)) = f
           /\ Count(Append(s, f), g) = Count(s, g) + (IF g = f THEN 1 ELSE 0)
<1> DEFINE a == Append(s, f)
           n == Len(s) + 1
<1>1. /\ a \in Seq(Frames) /\ Len(a) = n /\ DOMAIN a = 1 .. n
      /\ DOMAIN s = 1 .. Len(s) /\ Len(s) \in Nat
      /\ a[n] = f /\ \A i \in 1 .. Len(s) : a[i] = s[i]
  OBVIOUS
<1>2. a # <<>> /\ Last(a) = f
  BY <1>1 DEF Last
<1>3. Front(a) = s
  <2>1. Front(a) \in Seq(Frames) /\ Len(Front(a)) = Len(s)
        /\ \A i \in 1 .. Len(s) : Front(a)[i] = a[i]
    BY <1>1 DEF Front
  <2>2. QED
    BY <1>1, <2>1
<1>4. IsFiniteSet(Positions(s, g)) /\ Count(s, g) \in Nat
  BY CountFacts
<1>5. n \notin Positions(s, g)
  BY <1>1 DEF Positions
<1>6. CASE g = f
  <2>1. Positions(a, g) = Positions(s, g) \cup {n}
    BY <1>1, <1>6 DEF Positions
  <2>2. Cardinality(Positions(a, g)) = Cardinality(Positions(s, g)) + 1
    BY <1>4, <1>5, <2>1, FS_AddElement
  <2>3. QED
    BY <1>1, <1>2, <1>3, <1>6, <2>2 DEF Count
<1>7. CASE g # f
  <2>1. Positions(a, g) = Positions(s, g)
    BY <1>1, <1>7 DEF Positions
  <2>2. QED
    BY <1>1, <1>2, <1>3, <1>4, <1>7, <2>1 DEF Count
<1>8. QED
  BY <1>6, <1>7

\* A stack that is not empty is its front with its last frame pushed.
LEMMA FrontLast ==
    ASSUME NEW s \in Seq(Frames), s # <<>>
    PROVE  /\ Front(s) \in Seq(Frames) /\ Last(s) \in Frames
           /\ s = Append(Front(s), Last(s))
           /\ DOMAIN s = DOMAIN Front(s) \cup {Len(s)} /\ Len(s) \in DOMAIN s
           /\ \A i \in DOMAIN Front(s) : Front(s)[i] = s[i]
<1>1. Len(s) \in Nat /\ Len(s) >= 1 /\ DOMAIN s = 1 .. Len(s)
  OBVIOUS
<1>2. /\ Front(s) \in Seq(Frames) /\ Len(Front(s)) = Len(s) - 1
      /\ \A i \in 1 .. Len(s) - 1 : Front(s)[i] = s[i]
  BY <1>1 DEF Front
<1>3. Last(s) \in Frames
  BY <1>1 DEF Last
<1>4. PICK u \in Seq(Frames), f \in Frames : u = Front(s) /\ f = s[Len(s)]
  BY <1>2, <1>3 DEF Last
<1>5. s = Append(u, f)
  <2> DEFINE b == Append(u, f)
  <2>1. b \in Seq(Frames) /\ Len(b) = Len(u) + 1
    OBVIOUS
  <2>2. \A i \in 1 .. Len(s) : b[i] = s[i]
    BY <1>1, <1>2, <1>4
  <2>3. Len(b) = Len(s)
    BY <1>1, <1>2, <1>4, <2>1
  <2> HIDE DEF b
  <2>4. b = s
    BY <1>1, <2>1, <2>2, <2>3
  <2>5. QED
    BY <2>4 DEF b
<1>6. s = Append(Front(s), Last(s))
  BY <1>4, <1>5 DEF Last
<1>7. DOMAIN s = DOMAIN Front(s) \cup {Len(s)} /\ Len(s) \in DOMAIN s
  <2>1. DOMAIN Front(s) = 1 .. Len(s) - 1
    BY <1>1, <1>2
  <2>2. QED
    BY <1>1, <2>1
<1>8. \A i \in DOMAIN Front(s) : Front(s)[i] = s[i]
  <2>1. DOMAIN Front(s) = 1 .. Len(s) - 1
    BY <1>1, <1>2
  <2>2. QED
    BY <1>2, <2>1
<1>9. QED
  BY <1>2, <1>3, <1>6, <1>7, <1>8

(***************************************************************************)
(* The inductive invariant                                                 *)
(***************************************************************************)
Pairs == Kinds \X Objs

\* The mutex of an object for a kind of lock.
Entry(p) == Table(p[1])[p[2]]

Deep(t, p) == Depth(t, p[1], p[2])

\* How deep t is in mutex id, as the mutex has it.
Level(id, t) ==
    IF id # NoMutex /\ mutexes[id].locked_by = t THEN mutexes[id].lock_count ELSE 0

Waiters(id) == {t \in ThreadIds : blocked[t] = id}

\* The mutex of a pair knows how deep which thread is in its blocks.
LevelsMatch == \A p \in Pairs, t \in ThreadIds : Deep(t, p) = Level(Entry(p), t)

\* What is in a table was made and not destroyed.
EntriesExist == \A p \in Pairs : Entry(p) # NoMutex =>
                    Entry(p) < mutex_count /\ Exists(mutexes, Entry(p))

\* No two pairs have the same mutex.
EntriesApart == \A p \in Pairs, q \in Pairs :
                    Entry(p) # NoMutex /\ Entry(p) = Entry(q) => p = q

\* Every mutex that exists is in a table.
EntriesCover == \A id \in MutexIds : Exists(mutexes, id) => \E p \in Pairs : Entry(p) = id

\* A mutex of @synchronized stays only while it is of use.
EntriesOfUse == \A o \in Objs : sync_mutexes[o] # NoMutex =>
                    destroy_refused(mutexes, sync_mutexes[o])

\* A thread that waits does so for the mutex of its last frame.
WaitersMatch == \A t \in ThreadIds : blocked[t] # NoMutex =>
                    /\ stack[t] # <<>>
                    /\ \E p \in Pairs : /\ Last(stack[t]) = Frame(p[1], p[2])
                                        /\ Entry(p) = blocked[t]

WaitersCounted == \A id \in MutexIds : IsFiniteSet(Waiters(id))
                     /\ mutexes[id].waiting_count = Cardinality(Waiters(id))

LockInv == /\ TypeOK
           /\ LevelsMatch /\ EntriesExist /\ EntriesApart /\ EntriesCover
           /\ EntriesOfUse /\ WaitersMatch /\ WaitersCounted

(***************************************************************************)
(* A step that concerns one thread and one pair                            *)
(***************************************************************************)
\* t enters (d = 1) or leaves (d = -1) the blocks of p, or neither (d = 0), and
\* nothing changes but what belongs to t, to p and to the mutex id of p.
Elsewhere(t, p, id) ==
    /\ \A q \in Pairs : q # p => Entry(q)' = Entry(q)
    /\ \A j \in MutexIds \ {id} : mutexes'[j] = mutexes[j]
    /\ \A u \in ThreadIds \ {t} : stack'[u] = stack[u] /\ blocked'[u] = blocked[u]

\* Where the mutex of p comes from and goes to.
EntryStep(p, id) ==
    /\ Entry(p) = id \/ (Entry(p) = NoMutex /\ id = mutex_count)
    /\ Entry(p)' = id \/ (Entry(p)' = NoMutex /\ \A u \in ThreadIds : blocked'[u] # id)
    /\ mutex_count <= mutex_count' /\ id < mutex_count'
    /\ Exists(mutexes', id) <=> Entry(p)' = id

DepthStep(t, p, id, d) ==
    /\ \A q \in Pairs : Deep(t, q)' = Deep(t, q) + (IF q = p THEN d ELSE 0)
    /\ \A u \in ThreadIds :
          Level(Entry(p), u)' = Level(Entry(p), u) + (IF u = t THEN d ELSE 0)

WaitStep(t, p, id) ==
    /\ blocked[t] \in {NoMutex, id} /\ blocked'[t] \in {NoMutex, id}
    /\ blocked'[t] # NoMutex => /\ stack'[t] # <<>> /\ Entry(p)' = id
                                /\ Last(stack'[t]) = Frame(p[1], p[2])
    /\ IsFiniteSet(Waiters(id)')
    /\ mutexes'[id].waiting_count = Cardinality(Waiters(id)')
    /\ p[1] = "sync" /\ Entry(p)' = id => destroy_refused(mutexes', id)

LEMMA PairFacts ==
    ASSUME TypeOK, NEW p \in Pairs
    PROVE  /\ p[1] \in Kinds /\ p[2] \in Objs /\ p = <<p[1], p[2]>>
           /\ Entry(p) \in MutexIds \cup {NoMutex}
           /\ Frame(p[1], p[2]) \in Frames
BY DEF Pairs, TypeOK, Entry, Table, Frame, Frames, Kinds

LEMMA InsideType ==
    ASSUME TypeOK, LockInv, NEW t \in ThreadIds
    PROVE  Inside(t) \in Seq(Frames) /\ stack[t] \in Seq(Frames)
<1>1. stack[t] \in Seq(Frames)
  BY DEF TypeOK, Frames
<1>2. blocked[t] # NoMutex => stack[t] # <<>>
  BY DEF LockInv, WaitersMatch
<1>3. QED
  BY <1>1, <1>2, FrontLast DEF Inside, Runs

\* The depths of a thread that the step leaves alone.
LEMMA OthersDepth ==
    ASSUME NEW t, NEW p, NEW id, Elsewhere(t, p, id),
           NEW u \in ThreadIds \ {t}, NEW q \in Pairs
    PROVE  Deep(u, q)' = Deep(u, q)
<1>1. stack'[u] = stack[u] /\ blocked'[u] = blocked[u]
  BY DEF Elsewhere
<1>2. QED
  BY <1>1 DEF Deep, Depth, Runs

LEMMA StepKeeps ==
    ASSUME LockInv, TypeOK', NEW t \in ThreadIds, NEW p \in Pairs,
           NEW id \in MutexIds, NEW d \in Int,
           Elsewhere(t, p, id), EntryStep(p, id), DepthStep(t, p, id, d),
           WaitStep(t, p, id)
    PROVE  LockInv'
<1> USE NoneIsNobody
<1>1. \A q \in Pairs : Entry(q) \in MutexIds \cup {NoMutex}
  BY PairFacts DEF LockInv
<1>2. \A q \in Pairs \ {p} : Entry(q)' = Entry(q) /\ Entry(q) # id
  <2> SUFFICES ASSUME NEW q \in Pairs \ {p} PROVE Entry(q)' = Entry(q) /\ Entry(q) # id
    OBVIOUS
  <2>1. Entry(q)' = Entry(q)
    BY DEF Elsewhere
  <2>2. CASE Entry(p) = id
    BY <2>1, <2>2 DEF LockInv, EntriesApart
  <2>3. CASE Entry(p) = NoMutex /\ id = mutex_count
    <3>1. Entry(q) # NoMutex => Entry(q) < mutex_count
      BY DEF LockInv, EntriesExist
    <3>2. mutex_count \in Nat
      BY DEF LockInv, TypeOK, MutexTypeOK
    <3>3. QED
      BY <2>1, <2>3, <3>1, <3>2
  <2>4. QED
    BY <2>2, <2>3 DEF EntryStep
<1>3. \A j \in MutexIds \ {id} : mutexes'[j] = mutexes[j] /\ Waiters(j)' = Waiters(j)
  <2> SUFFICES ASSUME NEW j \in MutexIds \ {id}
               PROVE  mutexes'[j] = mutexes[j] /\ Waiters(j)' = Waiters(j)
    OBVIOUS
  <2>1. mutexes'[j] = mutexes[j]
    BY DEF Elsewhere
  <2>2. \A u \in ThreadIds : blocked'[u] = j <=> blocked[u] = j
    BY DEF Elsewhere, WaitStep
  <2>3. QED
    BY <2>1, <2>2 DEF Waiters
<1>4. LevelsMatch'
  <2> SUFFICES ASSUME NEW q \in Pairs, NEW u \in ThreadIds
               PROVE  Deep(u, q)' = Level(Entry(q), u)'
    BY DEF LevelsMatch
  <2>1. Deep(u, q) = Level(Entry(q), u)
    BY DEF LockInv, LevelsMatch
  <2>2. u # t => Deep(u, q)' = Deep(u, q)
    BY OthersDepth
  <2>3. CASE q = p
    <3>1. CASE u = t
      BY <2>1, <2>3, <3>1 DEF DepthStep
    <3>2. CASE u # t
      <4>1. Level(Entry(p), u)' = Level(Entry(p), u) + 0
        BY <3>2 DEF DepthStep
      <4>2. Level(Entry(p), u) \in Nat
        BY <1>1 DEF LockInv, TypeOK, MutexTypeOK, MutexMapOK, Mutex, Level
      <4>3. QED
        BY <2>1, <2>2, <2>3, <3>2, <4>1, <4>2
    <3>3. QED
      BY <3>1, <3>2
  <2>4. CASE q # p
    <3>1. Level(Entry(q), u)' = Level(Entry(q), u)
      BY <1>1, <1>2, <1>3, <2>4 DEF Level
    <3>2. Level(Entry(q), u) \in Nat
      BY <1>1 DEF LockInv, TypeOK, MutexTypeOK, MutexMapOK, Mutex, Level
    <3>3. Deep(t, q)' = Deep(t, q) + 0
      BY <2>4 DEF DepthStep
    <3>4. QED
      BY <2>1, <2>2, <3>1, <3>2, <3>3
  <2>5. QED
    BY <2>3, <2>4
<1>5. EntriesExist'
  <2> SUFFICES ASSUME NEW q \in Pairs, Entry(q)' # NoMutex
               PROVE  Entry(q)' < mutex_count' /\ Exists(mutexes, Entry(q))'
    BY DEF EntriesExist
  <2>1. CASE q = p
    BY <2>1 DEF EntryStep, Exists
  <2>2. CASE q # p
    <3>1. PICK j \in MutexIds \ {id} : Entry(q) = j /\ Entry(q)' = j
      BY <1>1, <1>2, <2>2
    <3>2. j < mutex_count /\ Exists(mutexes, j)
      BY <3>1 DEF LockInv, EntriesExist
    <3>3. mutex_count \in Int /\ mutex_count' \in Int /\ mutex_count <= mutex_count'
          /\ j \in Int
      BY DEF LockInv, TypeOK, MutexTypeOK, EntryStep, MutexIds
    <3>4. QED
      BY <1>3, <3>1, <3>2, <3>3 DEF Exists
  <2>3. QED
    BY <2>1, <2>2
<1>6. EntriesApart'
  <2> SUFFICES ASSUME NEW q \in Pairs, NEW r \in Pairs,
                      Entry(q)' # NoMutex, Entry(q)' = Entry(r)'
               PROVE  q = r
    BY DEF EntriesApart
  <2>1. Entry(p)' \in {id, NoMutex}
    BY DEF EntryStep
  <2>2. QED
    BY <1>2, <2>1 DEF LockInv, EntriesApart
<1>7. EntriesCover'
  <2> SUFFICES ASSUME NEW j \in MutexIds, Exists(mutexes', j)
               PROVE  \E q \in Pairs : Entry(q)' = j
    BY DEF EntriesCover, Exists
  <2>1. CASE j = id
    BY <2>1 DEF EntryStep
  <2>2. CASE j # id
    <3>1. Exists(mutexes, j)
      BY <1>3, <2>2 DEF Exists
    <3>2. PICK q \in Pairs : Entry(q) = j
      BY <3>1 DEF LockInv, EntriesCover
    <3>3. q # p
      BY <2>2, <3>2 DEF EntryStep
    <3>4. QED
      BY <1>2, <3>2, <3>3
  <2>3. QED
    BY <2>1, <2>2
<1>8. EntriesOfUse'
  <2> SUFFICES ASSUME NEW o \in Objs, sync_mutexes'[o] # NoMutex
               PROVE  destroy_refused(mutexes', sync_mutexes'[o])
    BY DEF EntriesOfUse, destroy_refused, mutex_is_locked
  <2> DEFINE q == <<"sync", o>>
  <2>1. q \in Pairs /\ q[1] = "sync" /\ Entry(q) = sync_mutexes[o]
        /\ Entry(q)' = sync_mutexes'[o]
    BY DEF Pairs, Kinds, Entry, Table
  <2>2. CASE q = p
    BY <2>1, <2>2 DEF EntryStep, WaitStep
  <2>3. CASE q # p
    <3>1. sync_mutexes'[o] = sync_mutexes[o] /\ sync_mutexes[o] \in MutexIds \ {id}
      BY <1>1, <1>2, <2>1, <2>3
    <3>2. destroy_refused(mutexes, sync_mutexes[o])
      BY <3>1 DEF LockInv, EntriesOfUse
    <3>3. QED
      BY <1>3, <3>1, <3>2 DEF destroy_refused, mutex_is_locked
  <2>4. QED
    BY <2>2, <2>3
<1>9. WaitersMatch'
  <2> SUFFICES ASSUME NEW u \in ThreadIds, blocked'[u] # NoMutex
               PROVE  /\ stack'[u] # <<>>
                      /\ \E q \in Pairs : /\ Last(stack'[u]) = Frame(q[1], q[2])
                                          /\ Entry(q)' = blocked'[u]
    BY DEF WaitersMatch
  <2>1. CASE u = t
    BY <2>1 DEF WaitStep
  <2>2. CASE u # t
    <3>1. stack'[u] = stack[u] /\ blocked'[u] = blocked[u]
      BY <2>2 DEF Elsewhere
    <3>2. PICK q \in Pairs : Last(stack[u]) = Frame(q[1], q[2]) /\ Entry(q) = blocked[u]
      BY <3>1 DEF LockInv, WaitersMatch
    <3>3. Entry(q)' = blocked[u]
      BY <1>2, <3>1, <3>2 DEF EntryStep
    <3>4. stack[u] # <<>>
      BY <3>1 DEF LockInv, WaitersMatch
    <3>5. QED
      BY <3>1, <3>2, <3>3, <3>4
  <2>3. QED
    BY <2>1, <2>2
<1>10. WaitersCounted'
  <2> SUFFICES ASSUME NEW j \in MutexIds
               PROVE  IsFiniteSet(Waiters(j)')
                      /\ mutexes'[j].waiting_count = Cardinality(Waiters(j)')
    BY DEF WaitersCounted
  <2>1. CASE j = id
    BY <2>1 DEF WaitStep
  <2>2. CASE j # id
    BY <1>3, <2>2 DEF LockInv, WaitersCounted
  <2>3. QED
    BY <2>1, <2>2
<1>11. QED
  BY <1>4, <1>5, <1>6, <1>7, <1>8, <1>9, <1>10 DEF LockInv

(***************************************************************************)
(* Entering                                                                *)
(***************************************************************************)
\* What objc_sync_enter and lock_property_atomic have in common.
EnterStep(t, p) ==
    /\ Push(t, p[1], p[2])
    /\ IF Entry(p) # NoMutex THEN lock_mutex(t, Entry(p)) ELSE lock_new_mutex(t)
    /\ \A q \in Pairs : q # p => Entry(q)' = Entry(q)
    /\ Entry(p)' = IF Entry(p) = NoMutex THEN mutex_count ELSE Entry(p)
    /\ sync_mutexes' \in [Objs -> MutexIds \cup {NoMutex}]
    /\ property_locks' \in [Objs -> MutexIds \cup {NoMutex}]

LEMMA EnterTable ==
    ASSUME NEW table \in [Objs -> MutexIds \cup {NoMutex}], NEW o \in Objs,
           TypeOK, table[o] # NoMutex \/ mutex_count < MaxMutexes
    PROVE  /\ Entered(table, o) \in [Objs -> MutexIds \cup {NoMutex}]
           /\ \A x \in Objs : x # o => Entered(table, o)[x] = table[x]
           /\ Entered(table, o)[o] = IF table[o] = NoMutex THEN mutex_count ELSE table[o]
<1>1. table[o] = NoMutex => mutex_count \in MutexIds
  BY BoundsAssumption DEF TypeOK, MutexTypeOK, MutexIds
<1>2. QED
  BY <1>1 DEF Entered

LEMMA EnterIsStep ==
    ASSUME LockInv, NEW t \in ThreadIds, NEW o \in Objs
    PROVE  /\ objc_sync_enter(t, o) => EnterStep(t, <<"sync", o>>)
           /\ lock_property_atomic(t, o) => EnterStep(t, <<"property", o>>)
<1>1. /\ sync_mutexes \in [Objs -> MutexIds \cup {NoMutex}]
      /\ property_locks \in [Objs -> MutexIds \cup {NoMutex}] /\ TypeOK
  BY DEF LockInv, TypeOK
<1>2. \A q \in Pairs : /\ q[1] = "sync" => Entry(q) = sync_mutexes[q[2]]
                                           /\ Entry(q)' = sync_mutexes'[q[2]]
                       /\ q[1] = "property" => Entry(q) = property_locks[q[2]]
                                               /\ Entry(q)' = property_locks'[q[2]]
  BY DEF Entry, Table
<1>3. \A q \in Pairs : /\ q[1] = "sync" \/ q[1] = "property"
                       /\ q[2] \in Objs /\ q = <<q[1], q[2]>>
  BY DEF Pairs, Kinds
<1>4. ASSUME objc_sync_enter(t, o) PROVE EnterStep(t, <<"sync", o>>)
  <2> DEFINE p == <<"sync", o>>
  <2>1. p \in Pairs /\ p[1] = "sync" /\ p[2] = o
    BY DEF Pairs, Kinds
  <2>2. sync_mutexes[o] # NoMutex \/ mutex_count < MaxMutexes
    BY <1>4 DEF objc_sync_enter, lock_new_mutex
  <2>3. sync_mutexes' = Entered(sync_mutexes, o) /\ property_locks' = property_locks
    BY <1>4 DEF objc_sync_enter
  <2>4. /\ sync_mutexes' \in [Objs -> MutexIds \cup {NoMutex}]
        /\ \A x \in Objs : x # o => sync_mutexes'[x] = sync_mutexes[x]
        /\ sync_mutexes'[o] = IF sync_mutexes[o] = NoMutex THEN mutex_count
                              ELSE sync_mutexes[o]
    BY <1>1, <2>2, <2>3, EnterTable
  <2>5. \A q \in Pairs : q # p => Entry(q)' = Entry(q)
    BY <1>2, <1>3, <2>3, <2>4
  <2>6. Entry(p) = sync_mutexes[o] /\ Entry(p)' = sync_mutexes'[o]
    BY <1>2, <2>1
  <2>7. Push(t, p[1], p[2]) /\
        IF Entry(p) # NoMutex THEN lock_mutex(t, Entry(p)) ELSE lock_new_mutex(t)
    BY <1>4, <2>1, <2>6 DEF objc_sync_enter
  <2> HIDE DEF p
  <2>8. EnterStep(t, p)
    BY <1>1, <2>3, <2>4, <2>5, <2>6, <2>7 DEF EnterStep
  <2>9. QED
    BY <2>8 DEF p
<1>5. ASSUME lock_property_atomic(t, o) PROVE EnterStep(t, <<"property", o>>)
  <2> DEFINE p == <<"property", o>>
  <2>1. p \in Pairs /\ p[1] = "property" /\ p[2] = o
    BY DEF Pairs, Kinds
  <2>2. property_locks[o] # NoMutex \/ mutex_count < MaxMutexes
    BY <1>5 DEF lock_property_atomic, lock_new_mutex
  <2>3. property_locks' = Entered(property_locks, o) /\ sync_mutexes' = sync_mutexes
    BY <1>5 DEF lock_property_atomic
  <2>4. /\ property_locks' \in [Objs -> MutexIds \cup {NoMutex}]
        /\ \A x \in Objs : x # o => property_locks'[x] = property_locks[x]
        /\ property_locks'[o] = IF property_locks[o] = NoMutex THEN mutex_count
                                ELSE property_locks[o]
    BY <1>1, <2>2, <2>3, EnterTable
  <2>5. \A q \in Pairs : q # p => Entry(q)' = Entry(q)
    BY <1>2, <1>3, <2>3, <2>4
  <2>6. Entry(p) = property_locks[o] /\ Entry(p)' = property_locks'[o]
    BY <1>2, <2>1
  <2>7. Push(t, p[1], p[2]) /\
        IF Entry(p) # NoMutex THEN lock_mutex(t, Entry(p)) ELSE lock_new_mutex(t)
    BY <1>5, <2>1, <2>6 DEF lock_property_atomic
  <2> HIDE DEF p
  <2>8. EnterStep(t, p)
    BY <1>1, <2>3, <2>4, <2>5, <2>6, <2>7 DEF EnterStep
  <2>9. QED
    BY <2>8 DEF p
<1>6. QED
  BY <1>4, <1>5

(***************************************************************************)
(* How pushing, popping and waking change depths                           *)
(***************************************************************************)
LEMMA FrameOfPair ==
    ASSUME NEW p \in Pairs, NEW q \in Pairs
    PROVE  Frame(p[1], p[2]) = Frame(q[1], q[2]) <=> p = q
<1>1. p = <<p[1], p[2]>> /\ q = <<q[1], q[2]>>
  BY DEF Pairs
<1>2. Frame(p[1], p[2]) = Frame(q[1], q[2]) => p[1] = q[1] /\ p[2] = q[2]
  BY DEF Frame
<1>3. QED
  BY <1>1, <1>2

LEMMA DeepIsCount ==
    ASSUME NEW t, NEW q
    PROVE  /\ Deep(t, q) = Count(Inside(t), Frame(q[1], q[2]))
           /\ Deep(t, q)' = Count(Inside(t)', Frame(q[1], q[2]))
BY DEF Deep, Depth, Count, Positions, Inside, Frame, Runs

LEMMA DeepType ==
    ASSUME LockInv, NEW t \in ThreadIds, NEW q \in Pairs
    PROVE  Deep(t, q) \in Nat
BY InsideType, DeepIsCount, CountFacts DEF LockInv

LEMMA PushDepth ==
    ASSUME LockInv, NEW t \in ThreadIds, NEW p \in Pairs, Push(t, p[1], p[2])
    PROVE  /\ stack'[t] # <<>> /\ Last(stack'[t]) = Frame(p[1], p[2])
           /\ stack' \in [ThreadIds -> Seq(Frames)]
           /\ \A u \in ThreadIds \ {t} : stack'[u] = stack[u]
           /\ \A q \in Pairs : Deep(t, q)' =
                Deep(t, q) + (IF q = p /\ blocked'[t] = NoMutex THEN 1 ELSE 0)
<1> DEFINE f == Frame(p[1], p[2])
<1>1. f \in Frames /\ stack \in [ThreadIds -> Seq(Frames)]
  BY PairFacts DEF LockInv, TypeOK, Frames
<1>2. PICK s \in Seq(Frames) : s = stack[t]
  BY <1>1
<1>3. stack' = [stack EXCEPT ![t] = Append(s, f)] /\ Inside(t) = s
  BY <1>2 DEF Push, Inside
<1>4. stack'[t] = Append(s, f) /\ \A u \in ThreadIds \ {t} : stack'[u] = stack[u]
  BY <1>1, <1>3
<1> HIDE DEF f
<1>5. /\ Append(s, f) \in Seq(Frames) /\ Append(s, f) # <<>>
      /\ Front(Append(s, f)) = s /\ Last(Append(s, f)) = f
  BY <1>1, CountAppend
<1>6. stack' \in [ThreadIds -> Seq(Frames)]
  BY <1>1, <1>3, <1>5
<1>7. Inside(t)' = IF blocked'[t] = NoMutex THEN Append(s, f) ELSE s
  BY <1>4, <1>5 DEF Inside, Runs
<1>8. ASSUME NEW q \in Pairs
      PROVE  Deep(t, q)' =
                Deep(t, q) + (IF q = p /\ blocked'[t] = NoMutex THEN 1 ELSE 0)
  <2> DEFINE g == Frame(q[1], q[2])
  <2>1. Deep(t, q) = Count(s, g) /\ Deep(t, q)' = Count(Inside(t)', g)
    BY <1>3, DeepIsCount
  <2>2. Count(s, g) \in Nat
    BY CountFacts
  <2>3. g = f <=> q = p
    BY FrameOfPair DEF f
  <2>4. Count(Append(s, f), g) = Count(s, g) + (IF g = f THEN 1 ELSE 0)
    BY <1>1, CountAppend
  <2> HIDE DEF g
  <2>5. QED
    BY <1>7, <2>1, <2>2, <2>3, <2>4
<1>9. QED
  BY <1>4, <1>5, <1>6, <1>8 DEF f

LEMMA PopDepth ==
    ASSUME LockInv, NEW t \in ThreadIds, NEW p \in Pairs, Pop(t, p[1]),
           Last(stack[t]).obj = p[2]
    PROVE  /\ Last(stack[t]) = Frame(p[1], p[2])
           /\ stack' \in [ThreadIds -> Seq(Frames)]
           /\ \A u \in ThreadIds \ {t} : stack'[u] = stack[u]
           /\ \A q \in Pairs : /\ Deep(t, q)' = Deep(t, q) + (IF q = p THEN -1 ELSE 0)
                               /\ q = p => Deep(t, q) > 0
<1> DEFINE f == Frame(p[1], p[2])
<1>1. f \in Frames /\ stack \in [ThreadIds -> Seq(Frames)]
  BY PairFacts DEF LockInv, TypeOK, Frames
<1>2. PICK s \in Seq(Frames) : s = stack[t] /\ s # <<>>
  BY <1>1 DEF Pop
<1>3. Front(s) \in Seq(Frames) /\ Last(s) \in Frames /\ s = Append(Front(s), Last(s))
  BY <1>2, FrontLast
<1>4. Last(s) = f
  BY <1>2, <1>3 DEF Pop, Frames, Frame
<1>5. PICK r \in Seq(Frames) : r = Front(s)
  BY <1>3
<1>6. stack' = [stack EXCEPT ![t] = r] /\ blocked' = blocked /\ blocked[t] = NoMutex
  BY <1>2, <1>5 DEF Pop, Runs
<1>7. stack'[t] = r /\ Inside(t)' = r /\ Inside(t) = s
  BY <1>1, <1>2, <1>6 DEF Inside, Runs
<1>8. stack' \in [ThreadIds -> Seq(Frames)]
      /\ \A u \in ThreadIds \ {t} : stack'[u] = stack[u]
  BY <1>1, <1>6
<1> HIDE DEF f
<1>9. ASSUME NEW q \in Pairs
      PROVE  /\ Deep(t, q)' = Deep(t, q) + (IF q = p THEN -1 ELSE 0)
             /\ q = p => Deep(t, q) > 0
  <2> DEFINE g == Frame(q[1], q[2])
  <2>1. Deep(t, q) = Count(s, g) /\ Deep(t, q)' = Count(r, g)
    BY <1>7, DeepIsCount
  <2>2. Count(r, g) \in Nat
    BY CountFacts
  <2>3. g = f <=> q = p
    BY FrameOfPair DEF f
  <2>4. Count(Append(r, f), g) = Count(r, g) + (IF g = f THEN 1 ELSE 0)
    BY <1>1, CountAppend
  <2>5. s = Append(r, f)
    BY <1>3, <1>4, <1>5
  <2> HIDE DEF g
  <2>6. QED
    BY <2>1, <2>2, <2>3, <2>4, <2>5
<1>10. QED
  BY <1>2, <1>4, <1>8, <1>9 DEF f

LEMMA WakeDepth ==
    ASSUME LockInv, NEW t \in ThreadIds, NEW p \in Pairs, blocked[t] # NoMutex,
           blocked'[t] = NoMutex, stack' = stack, Last(stack[t]) = Frame(p[1], p[2])
    PROVE  \A q \in Pairs : Deep(t, q)' = Deep(t, q) + (IF q = p THEN 1 ELSE 0)
<1> DEFINE f == Frame(p[1], p[2])
<1>1. f \in Frames
  BY PairFacts DEF LockInv
<1>2. PICK s \in Seq(Frames) : s = stack[t] /\ s # <<>>
  BY DEF LockInv, TypeOK, Frames, WaitersMatch
<1>3. Front(s) \in Seq(Frames) /\ s = Append(Front(s), f)
  BY <1>2, FrontLast
<1>4. PICK r \in Seq(Frames) : r = Front(s)
  BY <1>3
<1>5. Inside(t)' = s /\ Inside(t) = r
  BY <1>2, <1>4 DEF Inside, Runs
<1> HIDE DEF f
<1>6. ASSUME NEW q \in Pairs
      PROVE  Deep(t, q)' = Deep(t, q) + (IF q = p THEN 1 ELSE 0)
  <2> DEFINE g == Frame(q[1], q[2])
  <2>1. Deep(t, q) = Count(r, g) /\ Deep(t, q)' = Count(s, g)
    BY <1>5, DeepIsCount
  <2>2. Count(r, g) \in Nat
    BY CountFacts
  <2>3. g = f <=> q = p
    BY FrameOfPair DEF f
  <2>4. Count(Append(r, f), g) = Count(r, g) + (IF g = f THEN 1 ELSE 0)
    BY <1>1, CountAppend
  <2>5. s = Append(r, f)
    BY <1>3, <1>4
  <2> HIDE DEF g
  <2>6. QED
    BY <2>1, <2>2, <2>3, <2>4, <2>5
<1>7. QED
  BY <1>6

\* The waiters of a mutex when one comes, goes, or none does.
LEMMA WaiterSets ==
    ASSUME LockInv, NEW t \in ThreadIds, NEW id \in MutexIds,
           \A u \in ThreadIds \ {t} : blocked'[u] = blocked[u]
    PROVE  /\ mutexes[id].waiting_count \in Nat /\ IsFiniteSet(Waiters(id)')
           /\ blocked'[t] = blocked[t] =>
                Cardinality(Waiters(id)') = mutexes[id].waiting_count
           /\ blocked'[t] = id /\ blocked[t] # id =>
                Cardinality(Waiters(id)') = mutexes[id].waiting_count + 1
           /\ blocked'[t] # id /\ blocked[t] = id =>
                /\ mutexes[id].waiting_count > 0
                /\ Cardinality(Waiters(id)') = mutexes[id].waiting_count - 1
           /\ mutexes[id].waiting_count = 0 => \A u \in ThreadIds : blocked[u] # id
<1> DEFINE W == Waiters(id)
           n == mutexes[id].waiting_count
<1>1. IsFiniteSet(W) /\ n = Cardinality(W) /\ n \in Nat
  BY FS_CardinalityType DEF LockInv, WaitersCounted
<1>2. W' = IF blocked'[t] = id THEN W \cup {t} ELSE W \ {t}
  BY DEF Waiters
<1>3. t \in W <=> blocked[t] = id
  BY DEF Waiters
<1>4. IsFiniteSet(W \cup {t}) /\ IsFiniteSet(W \ {t})
  BY <1>1, FS_AddElement, FS_RemoveElement
<1>5. Cardinality(W \cup {t}) = IF t \in W THEN n ELSE n + 1
  BY <1>1, FS_AddElement
<1>6. Cardinality(W \ {t}) = IF t \in W THEN n - 1 ELSE n
  BY <1>1, FS_RemoveElement
<1>7. Cardinality(W \ {t}) \in Nat
  BY <1>4, FS_CardinalityType
<1>8. n = 0 => \A u \in ThreadIds : blocked[u] # id
  BY <1>1, FS_EmptySet DEF Waiters
<1> HIDE DEF W, n
<1>9. /\ IsFiniteSet(W') /\ n \in Nat
      /\ blocked'[t] = blocked[t] => Cardinality(W') = n
      /\ blocked'[t] = id /\ blocked[t] # id => Cardinality(W') = n + 1
      /\ blocked'[t] # id /\ blocked[t] = id => n > 0 /\ Cardinality(W') = n - 1
  BY <1>1, <1>2, <1>3, <1>4, <1>5, <1>6, <1>7
<1>10. QED
  BY <1>8, <1>9 DEF W, n

(***************************************************************************)
(* Every step preserves the invariant                                      *)
(***************************************************************************)
LEMMA EntryMutex ==
    ASSUME LockInv, NEW p \in Pairs, Entry(p) # NoMutex
    PROVE  /\ Entry(p) \in MutexIds /\ Entry(p) < mutex_count
           /\ mutexes[Entry(p)].type # "absent"
BY PairFacts DEF LockInv, EntriesExist, Exists

\* Entering writes the mutex of p, which p then has, as Made(y, w, b, n).
EnterLocks(t, p, id, y, w, b, n) ==
    /\ Entry(p)' = id /\ (Entry(p) = id \/ (Entry(p) = NoMutex /\ id = mutex_count))
    /\ mutex_count' \in 0 .. MaxMutexes /\ mutex_count <= mutex_count'
    /\ id < mutex_count'
    /\ y \in MutexTypes /\ b # NoThread /\ w = Cardinality(Waiters(id)')
    /\ Written(mutexes, mutexes', id, Made(y, w, b, n))
    /\ \A u \in ThreadIds \ {t} : blocked'[u] = blocked[u]
    /\ blocked' \in [ThreadIds -> MutexIds \cup {NoMutex}]
    /\ blocked'[t] \in {NoMutex, id}
    /\ \A u \in ThreadIds : (IF b = u THEN n ELSE 0) =
          Level(Entry(p), u) + (IF u = t /\ blocked'[t] = NoMutex THEN 1 ELSE 0)

LEMMA EnterWrites ==
    ASSUME LockInv, NEW t \in ThreadIds, NEW p \in Pairs, EnterStep(t, p),
           NEW id \in MutexIds, NEW y, NEW w, NEW b, NEW n,
           EnterLocks(t, p, id, y, w, b, n)
    PROVE  LockInv'
<1> USE DEF EnterLocks
<1> DEFINE d == IF blocked'[t] = NoMutex THEN 1 ELSE 0
<1> USE NoneIsNobody
<1>1. blocked[t] = NoMutex /\ Push(t, p[1], p[2])
  BY DEF EnterStep, Push, Runs
<1>2. /\ stack'[t] # <<>> /\ Last(stack'[t]) = Frame(p[1], p[2])
      /\ stack' \in [ThreadIds -> Seq(Frames)]
      /\ \A u \in ThreadIds \ {t} : stack'[u] = stack[u]
      /\ \A q \in Pairs : Deep(t, q)' =
            Deep(t, q) + (IF q = p /\ blocked'[t] = NoMutex THEN 1 ELSE 0)
  BY <1>1, PushDepth
<1>3. /\ mutexes'[id].waiting_count = w /\ mutexes'[id].type = y
      /\ mutex_is_locked(mutexes', id)
      /\ \A u \in ThreadIds : Level(Entry(p), u)' = IF b = u THEN n ELSE 0
  <2>1. mutexes'[id] = Made(y, w, b, n)
    BY DEF Written
  <2>2. \A u \in ThreadIds : Level(Entry(p), u)' =
            IF id # NoMutex /\ mutexes'[id].locked_by = u
            THEN mutexes'[id].lock_count ELSE 0
    BY DEF Level
  <2>3. /\ mutexes'[id].waiting_count = w /\ mutexes'[id].type = y
        /\ mutexes'[id].locked_by = b /\ mutexes'[id].lock_count = n
    BY <2>1 DEF Made
  <2>4. QED
    BY <2>2, <2>3 DEF mutex_is_locked
<1>4. TypeOK'
  <2>1. MutexMapOK(mutexes') /\ live' = live
    BY <1>1 DEF Written, Edit, Push
  <2>2. QED
    BY <1>2, <2>1 DEF EnterStep, TypeOK, MutexTypeOK, Frames, LockInv, MutexMapOK
<1>5. Elsewhere(t, p, id)
  BY <1>2 DEF Elsewhere, EnterStep, Written, Edit
<1>6. EntryStep(p, id)
  BY <1>3 DEF EntryStep, Exists, MutexTypes
<1>7. DepthStep(t, p, id, d)
  <2>1. \A q \in Pairs : Deep(t, q)' = Deep(t, q) + (IF q = p THEN d ELSE 0)
    BY <1>2
  <2>2. \A u \in ThreadIds :
            Level(Entry(p), u)' = Level(Entry(p), u) + (IF u = t THEN d ELSE 0)
    BY <1>3
  <2>3. QED
    BY <2>1, <2>2 DEF DepthStep
<1>8. WaitStep(t, p, id)
  <2>1. IsFiniteSet(Waiters(id)')
    BY WaiterSets
  <2>2. QED
    BY <1>1, <1>2, <1>3, <2>1 DEF WaitStep, destroy_refused
<1>9. d \in Int
  OBVIOUS
<1> HIDE DEF d
<1>10. QED
  BY <1>4, <1>5, <1>6, <1>7, <1>8, <1>9, StepKeeps

LEMMA EnterKeeps ==
    ASSUME LockInv, NEW t \in ThreadIds, NEW p \in Pairs, EnterStep(t, p)
    PROVE  LockInv'
<1> USE NoneIsNobody
<1>1. /\ MutexMapOK(mutexes) /\ mutex_count \in 0 .. MaxMutexes
      /\ blocked \in [ThreadIds -> MutexIds \cup {NoMutex}] /\ blocked[t] = NoMutex
  BY DEF LockInv, TypeOK, MutexTypeOK, EnterStep, Push, Runs
<1>2. CASE Entry(p) = NoMutex
  <2>1. PICK id \in Int : id = mutex_count
    BY <1>1
  <2> DEFINE ms == init_mutex(mutexes, id, "RECURSIVE")
             m1 == Made("RECURSIVE", 0, NoThread, 0)
             m2 == Made("RECURSIVE", 0, t, 1)
  <2>2. /\ id < MaxMutexes /\ mutexes' = take(ms, id, t)
        /\ mutex_count' = id + 1 /\ blocked' = blocked /\ Entry(p)' = id
    BY <1>2, <2>1 DEF EnterStep, lock_new_mutex
  <2>3. id \in MutexIds /\ MaxMutexes \in Nat
    BY <1>1, <2>1, <2>2, BoundsAssumption DEF MutexIds
  <2>4. Written(mutexes, ms, id, m1)
    BY <1>1, <2>3, LifeMethods DEF MutexTypes
  <2>5. Written(ms, mutexes', id, m2)
    <3>1. MutexMapOK(ms) /\ ms[id] = m1
      BY <2>4 DEF Written, Edit
    <3>2. Written(ms, take(ms, id, t), id, Made(ms[id].type, ms[id].waiting_count, t, 1))
      BY <2>3, <3>1, LockMethods
    <3>3. m1.type = "RECURSIVE" /\ m1.waiting_count = 0
      BY MadeChanged
    <3>4. QED
      BY <2>2, <3>1, <3>2, <3>3
  <2>6. Written(mutexes, mutexes', id, m2)
    BY <2>4, <2>5 DEF Written, Edit
  <2>7. \A u \in ThreadIds : Level(Entry(p), u) = 0
    BY <1>2 DEF Level
  <2>8. \A u \in ThreadIds : blocked[u] # id
    <3>1. ASSUME NEW u \in ThreadIds, blocked[u] = id PROVE FALSE
      <4>1. \E q \in Pairs : Entry(q) = id
        BY <2>3, <3>1 DEF LockInv, WaitersMatch
      <4>2. QED
        BY <2>1, <2>3, <4>1 DEF LockInv, EntriesExist
    <3>2. QED
      BY <3>1
  <2>9. 0 = Cardinality(Waiters(id)')
    BY <2>2, <2>8, FS_EmptySet DEF Waiters
  <2>10. EnterLocks(t, p, id, "RECURSIVE", 0, t, 1)
    <3>1. "RECURSIVE" \in MutexTypes /\ t # NoThread
      BY DEF MutexTypes
    <3>2. mutex_count' \in 0 .. MaxMutexes /\ mutex_count <= mutex_count'
          /\ id < mutex_count'
      BY <1>1, <2>1, <2>2, <2>3
    <3> HIDE DEF ms, m1
    <3>3. QED
      BY <1>1, <1>2, <2>1, <2>2, <2>3, <2>6, <2>7, <2>9, <3>1, <3>2 DEF EnterLocks
  <2>11. QED
    BY <2>3, <2>10, EnterWrites
<1>3. CASE Entry(p) # NoMutex
  <2>1. PICK id \in MutexIds : /\ id = Entry(p) /\ id < mutex_count
                              /\ mutexes[id].type # "absent"
    BY <1>3, EntryMutex
  <2>2. PICK y, w, b, n : /\ y = mutexes[id].type /\ w = mutexes[id].waiting_count
                          /\ b = mutexes[id].locked_by /\ n = mutexes[id].lock_count
    OBVIOUS
  <2>3. /\ y \in MutexTypes /\ w \in Nat /\ b \in ThreadIds \cup {NoThread} /\ n \in Nat
        /\ b = NoThread <=> n = 0
    <3>1. y \in MutexTypes \cup {"absent"}
      BY <1>1, <2>2, MutexParts
    <3>2. QED
      BY <1>1, <2>1, <2>2, <3>1, MutexParts
  <2>4. /\ lock_mutex(t, id) /\ Entry(p)' = id /\ mutex_count' = mutex_count
        /\ mutex_count' \in 0 .. MaxMutexes /\ mutex_count <= mutex_count'
        /\ id < mutex_count'
    <3>1. lock_mutex(t, id) /\ Entry(p)' = id
      BY <1>3, <2>1 DEF EnterStep
    <3>2. QED
      BY <1>1, <2>1, <3>1 DEF lock_mutex
  <2>5. \A u \in ThreadIds \ {t} : blocked'[u] = blocked[u]
    BY <1>1, <2>4 DEF lock_mutex
  <2>6. \A u \in ThreadIds : Level(Entry(p), u) = IF b = u THEN n ELSE 0
    BY <2>1, <2>2 DEF Level
  <2>7. CASE ~mutex_is_locked(mutexes, id)
    <3>1. mutexes' = take(mutexes, id, t) /\ blocked' = blocked
      BY <2>4, <2>7 DEF lock_mutex
    <3>2. Written(mutexes, mutexes', id, Made(y, w, t, 1))
      BY <1>1, <2>2, <3>1, LockMethods
    <3>3. w = Cardinality(Waiters(id)')
      BY <2>2, <2>5, <3>1, WaiterSets
    <3>4. \A u \in ThreadIds : (IF t = u THEN 1 ELSE 0) =
             Level(Entry(p), u) + (IF u = t /\ blocked'[t] = NoMutex THEN 1 ELSE 0)
      BY <1>1, <2>2, <2>6, <2>7, <3>1 DEF mutex_is_locked
    <3>5. EnterLocks(t, p, id, y, w, t, 1)
      BY <1>1, <2>1, <2>3, <2>4, <2>5, <3>1, <3>2, <3>3, <3>4 DEF EnterLocks
    <3>6. QED
      BY <3>5, EnterWrites
  <2>8. CASE mutex_is_locked(mutexes, id) /\ mutex_is_locked_by(mutexes, id, t)
    <3>1. mutexes' = relevel(mutexes, id) /\ blocked' = blocked /\ b = t
      BY <2>2, <2>4, <2>8 DEF lock_mutex, mutex_is_locked_by
    <3>2. Written(mutexes, mutexes', id, Made(y, w, t, n + 1))
      BY <1>1, <2>2, <2>8, <3>1, LockMethods
    <3>3. w = Cardinality(Waiters(id)')
      BY <2>2, <2>5, <3>1, WaiterSets
    <3>4. \A u \in ThreadIds : (IF t = u THEN n + 1 ELSE 0) =
             Level(Entry(p), u) + (IF u = t /\ blocked'[t] = NoMutex THEN 1 ELSE 0)
      BY <1>1, <2>3, <2>6, <3>1
    <3>5. EnterLocks(t, p, id, y, w, t, n + 1)
      BY <1>1, <2>1, <2>3, <2>4, <2>5, <3>1, <3>2, <3>3, <3>4 DEF EnterLocks
    <3>6. QED
      BY <3>5, EnterWrites
  <2>9. CASE mutex_is_locked(mutexes, id) /\ ~mutex_is_locked_by(mutexes, id, t)
    <3>1. mutexes' = add_waiter(mutexes, id) /\ blocked' = [blocked EXCEPT ![t] = id]
          /\ b # NoThread
      BY <2>2, <2>4, <2>9 DEF lock_mutex, mutex_is_locked
    <3>2. Written(mutexes, mutexes', id, Made(y, w + 1, b, n))
      BY <1>1, <2>2, <3>1, LockMethods
    <3>3. blocked'[t] = id /\ blocked[t] # id /\ id # NoMutex
      BY <1>1, <2>1, <3>1
    <3>4. w + 1 = Cardinality(Waiters(id)')
      BY <2>2, <2>5, <3>3, WaiterSets
    <3>5. \A u \in ThreadIds : (IF b = u THEN n ELSE 0) =
             Level(Entry(p), u) + (IF u = t /\ blocked'[t] = NoMutex THEN 1 ELSE 0)
      BY <2>3, <2>6, <3>3
    <3>6. blocked' \in [ThreadIds -> MutexIds \cup {NoMutex}]
      BY <1>1, <2>1, <3>1
    <3>7. EnterLocks(t, p, id, y, w + 1, b, n)
      BY <1>1, <2>1, <2>3, <2>4, <2>5, <3>1, <3>2, <3>3, <3>4, <3>5, <3>6 DEF EnterLocks
    <3>8. QED
      BY <3>7, EnterWrites
  <2>10. QED
    BY <2>7, <2>8, <2>9
<1>4. QED
  BY <1>2, <1>3

\* What objc_sync_exit and unlock_property_atomic have in common: the mutex of p
\* is unlocked, and, for @synchronized, destroyed and forgotten when it can be.
LeaveStep(t, p) ==
    /\ Pop(t, p[1]) /\ Last(stack[t]).obj = p[2]
    /\ \A q \in Pairs : q # p => Entry(q)' = Entry(q)
    /\ LET ms == unlock_mutex(mutexes, Entry(p))
       IN  \/ /\ mutexes' = ms /\ Entry(p)' = Entry(p)
              /\ p[1] = "sync" => destroy_refused(ms, Entry(p))
           \/ /\ ~destroy_refused(ms, Entry(p))
              /\ mutexes' = destroy_mutex(ms, Entry(p)) /\ Entry(p)' = NoMutex
    /\ sync_mutexes' \in [Objs -> MutexIds \cup {NoMutex}]
    /\ property_locks' \in [Objs -> MutexIds \cup {NoMutex}]

LEMMA ExitIsLeave ==
    ASSUME LockInv, NEW t \in ThreadIds, objc_sync_exit(t) \/ unlock_property_atomic(t)
    PROVE  \E p \in Pairs : LeaveStep(t, p)
<1>1. /\ sync_mutexes \in [Objs -> MutexIds \cup {NoMutex}]
      /\ property_locks \in [Objs -> MutexIds \cup {NoMutex}]
      /\ stack[t] \in Seq(Frames)
  BY DEF LockInv, TypeOK, Frames
<1>2. /\ \A q \in Pairs : /\ q[1] = "sync" => Entry(q) = sync_mutexes[q[2]]
                                           /\ Entry(q)' = sync_mutexes'[q[2]]
                          /\ q[1] = "property" => Entry(q) = property_locks[q[2]]
                                               /\ Entry(q)' = property_locks'[q[2]]
      /\ \A q \in Pairs : /\ q[1] = "sync" \/ q[1] = "property"
                          /\ q[2] \in Objs /\ q = <<q[1], q[2]>>
  BY DEF Entry, Table, Pairs, Kinds
<1>3. stack[t] # <<>>
  BY DEF objc_sync_exit, unlock_property_atomic, Pop
<1>4. PICK o \in Objs : o = Last(stack[t]).obj
  BY <1>1, <1>3, FrontLast DEF Frames
<1>5. CASE objc_sync_exit(t)
  <2> DEFINE p == <<"sync", o>>
             ms == unlock_mutex(mutexes, sync_mutexes[o])
  <2>1. p \in Pairs /\ p[1] = "sync" /\ p[2] = o
    BY DEF Pairs, Kinds
  <2>2. /\ Pop(t, "sync") /\ property_locks' = property_locks
        /\ \/ /\ mutexes' = ms /\ sync_mutexes' = sync_mutexes
              /\ destroy_refused(ms, sync_mutexes[o])
           \/ /\ ~destroy_refused(ms, sync_mutexes[o])
              /\ mutexes' = destroy_mutex(ms, sync_mutexes[o])
              /\ sync_mutexes' = [sync_mutexes EXCEPT ![o] = NoMutex]
    BY <1>4, <1>5 DEF objc_sync_exit, Forget
  <2> HIDE DEF ms, p
  <2>3. Entry(p) = sync_mutexes[o] /\ Entry(p)' = sync_mutexes'[o]
    BY <1>2, <2>1
  <2>4. /\ sync_mutexes' \in [Objs -> MutexIds \cup {NoMutex}]
        /\ property_locks' \in [Objs -> MutexIds \cup {NoMutex}]
        /\ \A x \in Objs : x # o => sync_mutexes'[x] = sync_mutexes[x]
        /\ \/ /\ mutexes' = ms /\ sync_mutexes'[o] = sync_mutexes[o]
              /\ destroy_refused(ms, sync_mutexes[o])
           \/ /\ ~destroy_refused(ms, sync_mutexes[o])
              /\ mutexes' = destroy_mutex(ms, sync_mutexes[o])
              /\ sync_mutexes'[o] = NoMutex
    BY <1>1, <2>2
  <2>5. \A q \in Pairs : q # p => Entry(q)' = Entry(q)
    BY <1>2, <2>2, <2>4 DEF p
  <2>6. ms = unlock_mutex(mutexes, Entry(p))
    BY <2>3 DEF ms
  <2>7. LeaveStep(t, p)
    BY <1>4, <2>1, <2>2, <2>3, <2>4, <2>5, <2>6 DEF LeaveStep
  <2>8. QED
    BY <2>1, <2>7
<1>6. CASE unlock_property_atomic(t)
  <2> DEFINE p == <<"property", o>>
  <2>1. p \in Pairs /\ p[1] = "property" /\ p[2] = o
    BY DEF Pairs, Kinds
  <2>2. /\ Pop(t, "property") /\ property_locks' = property_locks
        /\ sync_mutexes' = sync_mutexes
        /\ mutexes' = unlock_mutex(mutexes, property_locks[o])
    BY <1>4, <1>6 DEF unlock_property_atomic
  <2> HIDE DEF p
  <2>3. Entry(p) = property_locks[o] /\ Entry(p)' = property_locks[o]
    BY <1>2, <2>1, <2>2
  <2>4. \A q \in Pairs : Entry(q)' = Entry(q)
    BY <1>2, <2>2
  <2>5. LeaveStep(t, p)
    BY <1>1, <1>4, <2>1, <2>2, <2>3, <2>4 DEF LeaveStep
  <2>6. QED
    BY <2>1, <2>5
<1>7. QED
  BY <1>5, <1>6

LEMMA LeaveKeeps ==
    ASSUME LockInv, NEW t \in ThreadIds, NEW p \in Pairs, LeaveStep(t, p)
    PROVE  LockInv'
<1> USE NoneIsNobody
<1>1. /\ Last(stack[t]) = Frame(p[1], p[2])
      /\ stack' \in [ThreadIds -> Seq(Frames)]
      /\ \A u \in ThreadIds \ {t} : stack'[u] = stack[u]
      /\ \A q \in Pairs : /\ Deep(t, q)' = Deep(t, q) + (IF q = p THEN -1 ELSE 0)
                          /\ q = p => Deep(t, q) > 0
  BY PopDepth DEF LeaveStep
<1>2. Deep(t, p) = Level(Entry(p), t) /\ Deep(t, p) > 0
  BY <1>1 DEF LockInv, LevelsMatch
<1>3. Entry(p) # NoMutex
  BY <1>2 DEF Level
<1>4. PICK id \in MutexIds : /\ id = Entry(p) /\ id < mutex_count
                            /\ mutexes[id].type # "absent"
  BY <1>3, EntryMutex
<1>5. /\ MutexMapOK(mutexes) /\ mutex_count \in 0 .. MaxMutexes
      /\ blocked \in [ThreadIds -> MutexIds \cup {NoMutex}] /\ blocked[t] = NoMutex
      /\ blocked' = blocked /\ mutex_count' = mutex_count /\ live' = live
  BY DEF LockInv, TypeOK, MutexTypeOK, LeaveStep, Pop, Runs
<1>6. PICK y, w, b, n : /\ y = mutexes[id].type /\ w = mutexes[id].waiting_count
                        /\ b = mutexes[id].locked_by /\ n = mutexes[id].lock_count
  OBVIOUS
<1>7. /\ y \in MutexTypes \cup {"absent"} /\ w \in Nat
      /\ b \in ThreadIds \cup {NoThread} /\ n \in Nat /\ b = t /\ n > 0
      /\ mutex_is_locked(mutexes, id)
  <2>1. y \in MutexTypes \cup {"absent"} /\ w \in Nat
        /\ b \in ThreadIds \cup {NoThread} /\ n \in Nat
    BY <1>5, <1>6, MutexParts
  <2>2. b = t /\ n > 0
    BY <1>2, <1>4, <1>6, <2>1 DEF Level
  <2>3. QED
    BY <1>6, <2>1, <2>2 DEF mutex_is_locked
<1>8. PICK b2, n2 : /\ n = 1 => b2 = NoThread /\ n2 = 0
                    /\ n # 1 => b2 = t /\ n2 = n - 1
  <2>1. CASE n = 1
    BY <2>1
  <2>2. CASE n # 1
    BY <2>2
  <2>3. QED
    BY <2>1, <2>2
<1> DEFINE ms == unlock_mutex(mutexes, id)
           m2 == Made(y, w, b2, n2)
<1>9. Written(mutexes, ms, id, m2)
  <2>1. CASE n = 1
    BY <1>5, <1>6, <1>7, <1>8, <2>1, LockMethods
  <2>2. CASE n # 1
    <3>1. mutex_is_locked(mutexes, id) /\ mutexes[id].lock_count # 1
      BY <1>6, <1>7, <2>2
    <3>2. Written(mutexes, ms, id, Made(y, w, b, n - 1))
      BY <1>5, <1>6, <3>1, LockMethods
    <3>3. QED
      BY <1>7, <1>8, <2>2, <3>2
  <2>3. QED
    BY <2>1, <2>2
<1>10. /\ MutexMapOK(ms) /\ \A j \in MutexIds \ {id} : ms[j] = mutexes[j]
       /\ ms[id].type = y /\ ms[id].waiting_count = w /\ ms[id].locked_by = b2
       /\ ms[id].lock_count = n2
  BY <1>9, MadeChanged DEF Written, Edit
<1>11. \A u \in ThreadIds : Level(Entry(p), u) = IF u = t THEN n ELSE 0
  BY <1>3, <1>4, <1>6, <1>7 DEF Level
<1>12. \A u \in ThreadIds : (IF b2 = u THEN n2 ELSE 0) =
           Level(Entry(p), u) + (IF u = t THEN -1 ELSE 0)
  BY <1>7, <1>8, <1>11
<1>13. w = Cardinality(Waiters(id)') /\ IsFiniteSet(Waiters(id)')
       /\ (w = 0 => \A u \in ThreadIds : blocked'[u] # id)
  BY <1>5, <1>6, WaiterSets
<1>14. blocked[t] \in {NoMutex, id} /\ blocked'[t] = NoMutex /\ -1 \in Int
  BY <1>5
<1> HIDE DEF ms, m2
<1>15. CASE /\ mutexes' = ms /\ Entry(p)' = Entry(p)
            /\ p[1] = "sync" => destroy_refused(ms, id)
  <2>1. \A u \in ThreadIds : Level(Entry(p), u)' = IF b2 = u THEN n2 ELSE 0
    BY <1>4, <1>10, <1>15 DEF Level
  <2>2. TypeOK'
    BY <1>1, <1>5, <1>10, <1>15
       DEF LeaveStep, TypeOK, MutexTypeOK, Frames, LockInv, MutexMapOK
  <2>3. Elsewhere(t, p, id)
    BY <1>1, <1>5, <1>10, <1>15 DEF Elsewhere, LeaveStep
  <2>4. EntryStep(p, id)
    BY <1>4, <1>5, <1>6, <1>10, <1>15 DEF EntryStep, Exists
  <2>5. DepthStep(t, p, id, -1)
    BY <1>1, <1>12, <2>1 DEF DepthStep
  <2>6. WaitStep(t, p, id)
    BY <1>10, <1>13, <1>14, <1>15 DEF WaitStep
  <2>7. QED
    BY <1>14, <2>2, <2>3, <2>4, <2>5, <2>6, StepKeeps
<1>16. CASE /\ ~destroy_refused(ms, id)
            /\ mutexes' = destroy_mutex(ms, id) /\ Entry(p)' = NoMutex
  <2>1. b2 = NoThread /\ w = 0
    BY <1>10, <1>16 DEF destroy_refused, mutex_is_locked
  <2>2. Written(ms, mutexes', id, Made("absent", 0, NoThread, 0))
    BY <1>10, <1>16, LifeMethods
  <2>3. /\ MutexMapOK(mutexes') /\ \A j \in MutexIds \ {id} : mutexes'[j] = mutexes[j]
        /\ mutexes'[id].type = "absent" /\ mutexes'[id].waiting_count = 0
    BY <1>10, <2>2, MadeChanged DEF Written, Edit
  <2>4. \A u \in ThreadIds : Level(Entry(p), u)' = 0
    BY <1>16 DEF Level
  <2>5. TypeOK'
    BY <1>1, <1>5, <2>3 DEF LeaveStep, TypeOK, MutexTypeOK, Frames, LockInv, MutexMapOK
  <2>6. Elsewhere(t, p, id)
    BY <1>1, <1>5, <2>3 DEF Elsewhere, LeaveStep
  <2>7. EntryStep(p, id)
    BY <1>4, <1>5, <1>13, <1>16, <2>1, <2>3 DEF EntryStep, Exists
  <2>8. DepthStep(t, p, id, -1)
    <3>1. \A u \in ThreadIds : Level(Entry(p), u)' = IF b2 = u THEN n2 ELSE 0
      BY <2>1, <2>4
    <3>2. QED
      BY <1>1, <1>12, <3>1 DEF DepthStep
  <2>9. WaitStep(t, p, id)
    BY <1>13, <1>14, <1>16, <2>1, <2>3 DEF WaitStep
  <2>10. QED
    BY <1>14, <2>5, <2>6, <2>7, <2>8, <2>9, StepKeeps
<1>17. QED
  BY <1>4, <1>15, <1>16 DEF LeaveStep, ms

LEMMA RelockKeeps ==
    ASSUME LockInv, NEW t \in ThreadIds, relock_unblocked_mutex(t)
    PROVE  LockInv'
<1> USE NoneIsNobody
<1>1. /\ MutexMapOK(mutexes) /\ mutex_count \in 0 .. MaxMutexes
      /\ blocked \in [ThreadIds -> MutexIds \cup {NoMutex}] /\ blocked[t] # NoMutex
      /\ UNCHANGED <<mutex_count, sync_mutexes, property_locks, stack, live>>
  BY DEF LockInv, TypeOK, MutexTypeOK, relock_unblocked_mutex
<1>2. PICK p \in Pairs : Last(stack[t]) = Frame(p[1], p[2]) /\ Entry(p) = blocked[t]
  BY <1>1 DEF LockInv, WaitersMatch
<1>3. PICK id \in MutexIds : /\ id = blocked[t] /\ id = Entry(p) /\ id < mutex_count
                            /\ mutexes[id].type # "absent"
  BY <1>1, <1>2, EntryMutex
<1>4. /\ ~mutex_is_locked(mutexes, id) /\ mutexes' = relock(mutexes, id, t)
      /\ blocked' = [blocked EXCEPT ![t] = NoMutex]
  BY <1>3 DEF relock_unblocked_mutex
<1>5. /\ blocked' \in [ThreadIds -> MutexIds \cup {NoMutex}] /\ blocked'[t] = NoMutex
      /\ \A u \in ThreadIds \ {t} : blocked'[u] = blocked[u]
  BY <1>1, <1>4
<1>6. PICK y, w : y = mutexes[id].type /\ w = mutexes[id].waiting_count
  OBVIOUS
<1>7. /\ w \in Nat /\ w > 0 /\ w - 1 = Cardinality(Waiters(id)')
      /\ IsFiniteSet(Waiters(id)')
  BY <1>3, <1>5, <1>6, WaiterSets
<1>8. Written(mutexes, mutexes', id, Made(y, w - 1, t, 1))
  <2>1. Written(mutexes, relock(mutexes, id, t), id,
                Made(y, IF w > 0 THEN w - 1 ELSE 0, t, 1))
    BY <1>1, <1>6, LockMethods
  <2>2. QED
    BY <1>4, <1>7, <2>1
<1>9. /\ MutexMapOK(mutexes') /\ \A j \in MutexIds \ {id} : mutexes'[j] = mutexes[j]
      /\ mutexes'[id].type = y /\ mutexes'[id].waiting_count = w - 1
      /\ mutexes'[id].locked_by = t /\ mutexes'[id].lock_count = 1
  BY <1>8, MadeChanged DEF Written, Edit
<1>10. \A q \in Pairs : Entry(q)' = Entry(q)
  BY <1>1 DEF Entry, Table
<1>11. TypeOK'
  BY <1>1, <1>5, <1>9 DEF TypeOK, MutexTypeOK, LockInv, MutexMapOK
<1>12. Elsewhere(t, p, id)
  BY <1>1, <1>5, <1>9, <1>10 DEF Elsewhere
<1>13. EntryStep(p, id)
  BY <1>1, <1>3, <1>6, <1>9, <1>10 DEF EntryStep, Exists
<1>14. DepthStep(t, p, id, 1)
  <2>1. \A q \in Pairs : Deep(t, q)' = Deep(t, q) + (IF q = p THEN 1 ELSE 0)
    BY <1>1, <1>2, <1>5, WakeDepth
  <2>2. \A u \in ThreadIds : Level(Entry(p), u) = 0
    BY <1>3, <1>4 DEF Level, mutex_is_locked
  <2>3. \A u \in ThreadIds : Level(Entry(p), u)' = IF u = t THEN 1 ELSE 0
    BY <1>3, <1>9, <1>10 DEF Level
  <2>4. QED
    BY <2>1, <2>2, <2>3 DEF DepthStep
<1>15. WaitStep(t, p, id)
  BY <1>3, <1>5, <1>7, <1>9 DEF WaitStep, destroy_refused, mutex_is_locked
<1>16. QED
  BY <1>11, <1>12, <1>13, <1>14, <1>15, StepKeeps

\* Objects come and go without touching the tables.
LEMMA LiveKeeps ==
    ASSUME LockInv, live' \subseteq Objs,
           UNCHANGED <<mutexes, mutex_count, sync_mutexes, property_locks, blocked, stack>>
    PROVE  LockInv'
<1>1. \A q \in Pairs : Entry(q)' = Entry(q)
  BY DEF Entry, Table
<1>2. \A t \in ThreadIds, q \in Pairs : Deep(t, q)' = Deep(t, q)
  BY DEF Deep, Depth, Runs
<1>3. \A id, t : Level(id, t)' = Level(id, t)
  BY DEF Level
<1>4. TypeOK'
  BY DEF LockInv, TypeOK, MutexTypeOK, MutexMapOK
<1>5. LevelsMatch'
  BY <1>1, <1>2, <1>3 DEF LockInv, LevelsMatch, Level
<1>6. EntriesExist' /\ EntriesApart' /\ EntriesCover'
  BY <1>1 DEF LockInv, EntriesExist, EntriesApart, EntriesCover, Exists
<1>7. EntriesOfUse'
  BY DEF LockInv, EntriesOfUse, destroy_refused, mutex_is_locked
<1>8. WaitersMatch'
  BY <1>1 DEF LockInv, WaitersMatch
<1>9. WaitersCounted'
  BY DEF LockInv, WaitersCounted, Waiters
<1>10. QED
  BY <1>4, <1>5, <1>6, <1>7, <1>8, <1>9 DEF LockInv

LEMMA LockInvInit == Init => LockInv
<1> SUFFICES ASSUME Init PROVE LockInv
  OBVIOUS
<1> USE NoneIsNobody DEF Init, MutexInit
<1>1. \A id \in MutexIds : mutexes[id] = Made("absent", 0, NoThread, 0)
  BY DEF Free, Made
<1>2. \A id \in MutexIds : /\ WellFormed(mutexes[id]) /\ mutexes[id].type = "absent"
                           /\ mutexes[id].waiting_count = 0
  <2>1. WellFormed(Made("absent", 0, NoThread, 0))
    <3>1. "absent" \in MutexTypes \cup {"absent"} /\ NoThread \in ThreadIds \cup {NoThread}
          /\ 0 \in Nat /\ (NoThread = NoThread <=> 0 = 0)
      OBVIOUS
    <3>2. QED
      BY <3>1, MakeMutex, Zenon
  <2>2. QED
    BY <1>1, <2>1, MadeChanged
<1>3. TypeOK
  <2>1. MutexMapOK(mutexes)
    BY <1>2 DEF MutexMapOK, WellFormed
  <2>2. mutex_count \in 0 .. MaxMutexes
    BY BoundsAssumption
  <2>3. \A S : <<>> \in Seq(S)
    OBVIOUS
  <2>4. QED
    BY <2>1, <2>2, <2>3 DEF TypeOK, MutexTypeOK
<1>4. \A q \in Pairs : Entry(q) = NoMutex
  BY DEF Entry, Table, Pairs
<1>5. \A t \in ThreadIds, q \in Pairs : Deep(t, q) = 0
  <2> SUFFICES ASSUME NEW t \in ThreadIds, NEW q \in Pairs PROVE Deep(t, q) = 0
    OBVIOUS
  <2>1. Inside(t) = <<>>
    BY DEF Inside, Runs
  <2>2. Positions(<<>>, Frame(q[1], q[2])) = {}
    BY DEF Positions
  <2>3. QED
    BY <2>1, <2>2, DeepIsCount, FS_EmptySet DEF Count
<1>6. \A id \in MutexIds : Waiters(id) = {}
  BY DEF Waiters
<1>7. LevelsMatch
  BY <1>4, <1>5 DEF LevelsMatch, Level
<1>8. EntriesExist /\ EntriesApart /\ EntriesCover
  BY <1>2, <1>4 DEF EntriesExist, EntriesApart, EntriesCover, Exists
<1>9. EntriesOfUse /\ WaitersMatch
  BY DEF EntriesOfUse, WaitersMatch
<1>10. WaitersCounted
  BY <1>2, <1>6, FS_EmptySet DEF WaitersCounted
<1>11. QED
  BY <1>3, <1>7, <1>8, <1>9, <1>10 DEF LockInv

LEMMA LockInvNext == LockInv /\ [Next]_vars => LockInv'
<1> SUFFICES ASSUME LockInv, [Next]_vars PROVE LockInv'
  OBVIOUS
<1>1. ASSUME NEW t \in ThreadIds, NEW o \in Objs,
             objc_sync_enter(t, o) \/ lock_property_atomic(t, o)
      PROVE  LockInv'
  <2>1. \A k \in Kinds : <<k, o>> \in Pairs
    BY DEF Pairs
  <2>2. PICK p \in Pairs : EnterStep(t, p)
    BY <1>1, <2>1, EnterIsStep DEF Kinds
  <2>3. QED
    BY <2>2, EnterKeeps
<1>2. ASSUME NEW t \in ThreadIds, objc_sync_exit(t) \/ unlock_property_atomic(t)
      PROVE  LockInv'
  BY <1>2, ExitIsLeave, LeaveKeeps
<1>3. ASSUME NEW t \in ThreadIds, relock_unblocked_mutex(t) PROVE LockInv'
  BY <1>3, RelockKeeps
<1>4. ASSUME NEW o \in Objs, dealloc_object(o) \/ alloc_object(o) PROVE LockInv'
  BY <1>4, LiveKeeps DEF dealloc_object, alloc_object, mutexVars, LockInv, TypeOK
<1>5. CASE UNCHANGED vars
  BY <1>5, LiveKeeps DEF vars, mutexVars, LockInv, TypeOK
<1>6. QED
  BY <1>1, <1>2, <1>3, <1>4, <1>5 DEF Next

LEMMA LockInvAlways == Spec => []LockInv
BY LockInvInit, LockInvNext, PTL DEF Spec

(***************************************************************************)
(* What follows from the invariant                                         *)
(***************************************************************************)
LEMMA ExclusiveFromInv == LockInv => ObjectExclusive
<1> SUFFICES ASSUME LockInv, NEW kind \in Kinds, NEW o \in Objs
             PROVE  LET inside == {t \in ThreadIds : Depth(t, kind, o) > 0}
                        id     == Table(kind)[o]
                    IN  /\ Cardinality(inside) <= 1
                        /\ \A t \in inside : /\ id # NoMutex /\ mutexes[id].locked_by = t
                                             /\ mutexes[id].lock_count = Depth(t, kind, o)
                        /\ \A t \in Waiting(kind, o) :
                              blocked[t] = id /\ Exists(mutexes, id)
  BY DEF ObjectExclusive
<1> DEFINE p == <<kind, o>>
           inside == {t \in ThreadIds : Depth(t, kind, o) > 0}
           id == Table(kind)[o]
<1>1. p \in Pairs /\ Entry(p) = id /\ \A t : Deep(t, p) = Depth(t, kind, o)
  BY DEF Pairs, Entry, Deep
<1>2. \A t \in inside : /\ id # NoMutex /\ mutexes[id].locked_by = t
                        /\ mutexes[id].lock_count = Depth(t, kind, o)
  BY <1>1 DEF LockInv, LevelsMatch, Level
<1>3. Cardinality(inside) <= 1
  <2>1. CASE inside = {}
    BY <2>1, FS_EmptySet
  <2>2. CASE inside # {}
    <3>1. PICK t \in inside : TRUE
      BY <2>2
    <3>2. inside = {t}
      BY <1>2, <3>1
    <3>3. QED
      BY <3>2, FS_Singleton
  <2>3. QED
    BY <2>1, <2>2
<1>4. ASSUME NEW t \in Waiting(kind, o)
      PROVE  blocked[t] = id /\ Exists(mutexes, id)
  <2>1. t \in ThreadIds /\ blocked[t] # NoMutex /\ Last(stack[t]) = Frame(kind, o)
    BY <1>4 DEF Waiting, Runs
  <2>2. PICK q \in Pairs : Last(stack[t]) = Frame(q[1], q[2]) /\ Entry(q) = blocked[t]
    BY <2>1 DEF LockInv, WaitersMatch
  <2>3. q = p
    BY <1>1, <2>1, <2>2, FrameOfPair
  <2>4. QED
    BY <1>1, <2>1, <2>2, <2>3 DEF LockInv, EntriesExist
<1>5. QED
  BY <1>2, <1>3, <1>4

\* A frame is in a stack exactly when its thread is inside or waits to be.
LEMMA FramesOfThread ==
    ASSUME LockInv, NEW t \in ThreadIds, NEW p \in Pairs
    PROVE  (\E i \in DOMAIN stack[t] : stack[t][i] = Frame(p[1], p[2])) <=>
               Deep(t, p) > 0 \/ (blocked[t] # NoMutex /\ Entry(p) = blocked[t])
<1> DEFINE f == Frame(p[1], p[2])
<1>1. Inside(t) \in Seq(Frames) /\ stack[t] \in Seq(Frames)
  BY InsideType DEF LockInv
<1>2. Deep(t, p) > 0 <=> \E i \in DOMAIN Inside(t) : Inside(t)[i] = f
  BY <1>1, DeepIsCount, CountFacts
<1>3. CASE Runs(t)
  BY <1>2, <1>3 DEF Inside, Runs
<1>4. CASE ~Runs(t)
  <2>1. stack[t] # <<>> /\ Inside(t) = Front(stack[t]) /\ blocked[t] # NoMutex
    BY <1>4 DEF LockInv, WaitersMatch, Inside, Runs
  <2>2. PICK q \in Pairs : Last(stack[t]) = Frame(q[1], q[2]) /\ Entry(q) = blocked[t]
    BY <2>1 DEF LockInv, WaitersMatch
  <2>3. Last(stack[t]) = f <=> Entry(p) = blocked[t]
    <3>1. Last(stack[t]) = f <=> q = p
      BY <2>2, FrameOfPair
    <3>2. Entry(p) = blocked[t] <=> q = p
      BY <2>1, <2>2 DEF LockInv, EntriesApart
    <3>3. QED
      BY <3>1, <3>2
  <2>4. /\ DOMAIN stack[t] = DOMAIN Inside(t) \cup {Len(stack[t])}
        /\ \A i \in DOMAIN Inside(t) : Inside(t)[i] = stack[t][i]
        /\ Last(stack[t]) = stack[t][Len(stack[t])]
    BY <1>1, <2>1, FrontLast DEF Last
  <2>5. QED
    BY <1>2, <2>1, <2>3, <2>4
<1>5. QED
  BY <1>3, <1>4

LEMMA TransientFromInv == LockInv => SyncMutexTransient
<1> SUFFICES ASSUME LockInv, NEW o \in Objs
             PROVE  sync_mutexes[o] # NoMutex <=>
                       \E t \in ThreadIds : \E i \in DOMAIN stack[t] :
                           stack[t][i] = Frame("sync", o)
  BY DEF SyncMutexTransient
<1> DEFINE p == <<"sync", o>>
<1>1. p \in Pairs /\ p[1] = "sync" /\ p[2] = o /\ Entry(p) = sync_mutexes[o]
  BY DEF Pairs, Kinds, Entry, Table
<1> HIDE DEF p
<1>2. \A t \in ThreadIds :
          (\E i \in DOMAIN stack[t] : stack[t][i] = Frame("sync", o)) <=>
              Deep(t, p) > 0 \/ (blocked[t] # NoMutex /\ Entry(p) = blocked[t])
  BY <1>1, FramesOfThread
<1>3. \A t \in ThreadIds : Deep(t, p) = Level(Entry(p), t)
  BY <1>1 DEF LockInv, LevelsMatch
<1>4. ASSUME NEW t \in ThreadIds, Deep(t, p) > 0 \/
                 (blocked[t] # NoMutex /\ Entry(p) = blocked[t])
      PROVE  Entry(p) # NoMutex
  BY <1>3, <1>4 DEF Level
<1>5. ASSUME Entry(p) # NoMutex
      PROVE  \E t \in ThreadIds :
                 Deep(t, p) > 0 \/ (blocked[t] # NoMutex /\ Entry(p) = blocked[t])
  <2>1. destroy_refused(mutexes, Entry(p)) /\ Entry(p) \in MutexIds
    BY <1>1, <1>5, EntryMutex DEF LockInv, EntriesOfUse
  <2>2. CASE mutex_is_locked(mutexes, Entry(p))
    <3>1. PICK t \in ThreadIds : mutexes[Entry(p)].locked_by = t
      BY <2>1, <2>2, MutexParts DEF mutex_is_locked, LockInv, TypeOK, MutexTypeOK
    <3>2. mutexes[Entry(p)].lock_count \in Nat /\ mutexes[Entry(p)].lock_count # 0
      BY <2>1, <2>2, MutexParts DEF mutex_is_locked, LockInv, TypeOK, MutexTypeOK
    <3>3. QED
      BY <1>3, <1>5, <3>1, <3>2 DEF Level
  <2>3. CASE mutexes[Entry(p)].waiting_count # 0
    <3>1. Cardinality(Waiters(Entry(p))) # 0
      BY <2>1, <2>3 DEF LockInv, WaitersCounted
    <3>2. Waiters(Entry(p)) # {}
      BY <3>1, FS_EmptySet
    <3>3. QED
      BY <1>5, <3>2 DEF Waiters
  <2>4. QED
    BY <2>1, <2>2, <2>3 DEF destroy_refused
<1>6. QED
  BY <1>1, <1>2, <1>4, <1>5

LEMMA LeakFromInv == LockInv => NoMutexLeaked
<1> SUFFICES ASSUME LockInv, NEW id \in MutexIds, Exists(mutexes, id)
             PROVE  Cardinality({ko \in Kinds \X Objs : Table(ko[1])[ko[2]] = id}) = 1
  BY DEF NoMutexLeaked
<1>1. PICK p \in Pairs : Entry(p) = id
  BY DEF LockInv, EntriesCover
<1>2. \A q \in Pairs : Entry(q) = id => q = p
  BY <1>1, NoneIsNobody DEF LockInv, EntriesApart
<1>3. {ko \in Kinds \X Objs : Table(ko[1])[ko[2]] = id} = {p}
  BY <1>1, <1>2 DEF Pairs, Entry
<1>4. QED
  BY <1>3, FS_Singleton

(***************************************************************************)
(* The theorems                                                            *)
(***************************************************************************)
\* At any time at most one thread is in the @synchronized blocks, or in the atomic
\* accessors, of an object; the mutex that objc_sync_enter and the accessors look up
\* has that thread and its depth, and whoever waits, waits for that mutex.
THEOREM OneThreadInside == Spec => []ObjectExclusive
BY LockInvAlways, ExclusiveFromInv, PTL

\* objc_sync_exit destroys the mutex of an object with the last exit, and never under
\* a thread that is in a block or waits: the entry is there exactly as long as some
\* thread has a frame of it.
THEOREM SyncMutexLives == Spec => []SyncMutexTransient
BY LockInvAlways, TransientFromInv, PTL

\* No mutex is left behind and none is shared: each that exists is the entry of
\* exactly one object in exactly one of the tables.
THEOREM MutexesAccounted == Spec => []NoMutexLeaked
BY LockInvAlways, LeakFromInv, PTL
-----------------------------------------------------------------------------
(***************************************************************************)
(* Reference counts, weak variables, autorelease pools (ObjcRefs)          *)
(*                                                                         *)
(* Whatever holds a reference is counted as a sum: how often x is in the   *)
(* pools, in what the frames have still to release, in the KVC values and  *)
(* in the associations. A sum is the cardinality of the tagged members of  *)
(* its summands, so that a step that changes one summand changes the sum   *)
(* by the difference (TaggedChange), and so is the number of calls of      *)
(* dealloc for x and the number of places where a pool is.                 *)
(***************************************************************************)
CONSTANTS Objects, Pools, Slots, RefThreads, MaxRefs, MaxFrames, LoadDying, Nil
VARIABLES rc, weak_refs, slot, managed, pool_stacks, pool_objects, kvc, assoc,
          frames, owned
Refs == INSTANCE ObjcRefs WITH Threads <- RefThreads

\* The copy of {k} x S, and the sum that one of its parts changes.
LEMMA TaggedOne ==
    ASSUME NEW k, NEW S, IsFiniteSet({k} \X S) \/ IsFiniteSet(S)
    PROVE  /\ IsFiniteSet({k} \X S) /\ IsFiniteSet(S)
           /\ Cardinality({k} \X S) = Cardinality(S) /\ Cardinality(S) \in Nat
<1> DEFINE f == [e \in {k} \X S |-> e[2]]
           g == [s \in S |-> <<k, s>>]
<1>1. f \in Bijection({k} \X S, S)
  <2>1. f \in [{k} \X S -> S] /\ \A s \in S : \E e \in {k} \X S : f[e] = s
    <3>1. \A s \in S : <<k, s>> \in {k} \X S /\ f[<<k, s>>] = s
      OBVIOUS
    <3>2. QED
      BY <3>1
  <2>2. \A d, e \in {k} \X S : f[d] = f[e] => d = e
    OBVIOUS
  <2>3. QED
    BY <2>1, <2>2 DEF Bijection, Injection, Surjection, IsInjective
<1>2. g \in Bijection(S, {k} \X S)
  <2>1. g \in [S -> {k} \X S] /\ \A e \in {k} \X S : \E s \in S : g[s] = e
    OBVIOUS
  <2>2. \A r, s \in S : g[r] = g[s] => r = s
    OBVIOUS
  <2>3. QED
    BY <2>1, <2>2 DEF Bijection, Injection, Surjection, IsInjective
<1>3. ExistsBijection({k} \X S, S) /\ ExistsBijection(S, {k} \X S)
  BY <1>1, <1>2, Zenon DEF ExistsBijection
<1>4. QED
  BY <1>3, FS_Bijection, FS_CardinalityType

\* Every part of a sum is a summand.
LEMMA TaggedPart ==
    ASSUME NEW P, NEW k \in DOMAIN P, IsFiniteSet(Refs!Tagged(P))
    PROVE  /\ IsFiniteSet(P[k]) /\ Cardinality(P[k]) \in Nat
           /\ Cardinality(P[k]) <= Cardinality(Refs!Tagged(P))
<1>1. {k} \X P[k] \subseteq Refs!Tagged(P)
  BY DEF Refs!Tagged
<1>2. IsFiniteSet({k} \X P[k]) /\ Cardinality({k} \X P[k]) <= Cardinality(Refs!Tagged(P))
  BY <1>1, FS_Subset
<1>3. IsFiniteSet(P[k]) /\ Cardinality({k} \X P[k]) = Cardinality(P[k])
  BY <1>2, TaggedOne
<1>4. QED
  BY <1>2, <1>3, FS_CardinalityType

LEMMA TaggedChange ==
    ASSUME NEW P, NEW Q, NEW k \in DOMAIN P, DOMAIN Q = DOMAIN P,
           \A j \in DOMAIN P \ {k} : Q[j] = P[j],
           IsFiniteSet(Refs!Tagged(P)), IsFiniteSet(Q[k])
    PROVE  /\ IsFiniteSet(P[k]) /\ IsFiniteSet(Refs!Tagged(Q))
           /\ Cardinality(Refs!Tagged(P)) \in Nat /\ Cardinality(Refs!Tagged(Q)) \in Nat
           /\ Cardinality(P[k]) \in Nat /\ Cardinality(Q[k]) \in Nat
           /\ Cardinality(P[k]) <= Cardinality(Refs!Tagged(P))
           /\ Cardinality(Refs!Tagged(Q)) =
                  Cardinality(Refs!Tagged(P)) - Cardinality(P[k]) + Cardinality(Q[k])
<1> DEFINE old == {k} \X P[k]
           new == {k} \X Q[k]
           rest == Refs!Tagged(P) \ old
<1>1. old \subseteq Refs!Tagged(P)
  BY DEF Refs!Tagged
<1>2. /\ IsFiniteSet(old) /\ IsFiniteSet(P[k]) /\ Cardinality(old) = Cardinality(P[k])
      /\ Cardinality(P[k]) \in Nat
  <2>1. IsFiniteSet(old)
    BY <1>1, FS_Subset
  <2>2. QED
    BY <2>1, TaggedOne
<1>3. IsFiniteSet(new) /\ Cardinality(new) = Cardinality(Q[k]) /\ Cardinality(Q[k]) \in Nat
  BY TaggedOne
<1>4. /\ IsFiniteSet(rest) /\ Cardinality(rest) = Cardinality(Refs!Tagged(P)) - Cardinality(old)
      /\ Cardinality(rest) \in Nat /\ Cardinality(Refs!Tagged(P)) \in Nat
  <2> HIDE DEF old
  <2>1. Refs!Tagged(P) \cap old = old
    BY <1>1
  <2>2. IsFiniteSet(rest) /\ Cardinality(rest) = Cardinality(Refs!Tagged(P)) - Cardinality(old)
    BY <2>1, FS_Difference
  <2>3. QED
    BY <2>2, FS_CardinalityType
<1>5. Refs!Tagged(Q) = rest \cup new /\ rest \cap new = {}
  <2>1. ASSUME NEW e PROVE e \in Refs!Tagged(Q) <=> e \in rest \cup new
    <3>1. \A F : e \in Refs!Tagged(F) <=> \E j \in DOMAIN F : e \in {j} \X F[j]
      BY DEF Refs!Tagged
    <3>2. \A j : e \in {j} \X P[j] => e[1] = j
      OBVIOUS
    <3>3. \A j : e \in {j} \X Q[j] => e[1] = j
      OBVIOUS
    <3>4. e \in rest <=> \E j \in DOMAIN P \ {k} : e \in {j} \X P[j]
      BY <3>1, <3>2
    <3>5. e \in Refs!Tagged(Q) <=> e \in new \/ \E j \in DOMAIN P \ {k} : e \in {j} \X Q[j]
      BY <3>1
    <3>6. (\E j \in DOMAIN P \ {k} : e \in {j} \X Q[j]) <=> \E j \in DOMAIN P \ {k} : e \in {j} \X P[j]
      OBVIOUS
    <3>7. QED
      BY <3>4, <3>5, <3>6
  <2>2. ASSUME NEW e \in rest, e \in new PROVE FALSE
    <3>1. PICK j \in DOMAIN P : e \in {j} \X P[j]
      BY DEF Refs!Tagged
    <3>2. j = e[1] /\ e[1] = k
      BY <2>2, <3>1
    <3>3. QED
      BY <2>2, <3>1, <3>2
  <2>3. QED
    BY <2>1, <2>2
<1>6. /\ IsFiniteSet(Refs!Tagged(Q))
      /\ Cardinality(Refs!Tagged(Q)) = Cardinality(rest) + Cardinality(new)
  <2> HIDE DEF rest, new
  <2>1. Cardinality(rest \cap new) = 0
    BY <1>5, FS_EmptySet
  <2>2. /\ IsFiniteSet(rest \cup new)
        /\ Cardinality(rest \cup new) = Cardinality(rest) + Cardinality(new) - Cardinality(rest \cap new)
    BY <1>3, <1>4, FS_Union
  <2>3. QED
    BY <1>3, <1>4, <1>5, <2>1, <2>2
<1>7. QED
  BY <1>2, <1>3, <1>4, <1>6

\* A set of numbers that is moved up by one.
LEMMA Shifted ==
    ASSUME NEW S \in SUBSET Nat, NEW T \in SUBSET Nat,
           \A j \in Nat : j \in T <=> j - 1 \in S,
           IsFiniteSet(S) \/ IsFiniteSet(T)
    PROVE  /\ IsFiniteSet(S) /\ IsFiniteSet(T)
           /\ Cardinality(T) = Cardinality(S) /\ Cardinality(S) \in Nat
<1> DEFINE f == [s \in S |-> s + 1]
           g == [s \in T |-> s - 1]
<1>1. f \in Bijection(S, T)
  <2>1. f \in [S -> T] /\ \A s \in T : \E e \in S : f[e] = s
    OBVIOUS
  <2>2. \A d, e \in S : f[d] = f[e] => d = e
    OBVIOUS
  <2>3. QED
    BY <2>1, <2>2 DEF Bijection, Injection, Surjection, IsInjective
<1>2. g \in Bijection(T, S)
  <2>1. g \in [T -> S] /\ \A s \in S : \E e \in T : g[e] = s
    <3>1. \A s \in S : s + 1 \in T /\ g[s + 1] = s
      OBVIOUS
    <3>2. QED
      BY <3>1
  <2>2. \A r, s \in T : g[r] = g[s] => r = s
    OBVIOUS
  <2>3. QED
    BY <2>1, <2>2 DEF Bijection, Injection, Surjection, IsInjective
<1>3. ExistsBijection(S, T) /\ ExistsBijection(T, S)
  BY <1>1, <1>2, Zenon DEF ExistsBijection
<1>4. QED
  BY <1>3, FS_Bijection, FS_CardinalityType

\* The sum over a sequence that has one more element in front.
LEMMA TaggedFront ==
    ASSUME NEW n \in Nat, NEW P, NEW Q, DOMAIN P = 1 .. n, DOMAIN Q = 1 .. (n + 1),
           \A i \in 1 .. n : Q[i + 1] = P[i],
           \/ IsFiniteSet(Refs!Tagged(P)) /\ IsFiniteSet(Q[1])
           \/ IsFiniteSet(Refs!Tagged(Q))
    PROVE  /\ IsFiniteSet(Refs!Tagged(P)) /\ IsFiniteSet(Refs!Tagged(Q)) /\ IsFiniteSet(Q[1])
           /\ Cardinality(Refs!Tagged(P)) \in Nat /\ Cardinality(Q[1]) \in Nat
           /\ Cardinality(Refs!Tagged(Q)) = Cardinality(Q[1]) + Cardinality(Refs!Tagged(P))
<1> DEFINE first == {1} \X Q[1]
           later == Refs!Tagged(Q) \ first
           f == [e \in Refs!Tagged(P) |-> <<e[1] + 1, e[2]>>]
           g == [e \in later |-> <<e[1] - 1, e[2]>>]
<1>1. \A F, e : e \in Refs!Tagged(F) <=> \E j \in DOMAIN F : e \in {j} \X F[j]
  BY DEF Refs!Tagged
<1>2. \A e \in Refs!Tagged(P) : e = <<e[1], e[2]>> /\ e[1] \in 1 .. n /\ e[2] \in P[e[1]]
  BY <1>1
<1>3. \A i \in 1 .. n : \A x \in P[i] : <<i, x>> \in Refs!Tagged(P)
  BY <1>1
<1>4. \A e \in later : e = <<e[1], e[2]>> /\ e[1] \in 2 .. (n + 1) /\ e[2] \in Q[e[1]]
  <2>1. ASSUME NEW e \in later PROVE e = <<e[1], e[2]>> /\ e[1] \in 2 .. (n + 1) /\ e[2] \in Q[e[1]]
    <3>1. PICK j \in 1 .. (n + 1) : e \in {j} \X Q[j]
      BY <1>1
    <3>2. j # 1
      BY <3>1
    <3>3. QED
      BY <3>1, <3>2
  <2>2. QED
    BY <2>1
<1>5. \A i \in 2 .. (n + 1) : \A x \in Q[i] : <<i, x>> \in later
  BY <1>1
<1>6. f \in Bijection(Refs!Tagged(P), later)
  <2>1. f \in [Refs!Tagged(P) -> later]
    <3>1. ASSUME NEW e \in Refs!Tagged(P) PROVE <<e[1] + 1, e[2]>> \in later
      <4>1. PICK i \in 1 .. n : i = e[1] /\ e[2] \in P[i]
        BY <1>2
      <4>2. i + 1 \in 2 .. (n + 1) /\ e[2] \in Q[i + 1]
        BY <4>1
      <4>3. QED
        BY <1>5, <4>1, <4>2
    <3>2. QED
      BY <3>1
  <2>2. ASSUME NEW d \in later PROVE \E e \in Refs!Tagged(P) : f[e] = d
    <3>1. PICK i \in 1 .. n : i = d[1] - 1 /\ d = <<i + 1, d[2]>> /\ d[2] \in Q[i + 1]
      BY <1>4
    <3>2. <<i, d[2]>> \in Refs!Tagged(P)
      BY <1>3, <3>1
    <3>3. f[<<i, d[2]>>] = d
      BY <3>1, <3>2
    <3>4. QED
      BY <3>2, <3>3
  <2>3. ASSUME NEW d \in Refs!Tagged(P), NEW e \in Refs!Tagged(P), f[d] = f[e] PROVE d = e
    <3>1. /\ d = <<d[1], d[2]>> /\ e = <<e[1], e[2]>> /\ d[1] \in Nat /\ e[1] \in Nat
          /\ <<d[1] + 1, d[2]>> = <<e[1] + 1, e[2]>>
      BY <1>2, <2>3
    <3>2. d[1] + 1 = e[1] + 1 /\ d[2] = e[2]
      BY <3>1
    <3>3. d[1] = e[1]
      BY <3>1, <3>2
    <3>4. QED
      BY <3>1, <3>2, <3>3
  <2>4. QED
    BY <2>1, <2>2, <2>3 DEF Bijection, Injection, Surjection, IsInjective
<1>7. g \in Bijection(later, Refs!Tagged(P))
  <2>1. ASSUME NEW e \in later
        PROVE  /\ g[e] \in Refs!Tagged(P) /\ f[g[e]] = e
    <3>1. PICK i \in 1 .. n : i = e[1] - 1 /\ e = <<i + 1, e[2]>> /\ e[2] \in Q[i + 1]
      BY <1>4
    <3>2. <<i, e[2]>> \in Refs!Tagged(P) /\ g[e] = <<i, e[2]>>
      BY <1>3, <3>1
    <3>3. f[g[e]] = <<i + 1, e[2]>>
      BY <3>2
    <3>4. QED
      BY <3>1, <3>2, <3>3
  <2>2. ASSUME NEW e \in Refs!Tagged(P)
        PROVE  f[e] \in later /\ g[f[e]] = e
    <3>1. PICK i \in 1 .. n : i = e[1] /\ e = <<i, e[2]>> /\ e[2] \in P[i]
      BY <1>2
    <3>2. f[e] = <<i + 1, e[2]>> /\ f[e] \in later
      BY <1>5, <3>1
    <3>3. g[f[e]] = <<i + 1 - 1, e[2]>>
      BY <3>2
    <3>4. QED
      BY <3>1, <3>2, <3>3
  <2>3. g \in [later -> Refs!Tagged(P)]
    BY <2>1
  <2>4. ASSUME NEW d \in later, NEW e \in later, g[d] = g[e] PROVE d = e
    <3>1. f[g[d]] = d /\ f[g[e]] = e
      BY <2>1
    <3> HIDE DEF f, g
    <3>2. QED
      BY <2>4, <3>1
  <2>5. \A e \in Refs!Tagged(P) : \E d \in later : g[d] = e
    BY <2>2
  <2> HIDE DEF f, g, later
  <2>6. QED
    BY <2>3, <2>4, <2>5 DEF Bijection, Injection, Surjection, IsInjective
<1>8. ExistsBijection(Refs!Tagged(P), later) /\ ExistsBijection(later, Refs!Tagged(P))
  BY <1>6, <1>7, Zenon DEF ExistsBijection
<1>9. Refs!Tagged(Q) = first \cup later /\ first \cap later = {} /\ first \subseteq Refs!Tagged(Q)
  <2>1. first \subseteq Refs!Tagged(Q)
    BY <1>1
  <2>2. QED
    BY <2>1
<1> HIDE DEF f, g, first, later
<1>10. CASE IsFiniteSet(Refs!Tagged(P)) /\ IsFiniteSet(Q[1])
  <2>1. /\ IsFiniteSet(later) /\ Cardinality(later) = Cardinality(Refs!Tagged(P))
        /\ Cardinality(Refs!Tagged(P)) \in Nat
    BY <1>8, <1>10, FS_Bijection, FS_CardinalityType
  <2>2. IsFiniteSet(first) /\ Cardinality(first) = Cardinality(Q[1]) /\ Cardinality(Q[1]) \in Nat
    BY <1>10, TaggedOne DEF first
  <2>3. Cardinality(first \cap later) = 0
    BY <1>9, FS_EmptySet
  <2>4. /\ IsFiniteSet(first \cup later)
        /\ Cardinality(first \cup later) = Cardinality(first) + Cardinality(later) - Cardinality(first \cap later)
    BY <2>1, <2>2, FS_Union
  <2>5. QED
    BY <1>9, <1>10, <2>1, <2>2, <2>3, <2>4
<1>11. CASE IsFiniteSet(Refs!Tagged(Q))
  <2>1. IsFiniteSet(later) /\ IsFiniteSet(first)
    BY <1>9, <1>11, FS_Subset
  <2>2. IsFiniteSet(Refs!Tagged(P)) /\ IsFiniteSet(Q[1])
    BY <1>8, <2>1, FS_Bijection, TaggedOne DEF first
  <2>3. QED
    BY <1>10, <2>2
<1>12. QED
  BY <1>10, <1>11

\* How often x is in a sequence.
LEMMA PlacesCount ==
    ASSUME NEW S, NEW s \in Seq(S), NEW x
    PROVE  /\ IsFiniteSet(Refs!Places(s, x)) /\ Cardinality(Refs!Places(s, x)) \in Nat
           /\ Cardinality(Refs!Places(s, x)) > 0 <=> \E i \in DOMAIN s : s[i] = x
           /\ Refs!Places(s, x) \subseteq Nat
<1>1. IsFiniteSet(1 .. Len(s)) /\ DOMAIN s = 1 .. Len(s) /\ Len(s) \in Nat
  BY FS_Interval
<1>2. IsFiniteSet(Refs!Places(s, x))
  BY <1>1, FS_Subset DEF Refs!Places
<1>3. Cardinality(Refs!Places(s, x)) \in Nat /\ (Cardinality(Refs!Places(s, x)) = 0 <=> Refs!Places(s, x) = {})
  BY <1>2, FS_CardinalityType, FS_EmptySet
<1>4. Refs!Places(s, x) = {} <=> ~\E i \in DOMAIN s : s[i] = x
  BY DEF Refs!Places
<1>5. Refs!Places(s, x) \subseteq Nat
  BY <1>1 DEF Refs!Places
<1>6. QED
  BY <1>2, <1>3, <1>4, <1>5

LEMMA PlacesEmpty ==
    ASSUME NEW x
    PROVE  Refs!Places(<<>>, x) = {} /\ IsFiniteSet({}) /\ Cardinality({}) = 0
  BY FS_EmptySet DEF Refs!Places

LEMMA PlacesOne ==
    ASSUME NEW e, NEW x
    PROVE  Cardinality(Refs!Places(<<e>>, x)) = IF e = x THEN 1 ELSE 0
<1>1. CASE e = x
  <2>1. Refs!Places(<<e>>, x) = {1}
    BY <1>1 DEF Refs!Places
  <2>2. QED
    BY <1>1, <2>1, FS_Singleton
<1>2. CASE e # x
  <2>1. Refs!Places(<<e>>, x) = {}
    BY <1>2 DEF Refs!Places
  <2>2. QED
    BY <1>2, <2>1, FS_EmptySet
<1>3. QED
  BY <1>1, <1>2

LEMMA PlacesAppend ==
    ASSUME NEW S, NEW s \in Seq(S), NEW e \in S, NEW x
    PROVE  Cardinality(Refs!Places(Append(s, e), x))
              = Cardinality(Refs!Places(s, x)) + (IF e = x THEN 1 ELSE 0)
<1> DEFINE n == Len(s) + 1
<1>1. /\ DOMAIN Append(s, e) = 1 .. n /\ DOMAIN s = 1 .. Len(s) /\ Len(s) \in Nat
      /\ Append(s, e)[n] = e /\ \A i \in 1 .. Len(s) : Append(s, e)[i] = s[i]
  OBVIOUS
<1>2. IsFiniteSet(Refs!Places(s, x)) /\ n \notin Refs!Places(s, x)
  <2>1. n \notin Refs!Places(s, x)
    BY <1>1 DEF Refs!Places
  <2>2. QED
    BY <2>1, PlacesCount
<1>3. CASE e = x
  <2>1. Refs!Places(Append(s, e), x) = Refs!Places(s, x) \cup {n}
    BY <1>1, <1>3 DEF Refs!Places
  <2>2. QED
    BY <1>2, <1>3, <2>1, FS_AddElement
<1>4. CASE e # x
  <2>1. Refs!Places(Append(s, e), x) = Refs!Places(s, x)
    BY <1>1, <1>4 DEF Refs!Places
  <2>2. QED
    BY <1>4, <2>1, PlacesCount
<1>5. QED
  BY <1>3, <1>4

LEMMA PlacesTail ==
    ASSUME NEW S, NEW s \in Seq(S), s # <<>>, NEW x
    PROVE  /\ Head(s) \in S /\ Tail(s) \in Seq(S)
           /\ Cardinality(Refs!Places(s, x))
                = Cardinality(Refs!Places(Tail(s), x)) + (IF Head(s) = x THEN 1 ELSE 0)
<1> DEFINE later == Refs!Places(s, x) \ {1}
<1>1. /\ Tail(s) \in Seq(S) /\ Head(s) \in S /\ Head(s) = s[1] /\ Len(s) \in Nat \ {0}
      /\ DOMAIN s = 1 .. Len(s) /\ DOMAIN Tail(s) = 1 .. (Len(s) - 1)
      /\ \A i \in 1 .. (Len(s) - 1) : Tail(s)[i] = s[i + 1]
  OBVIOUS
<1>2. /\ IsFiniteSet(Refs!Places(s, x)) /\ IsFiniteSet(Refs!Places(Tail(s), x))
      /\ Refs!Places(Tail(s), x) \in SUBSET Nat /\ later \in SUBSET Nat
  BY <1>1, PlacesCount
<1>3. \A j \in Nat : j \in later <=> j - 1 \in Refs!Places(Tail(s), x)
  BY <1>1 DEF Refs!Places
<1>4. Cardinality(later) = Cardinality(Refs!Places(Tail(s), x))
  <2> HIDE DEF later
  <2>1. QED
    BY <1>2, <1>3, Shifted
<1>5. 1 \in Refs!Places(s, x) <=> Head(s) = x
  BY <1>1 DEF Refs!Places
<1>6. /\ Cardinality(later) = IF 1 \in Refs!Places(s, x) THEN Cardinality(Refs!Places(s, x)) - 1
                              ELSE Cardinality(Refs!Places(s, x))
      /\ Cardinality(Refs!Places(s, x)) \in Nat
  BY <1>2, FS_RemoveElement, PlacesCount
<1>7. QED
  BY <1>1, <1>4, <1>5, <1>6

\* A stack that is cut, and what is above the cut, from the top down.
LEMMA PlacesCut ==
    ASSUME NEW S, NEW s \in Seq(S), NEW i \in DOMAIN s
    PROVE  /\ SubSeq(s, 1, i - 1) \in Seq(S) /\ Refs!Reverse(SubSeq(s, i, Len(s))) \in Seq(S)
           /\ \A x : Cardinality(Refs!Places(SubSeq(s, 1, i - 1), x))
                       + Cardinality(Refs!Places(Refs!Reverse(SubSeq(s, i, Len(s))), x))
                     = Cardinality(Refs!Places(s, x))
           /\ Cardinality(Refs!Places(Refs!Reverse(SubSeq(s, i, Len(s))), s[i])) > 0
<1> DEFINE n == Len(s)
           m == n - i + 1
           low == SubSeq(s, 1, i - 1)
           cut == SubSeq(s, i, n)
           high == Refs!Reverse(cut)
<1>1. n \in Nat /\ i \in 1 .. n /\ DOMAIN s = 1 .. n /\ m \in Nat
  OBVIOUS
<1>2. low \in Seq(S) /\ DOMAIN low = 1 .. (i - 1) /\ \A j \in 1 .. (i - 1) : low[j] = s[j]
  BY <1>1
<1>3. cut \in Seq(S) /\ Len(cut) = m /\ \A j \in 1 .. m : cut[j] = s[i + j - 1]
  BY <1>1
<1>4. /\ high \in Seq(S) /\ DOMAIN high = 1 .. m
      /\ \A j \in 1 .. m : high[j] = s[n - j + 1]
  <2> HIDE DEF cut
  <2>1. high = [j \in 1 .. m |-> cut[m - j + 1]]
    BY <1>3 DEF Refs!Reverse
  <2>2. \A j \in 1 .. m : m - j + 1 \in 1 .. m /\ i + (m - j + 1) - 1 = n - j + 1
    BY <1>1
  <2>3. \A j \in 1 .. m : high[j] = cut[m - j + 1] /\ cut[m - j + 1] \in S
    BY <1>1, <1>3, <2>1, <2>2
  <2>4. high \in Seq(S) /\ DOMAIN high = 1 .. m
    BY <1>1, <2>1, <2>3
  <2>5. \A j \in 1 .. m : high[j] = s[n - j + 1]
    BY <1>3, <2>2, <2>3
  <2>6. QED
    BY <2>4, <2>5
<1> HIDE DEF low, high, cut
<1>5. ASSUME NEW x
      PROVE  Cardinality(Refs!Places(low, x)) + Cardinality(Refs!Places(high, x)) = Cardinality(Refs!Places(s, x))
  <2> DEFINE A == Refs!Places(low, x)
             B == Refs!Places(s, x) \ A
             C == Refs!Places(high, x)
             f == [j \in B |-> n - j + 1]
  <2>1. A \subseteq Refs!Places(s, x) /\ B = {j \in i .. n : s[j] = x} /\ C = {j \in 1 .. m : s[n - j + 1] = x}
    BY <1>1, <1>2, <1>4 DEF Refs!Places
  <2>2. ASSUME NEW j \in B PROVE n - j + 1 \in C
    <3>1. j \in i .. n /\ s[j] = x
      BY <2>1
    <3>2. n - j + 1 \in 1 .. m /\ n - (n - j + 1) + 1 = j
      BY <1>1, <3>1
    <3>3. QED
      BY <2>1, <3>1, <3>2
  <2>3. ASSUME NEW j \in C PROVE n - j + 1 \in B /\ n - (n - j + 1) + 1 = j
    <3>1. j \in 1 .. m /\ s[n - j + 1] = x
      BY <1>4 DEF Refs!Places
    <3>2. n - j + 1 \in i .. n /\ n - (n - j + 1) + 1 = j
      BY <1>1, <3>1
    <3>3. QED
      BY <2>1, <3>1, <3>2
  <2>4. \A j \in B : j \in Nat
    BY <1>1, <2>1
  <2> HIDE DEF A, B, C
  <2>5. f \in Bijection(B, C)
    <3>1. f \in [B -> C]
      BY <2>2
    <3>2. \A j, k \in B : f[j] = f[k] => j = k
      BY <1>1, <2>4
    <3>3. \A j \in C : f[n - j + 1] = j
      BY <2>3
    <3>4. \A j \in C : \E k \in B : f[k] = j
      BY <2>3, <3>3
    <3>5. QED
      BY <3>1, <3>2, <3>4 DEF Bijection, Injection, Surjection, IsInjective
  <2>6. IsFiniteSet(Refs!Places(s, x)) /\ Cardinality(Refs!Places(s, x)) \in Nat
    BY PlacesCount
  <2>7. IsFiniteSet(A) /\ Cardinality(A) \in Nat
    BY <1>2, PlacesCount DEF A
  <2>8. IsFiniteSet(B) /\ Cardinality(B) = Cardinality(Refs!Places(s, x)) - Cardinality(Refs!Places(s, x) \cap A)
    BY <2>6, FS_Difference DEF B
  <2>9. Refs!Places(s, x) \cap A = A
    BY <2>1
  <2>10. ExistsBijection(B, C)
    BY <2>5, Zenon DEF ExistsBijection
  <2>11. Cardinality(C) = Cardinality(B)
    BY <2>8, <2>10, FS_Bijection
  <2>12. Cardinality(A) + Cardinality(C) = Cardinality(Refs!Places(s, x))
    <3>1. Cardinality(Refs!Places(s, x) \cap A) = Cardinality(A)
      BY <2>9
    <3>2. QED
      BY <2>6, <2>7, <2>8, <2>11, <3>1
  <2>13. QED
    BY <2>12 DEF A, C
<1>6. high[m] = s[i] /\ m \in DOMAIN high
  BY <1>1, <1>4
<1>7. Cardinality(Refs!Places(high, s[i])) > 0
  BY <1>4, <1>6, PlacesCount
<1>8. QED
  BY <1>2, <1>4, <1>5, <1>7 DEF low, high, cut

RefFrames == {f \in [kind : {"dealloc", "kvc", "drain", "assoc"}, obj : Objects \cup {Nil},
                     pools : Seq(Pools), todo : Seq(Objects)] :
    /\ f.kind # "drain" => f.obj \in Objects /\ f.pools = <<>>
    /\ f.kind = "dealloc" => f.todo = <<>>
    /\ f.kind = "assoc" => Len(f.todo) = 1}

\* What one frame counts for, and what the frames of a thread do.
FrameTodo(f, x) == Cardinality(Refs!Places(f.todo, x))
FrameDrops(f, p) == Cardinality(Refs!Places(f.pools, p))
FrameDies(f, o) == IF f.kind \in {"dealloc", "kvc"} /\ f.obj = o THEN 1 ELSE 0

TodoCount(fs, x) == Cardinality(Refs!Todo(fs, x))
DropsCount(fs, p) == Cardinality(Refs!Drops(fs, p))
DyingCount(fs, o) == Cardinality(Refs!Dying(fs, o))

FiniteFrames(fs) ==
    /\ fs \in Seq(RefFrames)
    /\ \A x \in Objects : IsFiniteSet(Refs!Todo(fs, x)) /\ IsFiniteSet(Refs!Dying(fs, x))
    /\ \A p \in Pools : IsFiniteSet(Refs!Drops(fs, p))

LEMMA FrameCounts ==
    ASSUME NEW f \in RefFrames
    PROVE  /\ \A x : IsFiniteSet(Refs!Places(f.todo, x)) /\ FrameTodo(f, x) \in Nat
           /\ \A p : IsFiniteSet(Refs!Places(f.pools, p)) /\ FrameDrops(f, p) \in Nat
           /\ \A o : FrameDies(f, o) \in {0, 1}
<1>1. f.todo \in Seq(Objects) /\ f.pools \in Seq(Pools)
  BY DEF RefFrames
<1>2. QED
  BY <1>1, PlacesCount DEF FrameTodo, FrameDrops, FrameDies

\* The frames gs are those of fs and one more, in front.
LEMMA FramesFront ==
    ASSUME NEW gs \in Seq(RefFrames), gs # <<>>, NEW fs, fs = Tail(gs),
           FiniteFrames(fs) \/ FiniteFrames(gs)
    PROVE  /\ FiniteFrames(fs) /\ FiniteFrames(gs) /\ Head(gs) \in RefFrames
           /\ \A x \in Objects :
                 /\ TodoCount(gs, x) = FrameTodo(Head(gs), x) + TodoCount(fs, x)
                 /\ TodoCount(fs, x) \in Nat
                 /\ DyingCount(gs, x) = FrameDies(Head(gs), x) + DyingCount(fs, x)
                 /\ DyingCount(fs, x) \in Nat
           /\ \A p \in Pools :
                 /\ DropsCount(gs, p) = FrameDrops(Head(gs), p) + DropsCount(fs, p)
                 /\ DropsCount(fs, p) \in Nat
<1> DEFINE n == Len(fs)
<1>1. /\ fs \in Seq(RefFrames) /\ Head(gs) \in RefFrames /\ gs[1] = Head(gs) /\ n \in Nat
      /\ DOMAIN fs = 1 .. n /\ DOMAIN gs = 1 .. (n + 1)
      /\ \A i \in 1 .. n : gs[i + 1] = fs[i]
  OBVIOUS
<1>2. ASSUME NEW x \in Objects
      PROVE  /\ IsFiniteSet(Refs!Todo(fs, x)) /\ IsFiniteSet(Refs!Todo(gs, x))
             /\ TodoCount(gs, x) = FrameTodo(Head(gs), x) + TodoCount(fs, x)
             /\ TodoCount(fs, x) \in Nat
  <2> DEFINE P == [i \in DOMAIN fs |-> Refs!Places(fs[i].todo, x)]
             Q == [i \in DOMAIN gs |-> Refs!Places(gs[i].todo, x)]
  <2>1. /\ DOMAIN P = 1 .. n /\ DOMAIN Q = 1 .. (n + 1) /\ \A i \in 1 .. n : Q[i + 1] = P[i]
        /\ Q[1] = Refs!Places(Head(gs).todo, x)
    BY <1>1
  <2>2. IsFiniteSet(Q[1])
    BY <1>1, <2>1, FrameCounts
  <2>3. Refs!Todo(fs, x) = Refs!Tagged(P) /\ Refs!Todo(gs, x) = Refs!Tagged(Q)
    BY DEF Refs!Todo
  <2>4. IsFiniteSet(Refs!Tagged(P)) \/ IsFiniteSet(Refs!Tagged(Q))
    BY <2>3 DEF FiniteFrames
  <2> HIDE DEF P, Q
  <2>5. /\ IsFiniteSet(Refs!Tagged(P)) /\ IsFiniteSet(Refs!Tagged(Q)) /\ Cardinality(Refs!Tagged(P)) \in Nat
        /\ Cardinality(Refs!Tagged(Q)) = Cardinality(Q[1]) + Cardinality(Refs!Tagged(P))
    BY <1>1, <2>1, <2>2, <2>4, TaggedFront
  <2>6. QED
    BY <2>1, <2>3, <2>5 DEF TodoCount, FrameTodo
<1>3. ASSUME NEW p \in Pools
      PROVE  /\ IsFiniteSet(Refs!Drops(fs, p)) /\ IsFiniteSet(Refs!Drops(gs, p))
             /\ DropsCount(gs, p) = FrameDrops(Head(gs), p) + DropsCount(fs, p)
             /\ DropsCount(fs, p) \in Nat
  <2> DEFINE P == [i \in DOMAIN fs |-> Refs!Places(fs[i].pools, p)]
             Q == [i \in DOMAIN gs |-> Refs!Places(gs[i].pools, p)]
  <2>1. /\ DOMAIN P = 1 .. n /\ DOMAIN Q = 1 .. (n + 1) /\ \A i \in 1 .. n : Q[i + 1] = P[i]
        /\ Q[1] = Refs!Places(Head(gs).pools, p)
    BY <1>1
  <2>2. IsFiniteSet(Q[1])
    BY <1>1, <2>1, FrameCounts
  <2>3. Refs!Drops(fs, p) = Refs!Tagged(P) /\ Refs!Drops(gs, p) = Refs!Tagged(Q)
    BY DEF Refs!Drops
  <2>4. IsFiniteSet(Refs!Tagged(P)) \/ IsFiniteSet(Refs!Tagged(Q))
    BY <2>3 DEF FiniteFrames
  <2> HIDE DEF P, Q
  <2>5. /\ IsFiniteSet(Refs!Tagged(P)) /\ IsFiniteSet(Refs!Tagged(Q)) /\ Cardinality(Refs!Tagged(P)) \in Nat
        /\ Cardinality(Refs!Tagged(Q)) = Cardinality(Q[1]) + Cardinality(Refs!Tagged(P))
    BY <1>1, <2>1, <2>2, <2>4, TaggedFront
  <2>6. QED
    BY <2>1, <2>3, <2>5 DEF DropsCount, FrameDrops
<1>4. ASSUME NEW x \in Objects
      PROVE  /\ IsFiniteSet(Refs!Dying(fs, x)) /\ IsFiniteSet(Refs!Dying(gs, x))
             /\ DyingCount(gs, x) = FrameDies(Head(gs), x) + DyingCount(fs, x)
             /\ DyingCount(fs, x) \in Nat
  <2> DEFINE later == Refs!Dying(gs, x) \ {1}
  <2>1. /\ Refs!Dying(fs, x) \in SUBSET Nat /\ later \in SUBSET Nat
        /\ \A j \in Nat : j \in later <=> j - 1 \in Refs!Dying(fs, x)
    BY <1>1 DEF Refs!Dying
  <2>2. (1 \in Refs!Dying(gs, x)) <=> FrameDies(Head(gs), x) = 1
    BY <1>1 DEF Refs!Dying, FrameDies
  <2>3. FrameDies(Head(gs), x) \in {0, 1}
    BY DEF FrameDies
  <2>4. Refs!Dying(gs, x) = IF 1 \in Refs!Dying(gs, x) THEN later \cup {1} ELSE later
    OBVIOUS
  <2>5. 1 \notin later
    OBVIOUS
  <2>6. CASE IsFiniteSet(Refs!Dying(fs, x))
    <3> HIDE DEF later
    <3>1. /\ IsFiniteSet(later) /\ Cardinality(later) = Cardinality(Refs!Dying(fs, x))
          /\ Cardinality(Refs!Dying(fs, x)) \in Nat
      BY <2>1, <2>6, Shifted
    <3>2. IsFiniteSet(later \cup {1}) /\ Cardinality(later \cup {1}) = Cardinality(later) + 1
      BY <2>5, <3>1, FS_AddElement
    <3>3. CASE 1 \in Refs!Dying(gs, x)
      <4>1. Refs!Dying(gs, x) = later \cup {1}
        BY <2>4, <3>3
      <4>2. QED
        BY <2>2, <2>6, <3>1, <3>2, <3>3, <4>1 DEF DyingCount
    <3>4. CASE 1 \notin Refs!Dying(gs, x)
      <4>1. Refs!Dying(gs, x) = later /\ FrameDies(Head(gs), x) = 0
        BY <2>2, <2>3, <2>4, <3>4
      <4>2. QED
        BY <2>6, <3>1, <4>1 DEF DyingCount
    <3>5. QED
      BY <3>3, <3>4
  <2>7. CASE IsFiniteSet(Refs!Dying(gs, x))
    <3>1. IsFiniteSet(later)
      BY <2>7, FS_RemoveElement
    <3> HIDE DEF later
    <3>2. IsFiniteSet(Refs!Dying(fs, x))
      BY <2>1, <3>1, Shifted
    <3>3. QED
      BY <2>6, <3>2
  <2>8. QED
    BY <2>6, <2>7 DEF FiniteFrames
<1>5. FiniteFrames(fs) /\ FiniteFrames(gs)
  BY <1>1, <1>2, <1>3, <1>4 DEF FiniteFrames
<1>6. QED
  BY <1>1, <1>2, <1>3, <1>4, <1>5

\* A frame that is pushed counts once more.
LEMMA FramesPushed ==
    ASSUME NEW fs, FiniteFrames(fs), NEW f \in RefFrames
    PROVE  /\ FiniteFrames(<<f>> \o fs)
           /\ \A x \in Objects :
                 /\ TodoCount(<<f>> \o fs, x) = FrameTodo(f, x) + TodoCount(fs, x)
                 /\ TodoCount(fs, x) \in Nat /\ FrameTodo(f, x) \in Nat
                 /\ DyingCount(<<f>> \o fs, x) = FrameDies(f, x) + DyingCount(fs, x)
                 /\ DyingCount(fs, x) \in Nat
           /\ \A p \in Pools :
                 /\ DropsCount(<<f>> \o fs, p) = FrameDrops(f, p) + DropsCount(fs, p)
                 /\ DropsCount(fs, p) \in Nat /\ FrameDrops(f, p) \in Nat
<1> DEFINE gs == <<f>> \o fs
<1>1. fs \in Seq(RefFrames)
  BY DEF FiniteFrames
<1>2. gs \in Seq(RefFrames) /\ gs # <<>> /\ Head(gs) = f /\ Tail(gs) = fs
  <2>1. gs \in Seq(RefFrames) /\ Len(gs) = 1 + Len(fs) /\ gs[1] = f
        /\ \A i \in 1 .. Len(fs) : gs[i + 1] = fs[i]
    BY <1>1
  <2>2. Len(Tail(gs)) = Len(fs) /\ Tail(gs) \in Seq(RefFrames)
        /\ \A i \in 1 .. Len(fs) : Tail(gs)[i] = fs[i]
    BY <1>1, <2>1
  <2> HIDE DEF gs
  <2>3. Tail(gs) = fs
    BY <1>1, <2>2
  <2>4. QED
    BY <2>1, <2>3
<1> HIDE DEF gs
<1>3. /\ FiniteFrames(gs)
      /\ \A x \in Objects :
            /\ TodoCount(gs, x) = FrameTodo(f, x) + TodoCount(fs, x) /\ TodoCount(fs, x) \in Nat
            /\ DyingCount(gs, x) = FrameDies(f, x) + DyingCount(fs, x) /\ DyingCount(fs, x) \in Nat
      /\ \A p \in Pools :
            DropsCount(gs, p) = FrameDrops(f, p) + DropsCount(fs, p) /\ DropsCount(fs, p) \in Nat
  BY <1>2, FramesFront
<1>4. (\A x : FrameTodo(f, x) \in Nat) /\ \A p : FrameDrops(f, p) \in Nat
  BY FrameCounts
<1>5. QED
  BY <1>3, <1>4 DEF gs

\* What the properties count: the references to x in frames, pools and tables, the
\* calls of dealloc for x, and where pool p is.
FrameRefs(x) == Refs!Tagged([t \in RefThreads |-> Refs!Todo(frames[t], x)])
PoolRefs(x)  == Refs!Tagged([p \in Pools |-> Refs!Places(pool_objects[p], x)])
KvcRefs(x)   == {o \in Objects : kvc[o] = x}
AssocRefs(x) == {o \in Objects : assoc[o].val = x /\ assoc[o].retained}
CallsFor(x)  == Refs!Tagged([t \in RefThreads |-> Refs!Dying(frames[t], x)])
OnStacks(p)  == Refs!Tagged([t \in RefThreads |-> Refs!Places(pool_stacks[t], p)])
InDrains(p)  == Refs!Tagged([t \in RefThreads |-> Refs!Drops(frames[t], p)])

FrameSum(x) == Cardinality(FrameRefs(x))
PoolSum(x)  == Cardinality(PoolRefs(x))
KvcSum(x)   == Cardinality(KvcRefs(x))
AssocSum(x) == Cardinality(AssocRefs(x))
CallSum(x)  == Cardinality(CallsFor(x))
StackSum(p) == Cardinality(OnStacks(p))
DrainSum(p) == Cardinality(InDrains(p))

RefTypes == Refs!TypeOK /\ frames \in [RefThreads -> Seq(RefFrames)]

SumsFinite ==
    /\ \A x \in Objects : /\ IsFiniteSet(FrameRefs(x)) /\ IsFiniteSet(PoolRefs(x))
                          /\ IsFiniteSet(KvcRefs(x)) /\ IsFiniteSet(AssocRefs(x))
                          /\ IsFiniteSet(CallsFor(x))
    /\ \A p \in Pools : IsFiniteSet(OnStacks(p)) /\ IsFiniteSet(InDrains(p))

\* The invariant: no more references than the count says, a call of dealloc when it
\* is gone, and a pool that is alive in one place, which is a drain or a stack.
Kept(x) == owned[x] + PoolSum(x) + KvcSum(x) + AssocSum(x)
Owed(x) == Kept(x) + FrameSum(x)

OwedCounted == \A x \in Objects : Owed(x) > 0 => rc[x] >= Owed(x)

DyingOnce == \A x \in Objects : CallSum(x) = IF rc[x] = 0 THEN 1 ELSE 0

PoolOnce == \A p \in Pools :
    /\ StackSum(p) + DrainSum(p) = IF rc[p] = -1 THEN 0 ELSE 1
    /\ StackSum(p) = 1 => rc[p] = 1

\* An association that is released is one of an object.
RetainedThere == \A o \in Objects : assoc[o].retained => assoc[o].val \in Objects

RefsInv ==
    /\ RefTypes /\ SumsFinite /\ RetainedThere
    /\ OwedCounted /\ DyingOnce /\ PoolOnce
    /\ Refs!WeakTableExact

LEMMA SumsNat ==
    ASSUME SumsFinite
    PROVE  /\ \A x \in Objects : /\ FrameSum(x) \in Nat /\ PoolSum(x) \in Nat /\ KvcSum(x) \in Nat
                                 /\ AssocSum(x) \in Nat /\ CallSum(x) \in Nat
           /\ \A p \in Pools : StackSum(p) \in Nat /\ DrainSum(p) \in Nat
  BY FS_CardinalityType DEF SumsFinite, FrameSum, PoolSum, KvcSum, AssocSum, CallSum, StackSum, DrainSum

\* A sum with one summand replaced.
LEMMA SumsSame ==
    /\ UNCHANGED frames => /\ \A x : /\ FrameRefs(x)' = FrameRefs(x) /\ CallsFor(x)' = CallsFor(x)
                                     /\ FrameSum(x)' = FrameSum(x) /\ CallSum(x)' = CallSum(x)
                           /\ \A p : InDrains(p)' = InDrains(p) /\ DrainSum(p)' = DrainSum(p)
    /\ UNCHANGED pool_objects => \A x : PoolRefs(x)' = PoolRefs(x) /\ PoolSum(x)' = PoolSum(x)
    /\ UNCHANGED pool_stacks => \A p : OnStacks(p)' = OnStacks(p) /\ StackSum(p)' = StackSum(p)
    /\ UNCHANGED kvc => \A x : KvcRefs(x)' = KvcRefs(x) /\ KvcSum(x)' = KvcSum(x)
    /\ UNCHANGED assoc => \A x : AssocRefs(x)' = AssocRefs(x) /\ AssocSum(x)' = AssocSum(x)
<1>1. UNCHANGED frames => /\ \A x : /\ FrameRefs(x)' = FrameRefs(x) /\ CallsFor(x)' = CallsFor(x)
                                    /\ FrameSum(x)' = FrameSum(x) /\ CallSum(x)' = CallSum(x)
                          /\ \A p : InDrains(p)' = InDrains(p) /\ DrainSum(p)' = DrainSum(p)
  BY DEF FrameRefs, CallsFor, InDrains, FrameSum, CallSum, DrainSum
<1>2. UNCHANGED pool_objects => \A x : PoolRefs(x)' = PoolRefs(x) /\ PoolSum(x)' = PoolSum(x)
  BY DEF PoolRefs, PoolSum
<1>3. UNCHANGED pool_stacks => \A p : OnStacks(p)' = OnStacks(p) /\ StackSum(p)' = StackSum(p)
  BY DEF OnStacks, StackSum
<1>4. UNCHANGED kvc => \A x : KvcRefs(x)' = KvcRefs(x) /\ KvcSum(x)' = KvcSum(x)
  BY DEF KvcRefs, KvcSum
<1>5. UNCHANGED assoc => \A x : AssocRefs(x)' = AssocRefs(x) /\ AssocSum(x)' = AssocSum(x)
  BY DEF AssocRefs, AssocSum
<1>6. QED
  BY <1>1, <1>2, <1>3, <1>4, <1>5

LEMMA ThreadFrames ==
    ASSUME RefTypes, SumsFinite, NEW t \in RefThreads
    PROVE  /\ FiniteFrames(frames[t])
           /\ \A x \in Objects : /\ TodoCount(frames[t], x) \in Nat
                                 /\ TodoCount(frames[t], x) <= FrameSum(x)
                                 /\ DyingCount(frames[t], x) \in Nat
                                 /\ DyingCount(frames[t], x) <= CallSum(x)
           /\ \A p \in Pools : /\ DropsCount(frames[t], p) \in Nat
                               /\ DropsCount(frames[t], p) <= DrainSum(p)
<1>1. ASSUME NEW x \in Objects
      PROVE  /\ IsFiniteSet(Refs!Todo(frames[t], x)) /\ TodoCount(frames[t], x) \in Nat
             /\ TodoCount(frames[t], x) <= FrameSum(x)
  <2> DEFINE P == [u \in RefThreads |-> Refs!Todo(frames[u], x)]
  <2>1. IsFiniteSet(Refs!Tagged(P)) /\ DOMAIN P = RefThreads /\ P[t] = Refs!Todo(frames[t], x)
    BY DEF SumsFinite, FrameRefs
  <2> HIDE DEF P
  <2>2. Refs!Tagged(P) = FrameRefs(x)
    BY DEF FrameRefs, P
  <2>3. QED
    BY <2>1, <2>2, TaggedPart DEF TodoCount, FrameSum
<1>2. ASSUME NEW x \in Objects
      PROVE  /\ IsFiniteSet(Refs!Dying(frames[t], x)) /\ DyingCount(frames[t], x) \in Nat
             /\ DyingCount(frames[t], x) <= CallSum(x)
  <2> DEFINE P == [u \in RefThreads |-> Refs!Dying(frames[u], x)]
  <2>1. IsFiniteSet(Refs!Tagged(P)) /\ DOMAIN P = RefThreads /\ P[t] = Refs!Dying(frames[t], x)
    BY DEF SumsFinite, CallsFor
  <2> HIDE DEF P
  <2>2. Refs!Tagged(P) = CallsFor(x)
    BY DEF CallsFor, P
  <2>3. QED
    BY <2>1, <2>2, TaggedPart DEF DyingCount, CallSum
<1>3. ASSUME NEW p \in Pools
      PROVE  /\ IsFiniteSet(Refs!Drops(frames[t], p)) /\ DropsCount(frames[t], p) \in Nat
             /\ DropsCount(frames[t], p) <= DrainSum(p)
  <2> DEFINE P == [u \in RefThreads |-> Refs!Drops(frames[u], p)]
  <2>1. IsFiniteSet(Refs!Tagged(P)) /\ DOMAIN P = RefThreads /\ P[t] = Refs!Drops(frames[t], p)
    BY DEF SumsFinite, InDrains
  <2> HIDE DEF P
  <2>2. Refs!Tagged(P) = InDrains(p)
    BY DEF InDrains, P
  <2>3. QED
    BY <2>1, <2>2, TaggedPart DEF DropsCount, DrainSum
<1>4. frames[t] \in Seq(RefFrames)
  BY DEF RefTypes
<1>5. QED
  BY <1>1, <1>2, <1>3, <1>4 DEF FiniteFrames

\* Thread t goes on with other frames.
LEMMA FramesChanged ==
    ASSUME RefTypes, SumsFinite, NEW t \in RefThreads, NEW new, FiniteFrames(new),
           frames' = [frames EXCEPT ![t] = new]
    PROVE  /\ frames' \in [RefThreads -> Seq(RefFrames)]
           /\ \A x \in Objects :
                 /\ IsFiniteSet(FrameRefs(x)') /\ IsFiniteSet(CallsFor(x)')
                 /\ FrameSum(x)' = FrameSum(x) - TodoCount(frames[t], x) + TodoCount(new, x)
                 /\ CallSum(x)' = CallSum(x) - DyingCount(frames[t], x) + DyingCount(new, x)
           /\ \A p \in Pools :
                 /\ IsFiniteSet(InDrains(p)')
                 /\ DrainSum(p)' = DrainSum(p) - DropsCount(frames[t], p) + DropsCount(new, p)
<1>1. /\ frames' \in [RefThreads -> Seq(RefFrames)]
      /\ frames'[t] = new /\ \A u \in RefThreads \ {t} : frames'[u] = frames[u]
  BY DEF RefTypes, FiniteFrames
<1>2. ASSUME NEW x \in Objects
      PROVE  /\ IsFiniteSet(FrameRefs(x)')
             /\ FrameSum(x)' = FrameSum(x) - TodoCount(frames[t], x) + TodoCount(new, x)
  <2> DEFINE P == [u \in RefThreads |-> Refs!Todo(frames[u], x)]
             Q == [u \in RefThreads |-> Refs!Todo(frames'[u], x)]
  <2>1. /\ P[t] = Refs!Todo(frames[t], x) /\ Q[t] = Refs!Todo(new, x) /\ DOMAIN P = RefThreads
        /\ DOMAIN Q = RefThreads /\ \A u \in RefThreads \ {t} : Q[u] = P[u]
        /\ IsFiniteSet(Q[t])
    BY <1>1 DEF FiniteFrames
  <2>2. FrameRefs(x) = Refs!Tagged(P) /\ FrameRefs(x)' = Refs!Tagged(Q)
    BY DEF FrameRefs
  <2> HIDE DEF P, Q
  <2>3. IsFiniteSet(Refs!Tagged(P))
    BY <2>2 DEF SumsFinite
  <2>4. /\ IsFiniteSet(Refs!Tagged(Q))
        /\ Cardinality(Refs!Tagged(Q)) = Cardinality(Refs!Tagged(P)) - Cardinality(P[t]) + Cardinality(Q[t])
    BY <2>1, <2>3, TaggedChange
  <2>5. QED
    BY <2>1, <2>2, <2>4 DEF FrameSum, TodoCount
<1>3. ASSUME NEW x \in Objects
      PROVE  /\ IsFiniteSet(CallsFor(x)')
             /\ CallSum(x)' = CallSum(x) - DyingCount(frames[t], x) + DyingCount(new, x)
  <2> DEFINE P == [u \in RefThreads |-> Refs!Dying(frames[u], x)]
             Q == [u \in RefThreads |-> Refs!Dying(frames'[u], x)]
  <2>1. /\ P[t] = Refs!Dying(frames[t], x) /\ Q[t] = Refs!Dying(new, x) /\ DOMAIN P = RefThreads
        /\ DOMAIN Q = RefThreads /\ \A u \in RefThreads \ {t} : Q[u] = P[u]
        /\ IsFiniteSet(Q[t])
    BY <1>1 DEF FiniteFrames
  <2>2. CallsFor(x) = Refs!Tagged(P) /\ CallsFor(x)' = Refs!Tagged(Q)
    BY DEF CallsFor
  <2> HIDE DEF P, Q
  <2>3. IsFiniteSet(Refs!Tagged(P))
    BY <2>2 DEF SumsFinite
  <2>4. /\ IsFiniteSet(Refs!Tagged(Q))
        /\ Cardinality(Refs!Tagged(Q)) = Cardinality(Refs!Tagged(P)) - Cardinality(P[t]) + Cardinality(Q[t])
    BY <2>1, <2>3, TaggedChange
  <2>5. QED
    BY <2>1, <2>2, <2>4 DEF CallSum, DyingCount
<1>4. ASSUME NEW p \in Pools
      PROVE  /\ IsFiniteSet(InDrains(p)')
             /\ DrainSum(p)' = DrainSum(p) - DropsCount(frames[t], p) + DropsCount(new, p)
  <2> DEFINE P == [u \in RefThreads |-> Refs!Drops(frames[u], p)]
             Q == [u \in RefThreads |-> Refs!Drops(frames'[u], p)]
  <2>1. /\ P[t] = Refs!Drops(frames[t], p) /\ Q[t] = Refs!Drops(new, p) /\ DOMAIN P = RefThreads
        /\ DOMAIN Q = RefThreads /\ \A u \in RefThreads \ {t} : Q[u] = P[u]
        /\ IsFiniteSet(Q[t])
    BY <1>1 DEF FiniteFrames
  <2>2. InDrains(p) = Refs!Tagged(P) /\ InDrains(p)' = Refs!Tagged(Q)
    BY DEF InDrains
  <2> HIDE DEF P, Q
  <2>3. IsFiniteSet(Refs!Tagged(P))
    BY <2>2 DEF SumsFinite
  <2>4. /\ IsFiniteSet(Refs!Tagged(Q))
        /\ Cardinality(Refs!Tagged(Q)) = Cardinality(Refs!Tagged(P)) - Cardinality(P[t]) + Cardinality(Q[t])
    BY <2>1, <2>3, TaggedChange
  <2>5. QED
    BY <2>1, <2>2, <2>4 DEF DrainSum, DropsCount
<1>5. QED
  BY <1>1, <1>2, <1>3, <1>4

LEMMA PoolChanged ==
    ASSUME RefTypes, SumsFinite, NEW p \in Pools, NEW s \in Seq(Objects),
           pool_objects' = [pool_objects EXCEPT ![p] = s]
    PROVE  /\ pool_objects' \in [Pools -> Seq(Objects)]
           /\ \A x \in Objects :
                 /\ IsFiniteSet(PoolRefs(x)')
                 /\ PoolSum(x)' = PoolSum(x) - Cardinality(Refs!Places(pool_objects[p], x))
                                             + Cardinality(Refs!Places(s, x))
<1>1. /\ pool_objects \in [Pools -> Seq(Objects)] /\ pool_objects' \in [Pools -> Seq(Objects)]
      /\ pool_objects'[p] = s /\ \A q \in Pools \ {p} : pool_objects'[q] = pool_objects[q]
  BY DEF RefTypes, Refs!TypeOK
<1>2. ASSUME NEW x \in Objects
      PROVE  /\ IsFiniteSet(PoolRefs(x)')
             /\ PoolSum(x)' = PoolSum(x) - Cardinality(Refs!Places(pool_objects[p], x))
                                         + Cardinality(Refs!Places(s, x))
  <2> DEFINE P == [q \in Pools |-> Refs!Places(pool_objects[q], x)]
             Q == [q \in Pools |-> Refs!Places(pool_objects'[q], x)]
  <2>1. /\ P[p] = Refs!Places(pool_objects[p], x) /\ Q[p] = Refs!Places(s, x) /\ DOMAIN P = Pools
        /\ DOMAIN Q = Pools /\ \A q \in Pools \ {p} : Q[q] = P[q]
    BY <1>1
  <2>2. IsFiniteSet(Q[p])
    BY <2>1, PlacesCount
  <2>3. PoolRefs(x) = Refs!Tagged(P) /\ PoolRefs(x)' = Refs!Tagged(Q)
    BY DEF PoolRefs
  <2> HIDE DEF P, Q
  <2>4. IsFiniteSet(Refs!Tagged(P))
    BY <2>3 DEF SumsFinite
  <2>5. /\ IsFiniteSet(Refs!Tagged(Q))
        /\ Cardinality(Refs!Tagged(Q)) = Cardinality(Refs!Tagged(P)) - Cardinality(P[p]) + Cardinality(Q[p])
    BY <2>1, <2>2, <2>4, TaggedChange
  <2>6. QED
    BY <2>1, <2>3, <2>5 DEF PoolSum
<1>3. QED
  BY <1>1, <1>2

LEMMA StackChanged ==
    ASSUME RefTypes, SumsFinite, NEW t \in RefThreads, NEW s \in Seq(Pools),
           pool_stacks' = [pool_stacks EXCEPT ![t] = s]
    PROVE  /\ pool_stacks' \in [RefThreads -> Seq(Pools)]
           /\ \A p \in Pools :
                 /\ IsFiniteSet(OnStacks(p)')
                 /\ StackSum(p)' = StackSum(p) - Cardinality(Refs!Places(pool_stacks[t], p))
                                               + Cardinality(Refs!Places(s, p))
                 /\ Cardinality(Refs!Places(pool_stacks[t], p)) <= StackSum(p)
<1>1. /\ pool_stacks \in [RefThreads -> Seq(Pools)] /\ pool_stacks' \in [RefThreads -> Seq(Pools)]
      /\ pool_stacks'[t] = s /\ \A u \in RefThreads \ {t} : pool_stacks'[u] = pool_stacks[u]
  BY DEF RefTypes, Refs!TypeOK
<1>2. ASSUME NEW x \in Pools
      PROVE  /\ IsFiniteSet(OnStacks(x)')
             /\ StackSum(x)' = StackSum(x) - Cardinality(Refs!Places(pool_stacks[t], x))
                                         + Cardinality(Refs!Places(s, x))
             /\ Cardinality(Refs!Places(pool_stacks[t], x)) <= StackSum(x)
  <2> DEFINE P == [u \in RefThreads |-> Refs!Places(pool_stacks[u], x)]
             Q == [u \in RefThreads |-> Refs!Places(pool_stacks'[u], x)]
  <2>1. /\ P[t] = Refs!Places(pool_stacks[t], x) /\ Q[t] = Refs!Places(s, x) /\ DOMAIN P = RefThreads
        /\ DOMAIN Q = RefThreads /\ \A u \in RefThreads \ {t} : Q[u] = P[u]
    BY <1>1
  <2>2. IsFiniteSet(Q[t])
    BY <2>1, PlacesCount
  <2>3. OnStacks(x) = Refs!Tagged(P) /\ OnStacks(x)' = Refs!Tagged(Q)
    BY DEF OnStacks
  <2> HIDE DEF P, Q
  <2>4. IsFiniteSet(Refs!Tagged(P))
    BY <2>3 DEF SumsFinite
  <2>5. /\ IsFiniteSet(Refs!Tagged(Q)) /\ Cardinality(P[t]) <= Cardinality(Refs!Tagged(P))
        /\ Cardinality(Refs!Tagged(Q)) = Cardinality(Refs!Tagged(P)) - Cardinality(P[t]) + Cardinality(Q[t])
    BY <2>1, <2>2, <2>4, TaggedChange
  <2>6. QED
    BY <2>1, <2>3, <2>5 DEF StackSum
<1>3. QED
  BY <1>1, <1>2

\* One member more or less, or not.
LEMMA OneChanged ==
    ASSUME NEW S, NEW T, NEW o, IsFiniteSet(S), T \ {o} = S \ {o}
    PROVE  /\ IsFiniteSet(T)
           /\ Cardinality(T) = Cardinality(S) - (IF o \in S THEN 1 ELSE 0) + (IF o \in T THEN 1 ELSE 0)
<1> DEFINE U == S \ {o}
<1>1. /\ IsFiniteSet(U) /\ Cardinality(U) = Cardinality(S) - (IF o \in S THEN 1 ELSE 0)
      /\ Cardinality(U) \in Nat
  <2>1. /\ IsFiniteSet(U) /\ Cardinality(S) \in Nat
        /\ Cardinality(U) = IF o \in S THEN Cardinality(S) - 1 ELSE Cardinality(S)
    BY FS_RemoveElement, FS_CardinalityType
  <2> HIDE DEF U
  <2>2. QED
    BY <2>1, FS_CardinalityType
<1>2. CASE o \in T
  <2>1. T = U \cup {o} /\ o \notin U
    BY <1>2
  <2> HIDE DEF U
  <2>2. QED
    BY <1>1, <1>2, <2>1, FS_AddElement
<1>3. CASE o \notin T
  <2>1. T = U
    BY <1>3
  <2> HIDE DEF U
  <2>2. QED
    BY <1>1, <1>3, <2>1
<1>4. QED
  BY <1>2, <1>3

LEMMA TablesChanged ==
    ASSUME RefTypes, SumsFinite, NEW o \in Objects
    PROVE  /\ \A v \in Objects \cup {Nil} : kvc' = [kvc EXCEPT ![o] = v] =>
                 /\ kvc' \in [Objects -> Objects \cup {Nil}]
                 /\ \A x \in Objects :
                       /\ IsFiniteSet(KvcRefs(x)')
                       /\ KvcSum(x)' = KvcSum(x) - (IF kvc[o] = x THEN 1 ELSE 0)
                                                 + (IF v = x THEN 1 ELSE 0)
           /\ \A a \in [val : Objects \cup {Nil}, retained : BOOLEAN] :
                 assoc' = [assoc EXCEPT ![o] = a] =>
                 /\ assoc' \in [Objects -> [val : Objects \cup {Nil}, retained : BOOLEAN]]
                 /\ \A x \in Objects :
                       /\ IsFiniteSet(AssocRefs(x)')
                       /\ AssocSum(x)' = AssocSum(x)
                             - (IF assoc[o].val = x /\ assoc[o].retained THEN 1 ELSE 0)
                             + (IF a.val = x /\ a.retained THEN 1 ELSE 0)
<1>1. ASSUME NEW v \in Objects \cup {Nil}, kvc' = [kvc EXCEPT ![o] = v]
      PROVE  /\ kvc' \in [Objects -> Objects \cup {Nil}]
             /\ \A x \in Objects :
                   /\ IsFiniteSet(KvcRefs(x)')
                   /\ KvcSum(x)' = KvcSum(x) - (IF kvc[o] = x THEN 1 ELSE 0)
                                             + (IF v = x THEN 1 ELSE 0)
  <2>1. /\ kvc' \in [Objects -> Objects \cup {Nil}]
        /\ kvc'[o] = v /\ \A q \in Objects \ {o} : kvc'[q] = kvc[q]
    BY <1>1 DEF RefTypes, Refs!TypeOK
  <2>2. ASSUME NEW x \in Objects
        PROVE  /\ IsFiniteSet(KvcRefs(x)')
               /\ KvcSum(x)' = KvcSum(x) - (IF kvc[o] = x THEN 1 ELSE 0) + (IF v = x THEN 1 ELSE 0)
    <3>1. /\ KvcRefs(x)' \ {o} = KvcRefs(x) \ {o} /\ (o \in KvcRefs(x) <=> kvc[o] = x)
          /\ o \in KvcRefs(x)' <=> v = x
      BY <2>1 DEF KvcRefs
    <3>2. IsFiniteSet(KvcRefs(x))
      BY DEF SumsFinite
    <3>3. /\ IsFiniteSet(KvcRefs(x)')
          /\ Cardinality(KvcRefs(x)') = Cardinality(KvcRefs(x)) - (IF o \in KvcRefs(x) THEN 1 ELSE 0)
                                        + (IF o \in KvcRefs(x)' THEN 1 ELSE 0)
      BY <3>1, <3>2, OneChanged
    <3>4. QED
      BY <3>1, <3>3 DEF KvcSum
  <2>3. QED
    BY <2>1, <2>2
<1>2. ASSUME NEW a \in [val : Objects \cup {Nil}, retained : BOOLEAN],
             assoc' = [assoc EXCEPT ![o] = a]
      PROVE  /\ assoc' \in [Objects -> [val : Objects \cup {Nil}, retained : BOOLEAN]]
             /\ \A x \in Objects :
                   /\ IsFiniteSet(AssocRefs(x)')
                   /\ AssocSum(x)' = AssocSum(x)
                         - (IF assoc[o].val = x /\ assoc[o].retained THEN 1 ELSE 0)
                         + (IF a.val = x /\ a.retained THEN 1 ELSE 0)
  <2>1. /\ assoc' \in [Objects -> [val : Objects \cup {Nil}, retained : BOOLEAN]]
        /\ assoc'[o] = a /\ \A q \in Objects \ {o} : assoc'[q] = assoc[q]
    BY <1>2 DEF RefTypes, Refs!TypeOK
  <2>2. ASSUME NEW x \in Objects
        PROVE  /\ IsFiniteSet(AssocRefs(x)')
               /\ AssocSum(x)' = AssocSum(x)
                         - (IF assoc[o].val = x /\ assoc[o].retained THEN 1 ELSE 0)
                         + (IF a.val = x /\ a.retained THEN 1 ELSE 0)
    <3>1. /\ AssocRefs(x)' \ {o} = AssocRefs(x) \ {o}
          /\ o \in AssocRefs(x) <=> assoc[o].val = x /\ assoc[o].retained
          /\ o \in AssocRefs(x)' <=> a.val = x /\ a.retained
      BY <2>1 DEF AssocRefs
    <3>2. IsFiniteSet(AssocRefs(x))
      BY DEF SumsFinite
    <3>3. /\ IsFiniteSet(AssocRefs(x)')
          /\ Cardinality(AssocRefs(x)') = Cardinality(AssocRefs(x)) - (IF o \in AssocRefs(x) THEN 1 ELSE 0)
                                        + (IF o \in AssocRefs(x)' THEN 1 ELSE 0)
      BY <3>1, <3>2, OneChanged
    <3>4. QED
      BY <3>1, <3>3 DEF AssocSum
  <2>3. QED
    BY <2>1, <2>2
<1>3. QED
  BY <1>1, <1>2

\* addObject adds at most one reference, to x.
LEMMA PoolAdded ==
    ASSUME RefTypes, SumsFinite, NEW t \in RefThreads, NEW x \in Objects, Refs!addObject(t, x)
    PROVE  /\ pool_objects' \in [Pools -> Seq(Objects)]
           /\ \A y \in Objects :
                 /\ IsFiniteSet(PoolRefs(y)')
                 /\ PoolSum(y)' <= PoolSum(y) + (IF y = x THEN 1 ELSE 0)
<1>1. pool_objects \in [Pools -> Seq(Objects)] /\ pool_stacks \in [RefThreads -> Seq(Pools)]
  BY DEF RefTypes, Refs!TypeOK
<1>2. CASE pool_stacks[t] = <<>>
  <2>1. UNCHANGED pool_objects
    BY <1>2 DEF Refs!addObject
  <2>2. \A y \in Objects : PoolRefs(y)' = PoolRefs(y) /\ PoolSum(y)' = PoolSum(y) /\ PoolSum(y) \in Nat
    BY <2>1, SumsSame, SumsNat
  <2>3. QED
    BY <1>1, <2>1, <2>2 DEF SumsFinite
<1>3. CASE pool_stacks[t] # <<>>
  <2>1. PICK p \in Pools : p = Refs!Last(pool_stacks[t])
    BY <1>1, <1>3 DEF Refs!Last
  <2>2. pool_objects' = [pool_objects EXCEPT ![p] = Append(pool_objects[p], x)]
    BY <1>3, <2>1 DEF Refs!addObject
  <2>3. pool_objects[p] \in Seq(Objects) /\ Append(pool_objects[p], x) \in Seq(Objects)
    BY <1>1
  <2>4. \A y \in Objects :
           /\ Cardinality(Refs!Places(Append(pool_objects[p], x), y))
                = Cardinality(Refs!Places(pool_objects[p], y)) + (IF x = y THEN 1 ELSE 0)
           /\ Cardinality(Refs!Places(pool_objects[p], y)) \in Nat
    BY <2>3, PlacesAppend, PlacesCount
  <2>5. /\ pool_objects' \in [Pools -> Seq(Objects)]
        /\ \A y \in Objects :
              /\ IsFiniteSet(PoolRefs(y)') /\ PoolSum(y) \in Nat
              /\ PoolSum(y)' = PoolSum(y) - Cardinality(Refs!Places(pool_objects[p], y))
                                          + Cardinality(Refs!Places(Append(pool_objects[p], x), y))
    BY <2>2, <2>3, PoolChanged, SumsNat
  <2>6. QED
    BY <2>4, <2>5
<1>4. QED
  BY <1>2, <1>3

LEMMA FrameKinds ==
    /\ \A o \in Objects :
          /\ Refs!Dealloc(o) \in RefFrames
          /\ \A x : FrameTodo(Refs!Dealloc(o), x) = 0 /\ FrameDrops(Refs!Dealloc(o), x) = 0
                    /\ FrameDies(Refs!Dealloc(o), x) = IF o = x THEN 1 ELSE 0
    /\ \A o \in Objects, vs \in Seq(Objects) :
          /\ Refs!KvcLoop(o, vs) \in RefFrames
          /\ \A x : /\ FrameTodo(Refs!KvcLoop(o, vs), x) = Cardinality(Refs!Places(vs, x))
                    /\ FrameDrops(Refs!KvcLoop(o, vs), x) = 0
                    /\ FrameDies(Refs!KvcLoop(o, vs), x) = IF o = x THEN 1 ELSE 0
    /\ \A ps \in Seq(Pools), vs \in Seq(Objects) :
          /\ Refs!Drain(ps, vs) \in RefFrames
          /\ \A x : /\ FrameTodo(Refs!Drain(ps, vs), x) = Cardinality(Refs!Places(vs, x))
                    /\ FrameDrops(Refs!Drain(ps, vs), x) = Cardinality(Refs!Places(ps, x))
                    /\ FrameDies(Refs!Drain(ps, vs), x) = 0
    /\ \A o \in Objects, v \in Objects :
          /\ Refs!SetAssoc(o, v) \in RefFrames
          /\ \A x : /\ FrameTodo(Refs!SetAssoc(o, v), x) = IF v = x THEN 1 ELSE 0
                    /\ FrameDrops(Refs!SetAssoc(o, v), x) = 0
                    /\ FrameDies(Refs!SetAssoc(o, v), x) = 0
<1>1. ASSUME NEW o \in Objects
      PROVE  /\ Refs!Dealloc(o) \in RefFrames
             /\ \A x : FrameTodo(Refs!Dealloc(o), x) = 0 /\ FrameDrops(Refs!Dealloc(o), x) = 0
                       /\ FrameDies(Refs!Dealloc(o), x) = IF o = x THEN 1 ELSE 0
  <2>1. Refs!Dealloc(o) \in RefFrames
    BY DEF Refs!Dealloc, RefFrames
  <2>2. Refs!Dealloc(o).todo = <<>> /\ Refs!Dealloc(o).pools = <<>>
        /\ Refs!Dealloc(o).kind = "dealloc" /\ Refs!Dealloc(o).obj = o
    BY DEF Refs!Dealloc
  <2>3. QED
    BY <2>1, <2>2, PlacesEmpty DEF FrameTodo, FrameDrops, FrameDies
<1>2. ASSUME NEW o \in Objects, NEW vs \in Seq(Objects)
      PROVE  /\ Refs!KvcLoop(o, vs) \in RefFrames
             /\ \A x : /\ FrameTodo(Refs!KvcLoop(o, vs), x) = Cardinality(Refs!Places(vs, x))
                       /\ FrameDrops(Refs!KvcLoop(o, vs), x) = 0
                       /\ FrameDies(Refs!KvcLoop(o, vs), x) = IF o = x THEN 1 ELSE 0
  <2>1. Refs!KvcLoop(o, vs) \in RefFrames
    BY DEF Refs!KvcLoop, RefFrames
  <2>2. Refs!KvcLoop(o, vs).todo = vs /\ Refs!KvcLoop(o, vs).pools = <<>>
        /\ Refs!KvcLoop(o, vs).kind = "kvc" /\ Refs!KvcLoop(o, vs).obj = o
    BY DEF Refs!KvcLoop
  <2>3. QED
    BY <2>1, <2>2, PlacesEmpty DEF FrameTodo, FrameDrops, FrameDies
<1>3. ASSUME NEW ps \in Seq(Pools), NEW vs \in Seq(Objects)
      PROVE  /\ Refs!Drain(ps, vs) \in RefFrames
             /\ \A x : /\ FrameTodo(Refs!Drain(ps, vs), x) = Cardinality(Refs!Places(vs, x))
                       /\ FrameDrops(Refs!Drain(ps, vs), x) = Cardinality(Refs!Places(ps, x))
                       /\ FrameDies(Refs!Drain(ps, vs), x) = 0
  <2>1. Refs!Drain(ps, vs) \in RefFrames
    BY DEF Refs!Drain, RefFrames
  <2>2. Refs!Drain(ps, vs).todo = vs /\ Refs!Drain(ps, vs).pools = ps /\ Refs!Drain(ps, vs).kind = "drain"
    BY DEF Refs!Drain
  <2>3. QED
    BY <2>1, <2>2 DEF FrameTodo, FrameDrops, FrameDies
<1>4. ASSUME NEW o \in Objects, NEW v \in Objects
      PROVE  /\ Refs!SetAssoc(o, v) \in RefFrames
             /\ \A x : /\ FrameTodo(Refs!SetAssoc(o, v), x) = IF v = x THEN 1 ELSE 0
                       /\ FrameDrops(Refs!SetAssoc(o, v), x) = 0
                       /\ FrameDies(Refs!SetAssoc(o, v), x) = 0
  <2>1. Refs!SetAssoc(o, v) \in RefFrames
    BY DEF Refs!SetAssoc, RefFrames
  <2>2. Refs!SetAssoc(o, v).todo = <<v>> /\ Refs!SetAssoc(o, v).pools = <<>> /\ Refs!SetAssoc(o, v).kind = "assoc"
    BY DEF Refs!SetAssoc
  <2>3. QED
    BY <2>1, <2>2, PlacesEmpty, PlacesOne DEF FrameTodo, FrameDrops, FrameDies
<1>5. QED
  BY <1>1, <1>2, <1>3, <1>4

\* The innermost frame of t, and the frames that it was called from.
LEMMA FrameTop ==
    ASSUME RefTypes, SumsFinite, NEW t \in RefThreads, frames[t] # <<>>
    PROVE  /\ Refs!Top(t) = Head(frames[t]) /\ Refs!Top(t) \in RefFrames
           /\ FiniteFrames(Tail(frames[t]))
           /\ \A x \in Objects :
                 /\ TodoCount(frames[t], x) = FrameTodo(Refs!Top(t), x) + TodoCount(Tail(frames[t]), x)
                 /\ DyingCount(frames[t], x) = FrameDies(Refs!Top(t), x) + DyingCount(Tail(frames[t]), x)
                 /\ TodoCount(Tail(frames[t]), x) \in Nat /\ DyingCount(Tail(frames[t]), x) \in Nat
                 /\ FrameTodo(Refs!Top(t), x) \in Nat
           /\ \A p \in Pools :
                 /\ DropsCount(frames[t], p) = FrameDrops(Refs!Top(t), p) + DropsCount(Tail(frames[t]), p)
                 /\ DropsCount(Tail(frames[t]), p) \in Nat /\ FrameDrops(Refs!Top(t), p) \in Nat
<1>1. Refs!Top(t) = Head(frames[t])
  BY DEF Refs!Top
<1>2. frames[t] \in Seq(RefFrames) /\ FiniteFrames(frames[t])
  BY ThreadFrames DEF RefTypes
<1>3. QED
  BY <1>1, <1>2, FramesFront, FrameCounts

\* A step of a host function that finds the frame it needs.
LEMMA TopThere ==
    ASSUME NEW t \in RefThreads, Refs!Top(t).kind # "guest"
    PROVE  frames[t] # <<>>
  BY DEF Refs!Top, Refs!GuestCode

\* What a release does, when the frames are rest but for the dealloc it may call.
LEMMA Released ==
    ASSUME Refs!RefsAssumption, RefTypes, SumsFinite, NEW t \in RefThreads, NEW x \in Objects,
           NEW rest, FiniteFrames(rest), Refs!SendRelease(t, x, rest)
    PROVE  /\ rc' \in [Objects \cup Pools -> -1 .. MaxRefs]
           /\ \A y \in Objects \cup Pools :
                 rc'[y] = IF y = x /\ rc[x] > 0 THEN rc[x] - 1 ELSE rc[y]
           /\ frames' \in [RefThreads -> Seq(RefFrames)]
           /\ \A y \in Objects :
                 /\ IsFiniteSet(FrameRefs(y)') /\ IsFiniteSet(CallsFor(y)')
                 /\ FrameSum(y)' = FrameSum(y) - TodoCount(frames[t], y) + TodoCount(rest, y)
                 /\ CallSum(y)' = CallSum(y) - DyingCount(frames[t], y) + DyingCount(rest, y)
                                             + (IF y = x /\ rc[x] = 1 THEN 1 ELSE 0)
           /\ \A p \in Pools :
                 /\ IsFiniteSet(InDrains(p)') /\ rc'[p] = rc[p]
                 /\ DrainSum(p)' = DrainSum(p) - DropsCount(frames[t], p) + DropsCount(rest, p)
<1>1. rc \in [Objects \cup Pools -> -1 .. MaxRefs] /\ MaxRefs \in Nat /\ x \notin Pools
  BY DEF RefTypes, Refs!TypeOK, Refs!RefsAssumption, Refs!Absent
<1>2. /\ rc' \in [Objects \cup Pools -> -1 .. MaxRefs]
      /\ \A y \in Objects \cup Pools : rc'[y] = IF y = x /\ rc[x] > 0 THEN rc[x] - 1 ELSE rc[y]
  <2>1. rc' = IF rc[x] > 0 THEN [rc EXCEPT ![x] = rc[x] - 1] ELSE rc
    BY DEF Refs!SendRelease, Refs!None
  <2>2. rc[x] \in -1 .. MaxRefs /\ (rc[x] > 0 => rc[x] - 1 \in -1 .. MaxRefs)
    BY <1>1
  <2>3. QED
    BY <1>1, <2>1, <2>2
<1>3. PICK new : /\ new = IF rc[x] = 1 THEN <<Refs!Dealloc(x)>> \o rest ELSE rest
                 /\ frames' = [frames EXCEPT ![t] = new]
  BY DEF Refs!SendRelease
<1>4. /\ FiniteFrames(new)
      /\ \A y \in Objects : /\ TodoCount(new, y) = TodoCount(rest, y)
                            /\ DyingCount(new, y) = DyingCount(rest, y)
                                      + (IF y = x /\ rc[x] = 1 THEN 1 ELSE 0)
                            /\ DyingCount(rest, y) \in Nat
      /\ \A p \in Pools : DropsCount(new, p) = DropsCount(rest, p)
  <2>1. \A y \in Objects : DyingCount(rest, y) \in Nat
    BY FS_CardinalityType DEF FiniteFrames, DyingCount
  <2>2. CASE rc[x] = 1
    <3>1. new = <<Refs!Dealloc(x)>> \o rest
      BY <1>3, <2>2
    <3>2. /\ Refs!Dealloc(x) \in RefFrames
          /\ \A y : /\ FrameTodo(Refs!Dealloc(x), y) = 0 /\ FrameDrops(Refs!Dealloc(x), y) = 0
                    /\ FrameDies(Refs!Dealloc(x), y) = IF x = y THEN 1 ELSE 0
      BY FrameKinds
    <3>3. /\ FiniteFrames(new)
          /\ \A y \in Objects :
                /\ TodoCount(new, y) = FrameTodo(Refs!Dealloc(x), y) + TodoCount(rest, y)
                /\ TodoCount(rest, y) \in Nat
                /\ DyingCount(new, y) = FrameDies(Refs!Dealloc(x), y) + DyingCount(rest, y)
          /\ \A p \in Pools :
                /\ DropsCount(new, p) = FrameDrops(Refs!Dealloc(x), p) + DropsCount(rest, p)
                /\ DropsCount(rest, p) \in Nat
      BY <3>1, <3>2, FramesPushed
    <3>4. QED
      BY <2>1, <2>2, <3>2, <3>3
  <2>3. CASE rc[x] # 1
    BY <1>3, <2>1, <2>3
  <2>4. QED
    BY <2>2, <2>3
<1>5. /\ frames' \in [RefThreads -> Seq(RefFrames)]
      /\ \A y \in Objects :
            /\ IsFiniteSet(FrameRefs(y)') /\ IsFiniteSet(CallsFor(y)')
            /\ FrameSum(y)' = FrameSum(y) - TodoCount(frames[t], y) + TodoCount(new, y)
            /\ CallSum(y)' = CallSum(y) - DyingCount(frames[t], y) + DyingCount(new, y)
      /\ \A p \in Pools :
            /\ IsFiniteSet(InDrains(p)')
            /\ DrainSum(p)' = DrainSum(p) - DropsCount(frames[t], p) + DropsCount(new, p)
  <2>1. FiniteFrames(new) /\ frames' = [frames EXCEPT ![t] = new]
    BY <1>3, <1>4
  <2>2. QED
    BY <2>1, FramesChanged
<1>6. \A y \in Objects : CallSum(y) \in Nat /\ DyingCount(frames[t], y) \in Nat
  BY SumsNat, ThreadFrames
<1>7. \A p \in Pools : rc'[p] = rc[p]
  BY <1>1, <1>2
<1>8. \A y \in Objects :
         CallSum(y)' = CallSum(y) - DyingCount(frames[t], y) + DyingCount(rest, y)
                                  + (IF y = x /\ rc[x] = 1 THEN 1 ELSE 0)
  BY <1>4, <1>5, <1>6
<1>9. QED
  BY <1>2, <1>4, <1>5, <1>7, <1>8

LEMMA RefsParts ==
    ASSUME Refs!RefsAssumption, RefsInv
    PROVE  /\ rc \in [Objects \cup Pools -> -1 .. MaxRefs] /\ MaxRefs \in Nat \ {0}
           /\ owned \in [Objects -> Nat] /\ kvc \in [Objects -> Objects \cup {Nil}]
           /\ assoc \in [Objects -> [val : Objects \cup {Nil}, retained : BOOLEAN]]
           /\ pool_objects \in [Pools -> Seq(Objects)]
           /\ pool_stacks \in [RefThreads -> Seq(Pools)]
           /\ frames \in [RefThreads -> Seq(RefFrames)]
           /\ weak_refs \in [Objects -> [Slots -> Nat]]
           /\ slot \in [Slots -> Objects \cup {Nil}] /\ managed \in [Slots -> BOOLEAN]
           /\ Nil \notin Objects \cup Pools /\ Objects \cap Pools = {}
           /\ RefTypes /\ SumsFinite /\ RetainedThere
           /\ \A x \in Objects :
                 /\ owned[x] \in Nat /\ PoolSum(x) \in Nat /\ FrameSum(x) \in Nat
                 /\ KvcSum(x) \in Nat /\ AssocSum(x) \in Nat /\ CallSum(x) \in Nat
                 /\ rc[x] \in -1 .. MaxRefs
                 /\ Owed(x) = owned[x] + PoolSum(x) + FrameSum(x) + KvcSum(x) + AssocSum(x)
                 /\ Owed(x) = Kept(x) + FrameSum(x)
                 /\ Owed(x) \in Nat /\ Kept(x) \in Nat
                 /\ Owed(x) > 0 => rc[x] >= Owed(x)
                 /\ CallSum(x) = IF rc[x] = 0 THEN 1 ELSE 0
           /\ \A p \in Pools :
                 /\ StackSum(p) \in Nat /\ DrainSum(p) \in Nat /\ rc[p] \in -1 .. MaxRefs
                 /\ StackSum(p) + DrainSum(p) = IF rc[p] = -1 THEN 0 ELSE 1
                 /\ StackSum(p) = 1 => rc[p] = 1
<1>1. /\ rc \in [Objects \cup Pools -> -1 .. MaxRefs]
      /\ owned \in [Objects -> Nat] /\ kvc \in [Objects -> Objects \cup {Nil}]
      /\ assoc \in [Objects -> [val : Objects \cup {Nil}, retained : BOOLEAN]]
      /\ pool_objects \in [Pools -> Seq(Objects)]
      /\ pool_stacks \in [RefThreads -> Seq(Pools)]
      /\ frames \in [RefThreads -> Seq(RefFrames)]
      /\ weak_refs \in [Objects -> [Slots -> Nat]]
      /\ slot \in [Slots -> Objects \cup {Nil}] /\ managed \in [Slots -> BOOLEAN]
  BY DEF RefsInv, RefTypes, Refs!TypeOK, Refs!Absent
<1>2. MaxRefs \in Nat \ {0} /\ Nil \notin Objects \cup Pools /\ Objects \cap Pools = {}
  BY DEF Refs!RefsAssumption
<1>3. RefTypes /\ SumsFinite /\ RetainedThere /\ OwedCounted /\ DyingOnce /\ PoolOnce
  BY DEF RefsInv
<1>4. /\ \A x \in Objects : /\ FrameSum(x) \in Nat /\ PoolSum(x) \in Nat /\ KvcSum(x) \in Nat
                            /\ AssocSum(x) \in Nat /\ CallSum(x) \in Nat
      /\ \A p \in Pools : StackSum(p) \in Nat /\ DrainSum(p) \in Nat
  BY <1>3, SumsNat
<1>5. \A x \in Objects :
         /\ Owed(x) = owned[x] + PoolSum(x) + FrameSum(x) + KvcSum(x) + AssocSum(x)
         /\ Owed(x) = Kept(x) + FrameSum(x)
         /\ Owed(x) \in Nat /\ Kept(x) \in Nat /\ owned[x] \in Nat
  BY <1>1, <1>4 DEF Owed, Kept
<1>6. QED
  BY <1>1, <1>2, <1>3, <1>4, <1>5 DEF OwedCounted, DyingOnce, PoolOnce

\* A step that leaves the weak variables alone.
LEMMA RefsStep ==
    ASSUME Refs!RefsAssumption, RefsInv, UNCHANGED <<weak_refs, slot, managed>>,
           rc' \in [Objects \cup Pools -> -1 .. MaxRefs], owned' \in [Objects -> Nat],
           kvc' \in [Objects -> Objects \cup {Nil}],
           assoc' \in [Objects -> [val : Objects \cup {Nil}, retained : BOOLEAN]],
           pool_objects' \in [Pools -> Seq(Objects)], pool_stacks' \in [RefThreads -> Seq(Pools)],
           frames' \in [RefThreads -> Seq(RefFrames)], SumsFinite', RetainedThere',
           \A x \in Objects :
              /\ Owed(x)' > 0 => rc'[x] >= Owed(x)'
              /\ CallSum(x)' = IF rc'[x] = 0 THEN 1 ELSE 0
              /\ rc'[x] = -1 => rc[x] = -1,
           PoolOnce'
    PROVE  RefsInv'
<1>1. RefTypes'
  BY RefsParts DEF RefTypes, Refs!TypeOK, Refs!Absent
<1>2. OwedCounted' /\ DyingOnce'
  BY DEF OwedCounted, DyingOnce
<1>3. Refs!WeakTableExact'
  <2>1. Refs!WeakTableExact
    BY DEF RefsInv
  <2>2. QED
    BY <2>1 DEF Refs!WeakTableExact, Refs!Absent
<1>4. QED
  BY <1>1, <1>2, <1>3 DEF RefsInv

\* Pools where they were.
LEMMA PoolsKept ==
    ASSUME RefsInv, UNCHANGED pool_stacks,
           \A p \in Pools : rc'[p] = rc[p] /\ DrainSum(p)' = DrainSum(p) /\ IsFiniteSet(InDrains(p)')
    PROVE  PoolOnce' /\ \A p \in Pools : IsFiniteSet(OnStacks(p)') /\ IsFiniteSet(InDrains(p)')
<1>1. \A p \in Pools : OnStacks(p)' = OnStacks(p) /\ StackSum(p)' = StackSum(p)
  BY SumsSame
<1>2. QED
  BY <1>1 DEF RefsInv, PoolOnce, SumsFinite

\* The frames and the tables stay as they are.
LEMMA SameHolders ==
    ASSUME Refs!RefsAssumption, RefsInv, UNCHANGED <<kvc, assoc, frames>>,
           owned' \in [Objects -> Nat], \A x \in Objects : PoolSum(x)' \in Nat
    PROVE  /\ \A x \in Objects :
                 /\ IsFiniteSet(FrameRefs(x)') /\ IsFiniteSet(KvcRefs(x)')
                 /\ IsFiniteSet(AssocRefs(x)') /\ IsFiniteSet(CallsFor(x)')
                 /\ CallSum(x)' = CallSum(x)
                 /\ Owed(x)' = Owed(x) - owned[x] - PoolSum(x) + owned'[x] + PoolSum(x)'
           /\ \A p \in Pools : IsFiniteSet(InDrains(p)') /\ DrainSum(p)' = DrainSum(p)
           /\ kvc' \in [Objects -> Objects \cup {Nil}]
           /\ assoc' \in [Objects -> [val : Objects \cup {Nil}, retained : BOOLEAN]]
           /\ frames' \in [RefThreads -> Seq(RefFrames)] /\ RetainedThere'
<1>1. \A x \in Objects :
         /\ FrameRefs(x)' = FrameRefs(x) /\ CallsFor(x)' = CallsFor(x)
         /\ KvcRefs(x)' = KvcRefs(x) /\ AssocRefs(x)' = AssocRefs(x)
         /\ FrameSum(x)' = FrameSum(x) /\ CallSum(x)' = CallSum(x)
         /\ KvcSum(x)' = KvcSum(x) /\ AssocSum(x)' = AssocSum(x)
  BY SumsSame
<1>2. \A p \in Pools : InDrains(p)' = InDrains(p) /\ DrainSum(p)' = DrainSum(p)
  BY SumsSame
<1>3. ASSUME NEW x \in Objects
      PROVE  Owed(x)' = (owned'[x] + PoolSum(x)' + KvcSum(x) + AssocSum(x)) + FrameSum(x)
  BY <1>1 DEF Owed, Kept
<1>4. ASSUME NEW x \in Objects
      PROVE  Owed(x)' = Owed(x) - owned[x] - PoolSum(x) + owned'[x] + PoolSum(x)'
  <2>1. /\ owned[x] \in Nat /\ PoolSum(x) \in Nat /\ FrameSum(x) \in Nat
        /\ KvcSum(x) \in Nat /\ AssocSum(x) \in Nat
        /\ Owed(x) = owned[x] + PoolSum(x) + FrameSum(x) + KvcSum(x) + AssocSum(x)
    BY RefsParts
  <2>2. owned'[x] \in Nat /\ PoolSum(x)' \in Nat
    OBVIOUS
  <2>3. QED
    BY <1>3, <2>1, <2>2
<1>5. RetainedThere'
  BY RefsParts DEF RetainedThere
<1>6. \A x \in Objects :
         /\ IsFiniteSet(FrameRefs(x)') /\ IsFiniteSet(KvcRefs(x)')
         /\ IsFiniteSet(AssocRefs(x)') /\ IsFiniteSet(CallsFor(x)')
  BY <1>1, RefsParts DEF SumsFinite
<1>7. \A p \in Pools : IsFiniteSet(InDrains(p)')
  BY <1>2, RefsParts DEF SumsFinite
<1>8. /\ kvc' \in [Objects -> Objects \cup {Nil}]
      /\ assoc' \in [Objects -> [val : Objects \cup {Nil}, retained : BOOLEAN]]
      /\ frames' \in [RefThreads -> Seq(RefFrames)]
  BY RefsParts
<1>9. QED
  BY <1>1, <1>2, <1>4, <1>5, <1>6, <1>7, <1>8

\* h and q become a and b, with k references more and the count as well.
LEMMA OwedArithmetic ==
    ASSUME NEW w \in Nat, NEW h \in Nat, NEW q \in Nat, NEW a \in Nat, NEW b \in Nat,
           NEW k \in {0, 1}, NEW r \in Int, a + b <= h + q + k,
           w > 0 => r >= w, k = 1 => r > 0
    PROVE  w - h - q + a + b > 0 => r + k >= w - h - q + a + b
OBVIOUS

\* A call that counts a reference more, or none, with what the guest and the pools have.
LEMMA GuestStep ==
    ASSUME Refs!RefsAssumption, RefsInv,
           UNCHANGED <<weak_refs, slot, managed, pool_stacks, kvc, assoc, frames>>,
           NEW o \in Objects, NEW up \in {0, 1}, rc' = [rc EXCEPT ![o] = rc[o] + up],
           up = 1 => rc[o] \in 1 .. (MaxRefs - 1),
           owned' \in [Objects -> Nat], pool_objects' \in [Pools -> Seq(Objects)],
           \A x \in Objects : /\ IsFiniteSet(PoolRefs(x)') /\ PoolSum(x)' \in Nat
                              /\ owned'[x] + PoolSum(x)'
                                    <= owned[x] + PoolSum(x) + (IF x = o THEN up ELSE 0)
    PROVE  RefsInv'
<1>1. /\ rc' \in [Objects \cup Pools -> -1 .. MaxRefs]
      /\ \A x \in Objects : rc'[x] = IF x = o THEN rc[o] + up ELSE rc[x]
      /\ \A p \in Pools : rc'[p] = rc[p]
  <2>1. /\ rc \in [Objects \cup Pools -> -1 .. MaxRefs] /\ MaxRefs \in Nat \ {0}
        /\ Objects \cap Pools = {} /\ rc[o] \in -1 .. MaxRefs
    BY RefsParts
  <2>2. rc[o] + up \in -1 .. MaxRefs
    BY <2>1
  <2>3. QED
    BY <2>1, <2>2
<1>2. /\ \A x \in Objects :
            /\ IsFiniteSet(FrameRefs(x)') /\ IsFiniteSet(KvcRefs(x)')
            /\ IsFiniteSet(AssocRefs(x)') /\ IsFiniteSet(CallsFor(x)')
            /\ CallSum(x)' = CallSum(x)
            /\ Owed(x)' = Owed(x) - owned[x] - PoolSum(x) + owned'[x] + PoolSum(x)'
      /\ \A p \in Pools : IsFiniteSet(InDrains(p)') /\ DrainSum(p)' = DrainSum(p)
      /\ kvc' \in [Objects -> Objects \cup {Nil}]
      /\ assoc' \in [Objects -> [val : Objects \cup {Nil}, retained : BOOLEAN]]
      /\ frames' \in [RefThreads -> Seq(RefFrames)] /\ RetainedThere'
  BY SameHolders
<1>3. PoolOnce' /\ \A p \in Pools : IsFiniteSet(OnStacks(p)') /\ IsFiniteSet(InDrains(p)')
  BY <1>1, <1>2, PoolsKept
<1>4. SumsFinite'
  BY <1>2, <1>3 DEF SumsFinite
<1>5. ASSUME NEW x \in Objects
      PROVE  /\ Owed(x)' > 0 => rc'[x] >= Owed(x)'
             /\ CallSum(x)' = IF rc'[x] = 0 THEN 1 ELSE 0
             /\ rc'[x] = -1 => rc[x] = -1
  <2>1. owned[x] \in Nat /\ PoolSum(x) \in Nat /\ Owed(x) \in Nat
    BY RefsParts
  <2>2. rc[x] \in Int /\ (Owed(x) > 0 => rc[x] >= Owed(x))
    BY RefsParts
  <2>3. CallSum(x) = IF rc[x] = 0 THEN 1 ELSE 0
    BY RefsParts
  <2>4. owned'[x] \in Nat /\ PoolSum(x)' \in Nat
    OBVIOUS
  <2>5. PICK k \in {0, 1} : k = IF x = o THEN up ELSE 0
    OBVIOUS
  <2>6. owned'[x] + PoolSum(x)' <= owned[x] + PoolSum(x) + k
    BY <2>5
  <2>7. Owed(x)' = Owed(x) - owned[x] - PoolSum(x) + owned'[x] + PoolSum(x)'
    BY <1>2
  <2>8. rc'[x] = rc[x] + k /\ (k = 1 => rc[x] > 0)
    BY <1>1, <2>2, <2>5
  <2>9. CallSum(x)' = CallSum(x)
    BY <1>2
  <2>10. /\ Owed(x)' > 0 => rc'[x] >= Owed(x)'
         /\ rc'[x] = 0 <=> rc[x] = 0
         /\ rc'[x] = -1 => rc[x] = -1
    <3>1. (Owed(x)' > 0) => rc[x] + k >= Owed(x)'
      BY ONLY <2>1, <2>2, <2>4, <2>5, <2>6, <2>7, <2>8, OwedArithmetic
    <3>2. (rc[x] + k = 0 <=> rc[x] = 0) /\ (rc[x] + k = -1 => rc[x] = -1)
      BY ONLY <2>2, <2>5, <2>8
    <3>3. QED
      BY <2>8, <3>1, <3>2
  <2>11. QED
    BY <2>3, <2>9, <2>10
<1>6. pool_stacks' \in [RefThreads -> Seq(Pools)]
  BY RefsParts
<1>7. QED
  BY <1>1, <1>2, <1>3, <1>4, <1>5, <1>6, RefsStep

LEMMA FramesNat ==
    ASSUME NEW fs, FiniteFrames(fs)
    PROVE  /\ \A x \in Objects : TodoCount(fs, x) \in Nat /\ DyingCount(fs, x) \in Nat
           /\ \A p \in Pools : DropsCount(fs, p) \in Nat
  BY FS_CardinalityType DEF FiniteFrames, TodoCount, DyingCount, DropsCount

\* What the next state holds, and that no holder of an object is lost when thread t
\* goes on with the frames new instead of old: but for a reference to x that is released,
\* or with the references that are counted anew and the pools that are dropped.
HoldersTyped ==
    /\ owned' \in [Objects -> Nat] /\ kvc' \in [Objects -> Objects \cup {Nil}]
    /\ assoc' \in [Objects -> [val : Objects \cup {Nil}, retained : BOOLEAN]]
    /\ pool_objects' \in [Pools -> Seq(Objects)] /\ RetainedThere'
    /\ \A y \in Objects :
          /\ IsFiniteSet(PoolRefs(y)') /\ IsFiniteSet(KvcRefs(y)') /\ IsFiniteSet(AssocRefs(y)')
          /\ Kept(y)' \in Nat

GivenUp(old, new, x) ==
    /\ \A y \in Objects :
          /\ DyingCount(new, y) = DyingCount(old, y)
          /\ Kept(y)' + TodoCount(new, y) + (IF y = x THEN 1 ELSE 0) <= Kept(y) + TodoCount(old, y)
    /\ \A p \in Pools : DropsCount(new, p) = DropsCount(old, p)

Moved(old, new) ==
    /\ \A y \in Objects :
          /\ DyingCount(new, y) = DyingCount(old, y)
          /\ rc'[y] = rc[y] \/ (rc'[y] = rc[y] + 1 /\ rc[y] > 0)
          /\ Kept(y)' + TodoCount(new, y) <= Kept(y) + TodoCount(old, y) + (rc'[y] - rc[y])
    /\ \A p \in Pools :
          /\ rc'[p] = rc[p] \/ rc'[p] = -1
          /\ DropsCount(old, p) = DropsCount(new, p) + (IF rc'[p] = rc[p] THEN 0 ELSE 1)

\* A release of a reference that t, the guest or a table had to x.
LEMMA ReleaseStep ==
    ASSUME Refs!RefsAssumption, RefsInv, UNCHANGED <<weak_refs, slot, managed, pool_stacks>>,
           NEW t \in RefThreads, NEW x \in Objects, NEW rest, FiniteFrames(rest),
           Refs!SendRelease(t, x, rest), HoldersTyped, GivenUp(frames[t], rest, x)
    PROVE  RefsInv'
<1>1. RefTypes /\ SumsFinite /\ pool_stacks \in [RefThreads -> Seq(Pools)]
  BY RefsParts
<1>20. /\ Refs!RefsAssumption /\ x \in Objects /\ t \in RefThreads
       /\ FiniteFrames(rest) /\ Refs!SendRelease(t, x, rest)
  OBVIOUS
<1>21. /\ rc' \in [Objects \cup Pools -> -1 .. MaxRefs]
       /\ \A y \in Objects \cup Pools :
             rc'[y] = IF y = x /\ rc[x] > 0 THEN rc[x] - 1 ELSE rc[y]
  BY ONLY <1>1, <1>20, Released
<1>22. /\ frames' \in [RefThreads -> Seq(RefFrames)]
       /\ \A p \in Pools :
             /\ IsFiniteSet(InDrains(p)') /\ rc'[p] = rc[p]
             /\ DrainSum(p)' = DrainSum(p) - DropsCount(frames[t], p) + DropsCount(rest, p)
  BY ONLY <1>1, <1>20, Released
<1>23. ASSUME NEW y \in Objects
       PROVE  /\ IsFiniteSet(FrameRefs(y)') /\ IsFiniteSet(CallsFor(y)')
              /\ FrameSum(y)' = FrameSum(y) - TodoCount(frames[t], y) + TodoCount(rest, y)
              /\ CallSum(y)' = CallSum(y) - DyingCount(frames[t], y) + DyingCount(rest, y)
                                          + (IF y = x /\ rc[x] = 1 THEN 1 ELSE 0)
  BY ONLY <1>1, <1>20, <1>23, Released
<1>2. /\ rc' \in [Objects \cup Pools -> -1 .. MaxRefs]
      /\ \A y \in Objects \cup Pools :
            rc'[y] = IF y = x /\ rc[x] > 0 THEN rc[x] - 1 ELSE rc[y]
      /\ frames' \in [RefThreads -> Seq(RefFrames)]
      /\ \A y \in Objects :
            /\ IsFiniteSet(FrameRefs(y)') /\ IsFiniteSet(CallsFor(y)')
            /\ FrameSum(y)' = FrameSum(y) - TodoCount(frames[t], y) + TodoCount(rest, y)
            /\ CallSum(y)' = CallSum(y) - DyingCount(frames[t], y) + DyingCount(rest, y)
                                        + (IF y = x /\ rc[x] = 1 THEN 1 ELSE 0)
      /\ \A p \in Pools :
            /\ IsFiniteSet(InDrains(p)') /\ rc'[p] = rc[p]
            /\ DrainSum(p)' = DrainSum(p) - DropsCount(frames[t], p) + DropsCount(rest, p)
  BY <1>21, <1>22, <1>23
<1>30. /\ owned' \in [Objects -> Nat] /\ kvc' \in [Objects -> Objects \cup {Nil}]
       /\ assoc' \in [Objects -> [val : Objects \cup {Nil}, retained : BOOLEAN]]
       /\ pool_objects' \in [Pools -> Seq(Objects)] /\ RetainedThere'
       /\ \A y \in Objects :
             /\ IsFiniteSet(PoolRefs(y)') /\ IsFiniteSet(KvcRefs(y)') /\ IsFiniteSet(AssocRefs(y)')
             /\ Kept(y)' \in Nat
  BY DEF HoldersTyped
<1>31. /\ \A y \in Objects :
             /\ DyingCount(rest, y) = DyingCount(frames[t], y)
             /\ Kept(y)' + TodoCount(rest, y) + (IF y = x THEN 1 ELSE 0)
                   <= Kept(y) + TodoCount(frames[t], y)
       /\ \A p \in Pools : DropsCount(rest, p) = DropsCount(frames[t], p)
  BY DEF GivenUp
<1>3. \A p \in Pools : rc'[p] = rc[p] /\ DrainSum(p)' = DrainSum(p) /\ IsFiniteSet(InDrains(p)')
  BY <1>1, <1>2, <1>31, ThreadFrames, SumsNat
<1>4. PoolOnce' /\ \A p \in Pools : IsFiniteSet(OnStacks(p)') /\ IsFiniteSet(InDrains(p)')
  BY <1>3, PoolsKept
<1>5. SumsFinite'
  BY <1>2, <1>30, <1>4 DEF SumsFinite
<1>6. ASSUME NEW y \in Objects
      PROVE  /\ Owed(y)' > 0 => rc'[y] >= Owed(y)'
             /\ CallSum(y)' = IF rc'[y] = 0 THEN 1 ELSE 0
             /\ rc'[y] = -1 => rc[y] = -1
  <2> DEFINE w == Owed(y)  k == Kept(y)  f == FrameSum(y)  c == CallSum(y)  r == rc[y]
             ft == TodoCount(frames[t], y)  fr == TodoCount(rest, y)  k2 == Kept(y)'
             e == DyingCount(frames[t], y)
  <2>1. /\ w \in Nat /\ k \in Nat /\ f \in Nat /\ c \in Nat /\ r \in -1 .. MaxRefs
        /\ w = k + f
        /\ w > 0 => r >= w
        /\ c = IF r = 0 THEN 1 ELSE 0
    BY RefsParts
  <2>2. ft \in Nat /\ ft <= f /\ fr \in Nat /\ k2 \in Nat /\ e \in Nat
    BY <1>1, <1>30, ThreadFrames, FramesNat
  <2>20. r \in Int /\ r >= -1
    BY <2>1, RefsParts
  <2>3. /\ k2 + fr + (IF y = x THEN 1 ELSE 0) <= k + ft
        /\ Owed(y)' = k2 + (f - ft + fr)
        /\ CallSum(y)' = c - e + e + (IF y = x /\ rc[x] = 1 THEN 1 ELSE 0)
        /\ rc'[y] = IF y = x /\ rc[x] > 0 THEN rc[x] - 1 ELSE r
    BY <1>2, <1>31 DEF Owed
  <2>4. CASE y = x
    <3>1. /\ k2 + fr + 1 <= k + ft
          /\ Owed(y)' = k2 + (f - ft + fr)
          /\ CallSum(y)' = c - e + e + (IF r = 1 THEN 1 ELSE 0)
          /\ rc'[y] = IF r > 0 THEN r - 1 ELSE r
      BY <2>3, <2>4
    <3> HIDE DEF w, k, f, c, r, ft, fr, k2, e
    <3>2. k2 + (f - ft + fr) \in Nat /\ k2 + (f - ft + fr) <= w - 1
      BY <2>1, <2>2, <3>1
    <3>3. w > 0 /\ r >= w
      BY <2>1, <2>20, <3>2
    <3>4. rc'[y] = r - 1 /\ CallSum(y)' = (IF r = 1 THEN 1 ELSE 0)
      BY <2>1, <2>2, <2>20, <3>1, <3>3
    <3>5. rc'[y] >= Owed(y)' /\ r - 1 # -1 /\ (r - 1 = 0 <=> r = 1)
      BY <2>1, <2>20, <3>1, <3>2, <3>3, <3>4
    <3>6. QED
      BY <3>4, <3>5
  <2>5. CASE y # x
    <3>1. /\ k2 + fr + 0 <= k + ft
          /\ Owed(y)' = k2 + (f - ft + fr)
          /\ CallSum(y)' = c - e + e + 0
          /\ rc'[y] = r
      BY <2>3, <2>5
    <3> HIDE DEF w, k, f, c, ft, fr, k2, e
    <3>2. k2 + (f - ft + fr) \in Nat /\ k2 + (f - ft + fr) <= w
      BY <2>1, <2>2, <3>1
    <3>3. CallSum(y)' = c
      BY <2>1, <2>2, <3>1
    <3>4. Owed(y)' > 0 => rc'[y] >= Owed(y)'
      BY <2>1, <2>20, <3>1, <3>2
    <3>5. QED
      BY <2>1, <3>1, <3>3, <3>4
  <2>6. QED
    BY <2>4, <2>5
<1>7. pool_stacks' \in [RefThreads -> Seq(Pools)]
  BY <1>1
<1>8. QED
  BY <1>2, <1>30, <1>4, <1>5, <1>6, <1>7, RefsStep

\* Thread t goes on with other frames, and no object loses a reference.
LEMMA MoveStep ==
    ASSUME Refs!RefsAssumption, RefsInv, UNCHANGED <<weak_refs, slot, managed, pool_stacks>>,
           NEW t \in RefThreads, NEW new, FiniteFrames(new), frames' = [frames EXCEPT ![t] = new],
           rc' \in [Objects \cup Pools -> -1 .. MaxRefs], HoldersTyped, Moved(frames[t], new)
    PROVE  RefsInv'
<1>1. RefTypes /\ SumsFinite /\ pool_stacks \in [RefThreads -> Seq(Pools)]
  BY RefsParts
<1>2. /\ frames' \in [RefThreads -> Seq(RefFrames)]
      /\ \A x \in Objects :
            /\ IsFiniteSet(FrameRefs(x)') /\ IsFiniteSet(CallsFor(x)')
            /\ FrameSum(x)' = FrameSum(x) - TodoCount(frames[t], x) + TodoCount(new, x)
            /\ CallSum(x)' = CallSum(x) - DyingCount(frames[t], x) + DyingCount(new, x)
      /\ \A p \in Pools :
            /\ IsFiniteSet(InDrains(p)')
            /\ DrainSum(p)' = DrainSum(p) - DropsCount(frames[t], p) + DropsCount(new, p)
  BY <1>1, FramesChanged
<1>30. /\ owned' \in [Objects -> Nat] /\ kvc' \in [Objects -> Objects \cup {Nil}]
       /\ assoc' \in [Objects -> [val : Objects \cup {Nil}, retained : BOOLEAN]]
       /\ pool_objects' \in [Pools -> Seq(Objects)] /\ RetainedThere'
       /\ \A y \in Objects :
             /\ IsFiniteSet(PoolRefs(y)') /\ IsFiniteSet(KvcRefs(y)') /\ IsFiniteSet(AssocRefs(y)')
             /\ Kept(y)' \in Nat
  BY DEF HoldersTyped
<1>31. /\ \A y \in Objects :
             /\ DyingCount(new, y) = DyingCount(frames[t], y)
             /\ rc'[y] = rc[y] \/ (rc'[y] = rc[y] + 1 /\ rc[y] > 0)
             /\ Kept(y)' + TodoCount(new, y) <= Kept(y) + TodoCount(frames[t], y) + (rc'[y] - rc[y])
       /\ \A p \in Pools :
             /\ rc'[p] = rc[p] \/ rc'[p] = -1
             /\ DropsCount(frames[t], p) = DropsCount(new, p) + (IF rc'[p] = rc[p] THEN 0 ELSE 1)
  BY DEF Moved
<1>3. \A p \in Pools : OnStacks(p)' = OnStacks(p) /\ StackSum(p)' = StackSum(p)
  BY SumsSame
<1>4. PoolOnce'
  <2>1. SUFFICES ASSUME NEW p \in Pools
                 PROVE  /\ StackSum(p)' + DrainSum(p)' = IF rc'[p] = -1 THEN 0 ELSE 1
                        /\ StackSum(p)' = 1 => rc'[p] = 1
    BY DEF PoolOnce
  <2> DEFINE s == StackSum(p)  d == DrainSum(p)  r == rc[p]
             dt == DropsCount(frames[t], p)  dn == DropsCount(new, p)
  <2>2. /\ s \in Nat /\ d \in Nat
        /\ s + d = IF r = -1 THEN 0 ELSE 1
        /\ s = 1 => r = 1
    BY RefsParts
  <2>3. dt \in Nat /\ dn \in Nat /\ dt <= d
    BY <1>1, <1>30, ThreadFrames, FramesNat
  <2>4. /\ DrainSum(p)' = d - dt + dn /\ StackSum(p)' = s
        /\ rc'[p] = r \/ rc'[p] = -1
        /\ dt = dn + (IF rc'[p] = r THEN 0 ELSE 1)
    BY <1>2, <1>3, <1>31
  <2>5. CASE rc'[p] = r
    <3>1. dt = dn + 0
      BY <2>4, <2>5
    <3> HIDE DEF s, d, r, dt, dn
    <3>2. d - dt + dn = d
      BY <2>2, <2>3, <3>1
    <3>3. QED
      BY <2>2, <2>4, <2>5, <3>2
  <2>6. CASE rc'[p] # r
    <3>1. rc'[p] = -1 /\ dt = dn + 1
      BY <2>4, <2>6
    <3> HIDE DEF s, d, dt, dn, r
    <3>2. s + d <= 1
      BY <2>2
    <3>3. d = 1 /\ dt = 1 /\ dn = 0
      BY <2>2, <2>3, <3>1, <3>2
    <3>6. s = 0 /\ d - dt + dn = 0
      BY <2>2, <3>2, <3>3
    <3>4. QED
      BY <2>4, <3>1, <3>6
  <2>7. QED
    BY <2>5, <2>6
<1>5. SumsFinite'
  BY <1>1, <1>2, <1>3, <1>30 DEF SumsFinite
<1>6. ASSUME NEW y \in Objects
      PROVE  /\ Owed(y)' > 0 => rc'[y] >= Owed(y)'
             /\ CallSum(y)' = IF rc'[y] = 0 THEN 1 ELSE 0
             /\ rc'[y] = -1 => rc[y] = -1
  <2> DEFINE w == Owed(y)  k == Kept(y)  f == FrameSum(y)  c == CallSum(y)  r == rc[y]
             ft == TodoCount(frames[t], y)  fr == TodoCount(new, y)  k2 == Kept(y)'
             e == DyingCount(frames[t], y)
  <2>1. /\ w \in Nat /\ k \in Nat /\ f \in Nat /\ c \in Nat /\ r \in -1 .. MaxRefs
        /\ w = k + f
        /\ w > 0 => r >= w
        /\ c = IF r = 0 THEN 1 ELSE 0
    BY RefsParts
  <2>2. ft \in Nat /\ ft <= f /\ fr \in Nat /\ k2 \in Nat /\ e \in Nat
    BY <1>1, <1>30, ThreadFrames, FramesNat
  <2>20. r \in Int /\ r >= -1
    BY <2>1, RefsParts
  <2>3. /\ k2 + fr <= k + ft + (rc'[y] - r)
        /\ Owed(y)' = k2 + (f - ft + fr)
        /\ CallSum(y)' = c - e + e
        /\ rc'[y] = r \/ (rc'[y] = r + 1 /\ r > 0)
    BY <1>2, <1>31 DEF Owed
  <2>4. PICK d \in {0, 1} : rc'[y] = r + d /\ (d = 1 => r > 0)
    BY <2>3, <2>20
  <2> HIDE DEF w, k, f, c, r, ft, fr, k2, e
  <2>5. k2 + (f - ft + fr) \in Nat /\ k2 + (f - ft + fr) <= w + d
    BY <2>1, <2>2, <2>20, <2>3, <2>4
  <2>6. (k2 + (f - ft + fr) > 0) => r + d >= k2 + (f - ft + fr)
    BY <2>1, <2>20, <2>4, <2>5
  <2>7. CallSum(y)' = c /\ (r + d = 0 <=> r = 0) /\ (r + d = -1 => r = -1)
    BY <2>1, <2>2, <2>20, <2>3, <2>4
  <2>8. QED
    BY <2>1, <2>3, <2>4, <2>6, <2>7 DEF r
<1>7. pool_stacks' \in [RefThreads -> Seq(Pools)]
  BY <1>1
<1>8. QED
  BY <1>2, <1>30, <1>4, <1>5, <1>6, <1>7, RefsStep

\* What the guest may use is there.
LEMMA UsableThere ==
    ASSUME Refs!RefsAssumption, RefsInv, NEW t \in RefThreads, NEW o \in Objects
    PROVE  /\ owned[o] > 0 => rc[o] > 0
           /\ Refs!Usable(t, o) => rc[o] # -1
<1>1. owned[o] > 0 => rc[o] > 0
  <2>1. SUFFICES ASSUME owned[o] > 0 PROVE rc[o] > 0
    OBVIOUS
  <2>2. /\ owned[o] \in Nat /\ PoolSum(o) \in Nat /\ FrameSum(o) \in Nat
        /\ KvcSum(o) \in Nat /\ AssocSum(o) \in Nat /\ rc[o] \in Int
        /\ Owed(o) = owned[o] + PoolSum(o) + FrameSum(o) + KvcSum(o) + AssocSum(o)
    BY RefsParts
  <2>3. Owed(o) \in Nat /\ Owed(o) > 0
    BY <2>1, <2>2
  <2>4. rc[o] >= Owed(o)
    BY <2>3, RefsParts
  <2>5. QED
    BY <2>2, <2>3, <2>4
<1>2. Refs!Top(t) = Refs!Dealloc(o) => rc[o] # -1
  <2>1. SUFFICES ASSUME Refs!Top(t) = Refs!Dealloc(o) PROVE rc[o] # -1
    OBVIOUS
  <2>2. Refs!Top(t).kind = "dealloc" /\ Refs!Top(t).obj = o
    BY <2>1 DEF Refs!Dealloc
  <2>3. frames[t] # <<>>
    BY <2>2, TopThere
  <2>4. /\ DyingCount(frames[t], o) = FrameDies(Refs!Top(t), o) + DyingCount(Tail(frames[t]), o)
        /\ DyingCount(Tail(frames[t]), o) \in Nat
        /\ DyingCount(frames[t], o) \in Nat /\ DyingCount(frames[t], o) <= CallSum(o)
    BY <2>3, FrameTop, ThreadFrames, RefsParts
  <2>5. FrameDies(Refs!Top(t), o) = 1
    BY <2>2 DEF FrameDies
  <2>6. CallSum(o) \in Nat /\ CallSum(o) # 0
    BY <2>4, <2>5, RefsParts
  <2>7. CallSum(o) = IF rc[o] = 0 THEN 1 ELSE 0
    BY RefsParts
  <2>8. QED
    BY <2>6, <2>7
<1>3. QED
  BY <1>1, <1>2 DEF Refs!Usable

LEMMA AllocStep ==
    ASSUME Refs!RefsAssumption, RefsInv, NEW t \in RefThreads, NEW o \in Objects, Refs!alloc_object(t, o)
    PROVE  RefsInv'
<1>1. /\ rc[o] = -1 /\ rc' = [rc EXCEPT ![o] = 1] /\ owned' = [owned EXCEPT ![o] = owned[o] + 1]
      /\ UNCHANGED <<weak_refs, slot, managed, pool_stacks, pool_objects, kvc, assoc, frames>>
  BY DEF Refs!alloc_object, Refs!Absent, Refs!weakVars, Refs!poolVars, Refs!tabVars
<1>2. /\ rc' \in [Objects \cup Pools -> -1 .. MaxRefs]
      /\ \A x \in Objects : rc'[x] = IF x = o THEN 1 ELSE rc[x]
      /\ \A p \in Pools : rc'[p] = rc[p]
  <2>1. /\ rc \in [Objects \cup Pools -> -1 .. MaxRefs] /\ MaxRefs \in Nat \ {0}
        /\ Objects \cap Pools = {}
    BY RefsParts
  <2>2. QED
    BY <1>1, <2>1
<1>3. owned' \in [Objects -> Nat] /\ \A x \in Objects : owned'[x] = owned[x] + IF x = o THEN 1 ELSE 0
  <2>1. owned \in [Objects -> Nat]
    BY RefsParts
  <2>2. QED
    BY <1>1, <2>1
<1>4. \A x \in Objects : PoolRefs(x)' = PoolRefs(x) /\ PoolSum(x)' = PoolSum(x) /\ PoolSum(x) \in Nat
  BY <1>1, SumsSame, RefsParts
<1>5. /\ \A x \in Objects :
            /\ IsFiniteSet(FrameRefs(x)') /\ IsFiniteSet(KvcRefs(x)')
            /\ IsFiniteSet(AssocRefs(x)') /\ IsFiniteSet(CallsFor(x)')
            /\ CallSum(x)' = CallSum(x)
            /\ Owed(x)' = Owed(x) - owned[x] - PoolSum(x) + owned'[x] + PoolSum(x)'
      /\ \A p \in Pools : IsFiniteSet(InDrains(p)') /\ DrainSum(p)' = DrainSum(p)
      /\ kvc' \in [Objects -> Objects \cup {Nil}]
      /\ assoc' \in [Objects -> [val : Objects \cup {Nil}, retained : BOOLEAN]]
      /\ frames' \in [RefThreads -> Seq(RefFrames)] /\ RetainedThere'
  BY <1>1, <1>3, <1>4, SameHolders
<1>6. PoolOnce' /\ \A p \in Pools : IsFiniteSet(OnStacks(p)') /\ IsFiniteSet(InDrains(p)')
  BY <1>1, <1>2, <1>5, PoolsKept
<1>7. SumsFinite'
  BY <1>4, <1>5, <1>6, RefsParts DEF SumsFinite
<1>8. ASSUME NEW x \in Objects
      PROVE  /\ Owed(x)' > 0 => rc'[x] >= Owed(x)'
             /\ CallSum(x)' = IF rc'[x] = 0 THEN 1 ELSE 0
             /\ rc'[x] = -1 => rc[x] = -1
  <2> DEFINE w == Owed(x)  h == owned[x]  q == PoolSum(x)
  <2>1. /\ w \in Nat /\ h \in Nat /\ q \in Nat /\ rc[x] \in Int
        /\ w > 0 => rc[x] >= w
        /\ CallSum(x) = IF rc[x] = 0 THEN 1 ELSE 0
    BY RefsParts
  <2>2. Owed(x)' = w - h - q + owned'[x] + q /\ CallSum(x)' = CallSum(x)
    BY <1>4, <1>5
  <2>3. CASE x = o
    <3>1. w = 0
      BY <1>1, <2>1, <2>3
    <3>2. owned'[x] = h + 1 /\ rc'[x] = 1 /\ rc[x] = -1
      BY <1>1, <1>2, <1>3, <2>1, <2>3
    <3>3. CallSum(x)' = 0
      BY <2>1, <2>2, <3>2
    <3> HIDE DEF w, h, q
    <3>4. Owed(x)' = 1
      BY <2>1, <2>2, <3>1, <3>2
    <3>5. QED
      BY <3>2, <3>3, <3>4
  <2>4. CASE x # o
    <3>1. owned'[x] = h /\ rc'[x] = rc[x]
      BY <1>2, <1>3, <2>1, <2>4
    <3> HIDE DEF w, h, q
    <3>2. Owed(x)' = w
      BY <2>1, <2>2, <3>1
    <3>3. QED
      BY <2>1, <2>2, <3>1, <3>2
  <2>5. QED
    BY <2>3, <2>4
<1>9. pool_stacks' \in [RefThreads -> Seq(Pools)] /\ pool_objects' \in [Pools -> Seq(Objects)]
  BY <1>1, RefsParts
<1>10. QED
  BY <1>1, <1>2, <1>3, <1>5, <1>6, <1>7, <1>8, <1>9, RefsStep

\* An object that is retained for a pool.
LEMMA PooledStep ==
    ASSUME Refs!RefsAssumption, RefsInv, NEW t \in RefThreads, NEW o \in Objects,
           rc[o] > 0, rc[o] < MaxRefs, rc' = [rc EXCEPT ![o] = rc[o] + 1], Refs!addObject(t, o),
           UNCHANGED <<weak_refs, slot, managed, pool_stacks, kvc, assoc, frames, owned>>
    PROVE  RefsInv'
<1>1. /\ owned \in [Objects -> Nat] /\ rc \in [Objects \cup Pools -> -1 .. MaxRefs]
      /\ RefTypes /\ SumsFinite /\ MaxRefs \in Nat
      /\ \A x \in Objects : PoolSum(x) \in Nat /\ owned[x] \in Nat
  BY RefsParts
<1>2. /\ pool_objects' \in [Pools -> Seq(Objects)]
      /\ \A x \in Objects : /\ IsFiniteSet(PoolRefs(x)')
                            /\ PoolSum(x)' <= PoolSum(x) + (IF x = o THEN 1 ELSE 0)
  BY <1>1, PoolAdded
<1>3. \A x \in Objects : PoolSum(x)' \in Nat
  BY <1>2, FS_CardinalityType DEF PoolSum
<1>4. ASSUME NEW x \in Objects
      PROVE  owned'[x] + PoolSum(x)' <= owned[x] + PoolSum(x) + (IF x = o THEN 1 ELSE 0)
  <2>1. /\ PoolSum(x)' <= PoolSum(x) + (IF x = o THEN 1 ELSE 0) /\ owned'[x] = owned[x]
        /\ PoolSum(x)' \in Nat /\ PoolSum(x) \in Nat /\ owned[x] \in Nat
    BY <1>1, <1>2, <1>3
  <2>2. QED
    BY <2>1
<1>5. rc[o] \in 1 .. (MaxRefs - 1) /\ 1 \in {0, 1} /\ owned' \in [Objects -> Nat]
  BY <1>1
<1>6. QED
  BY <1>1, <1>2, <1>3, <1>4, <1>5, GuestStep

\* An object that is retained for the guest.
LEMMA RetainedStep ==
    ASSUME Refs!RefsAssumption, RefsInv, NEW o \in Objects, rc[o] > 0, rc[o] < MaxRefs,
           rc' = [rc EXCEPT ![o] = rc[o] + 1], owned' = [owned EXCEPT ![o] = owned[o] + 1],
           UNCHANGED <<weak_refs, slot, managed, pool_stacks, pool_objects, kvc, assoc, frames>>
    PROVE  RefsInv'
<1>1. /\ owned \in [Objects -> Nat] /\ rc \in [Objects \cup Pools -> -1 .. MaxRefs]
      /\ SumsFinite /\ MaxRefs \in Nat /\ pool_objects' \in [Pools -> Seq(Objects)]
      /\ \A x \in Objects : PoolSum(x) \in Nat /\ owned[x] \in Nat
  BY RefsParts
<1>2. \A x \in Objects : PoolRefs(x)' = PoolRefs(x) /\ PoolSum(x)' = PoolSum(x)
  BY SumsSame
<1>3. \A x \in Objects : IsFiniteSet(PoolRefs(x)') /\ PoolSum(x)' \in Nat
  BY <1>1, <1>2 DEF SumsFinite
<1>4. /\ owned' \in [Objects -> Nat]
      /\ \A x \in Objects : owned'[x] = owned[x] + IF x = o THEN 1 ELSE 0
  BY <1>1
<1>5. ASSUME NEW x \in Objects
      PROVE  owned'[x] + PoolSum(x)' <= owned[x] + PoolSum(x) + (IF x = o THEN 1 ELSE 0)
  BY <1>1, <1>2, <1>4
<1>6. rc[o] \in 1 .. (MaxRefs - 1) /\ 1 \in {0, 1}
  BY <1>1
<1>7. QED
  BY <1>1, <1>3, <1>4, <1>5, <1>6, GuestStep

LEMMA RetainStep ==
    ASSUME Refs!RefsAssumption, RefsInv, NEW t \in RefThreads, NEW o \in Objects,
           Refs!objc_retain(t, o) \/ Refs!objc_autorelease(t, o) \/ Refs!objc_retainAutorelease(t, o)
    PROVE  RefsInv'
<1>1. /\ owned \in [Objects -> Nat] /\ rc \in [Objects \cup Pools -> -1 .. MaxRefs]
      /\ RefTypes /\ SumsFinite /\ MaxRefs \in Nat /\ owned[o] \in Nat
      /\ \A x \in Objects : PoolSum(x) \in Nat /\ owned[x] \in Nat
      /\ pool_objects \in [Pools -> Seq(Objects)]
  BY RefsParts
<1>2. owned[o] > 0 /\ rc[o] > 0
  <2>1. owned[o] > 0
    BY DEF Refs!objc_retain, Refs!objc_autorelease, Refs!objc_retainAutorelease
  <2>2. QED
    BY <2>1, UsableThere
<1>3. CASE Refs!objc_retain(t, o)
  <2>1. /\ rc' = [rc EXCEPT ![o] = rc[o] + 1] /\ owned' = [owned EXCEPT ![o] = owned[o] + 1]
        /\ rc[o] < MaxRefs
        /\ UNCHANGED <<weak_refs, slot, managed, pool_stacks, pool_objects, kvc, assoc, frames>>
    BY <1>2, <1>3 DEF Refs!objc_retain, Refs!increment_refcount, Refs!None, Refs!weakVars, Refs!poolVars, Refs!tabVars
  <2>2. QED
    BY <1>2, <2>1, RetainedStep
<1>4. CASE Refs!objc_autorelease(t, o)
  <2>1. /\ owned' = [owned EXCEPT ![o] = owned[o] - 1] /\ Refs!addObject(t, o)
        /\ UNCHANGED <<rc, weak_refs, slot, managed, pool_stacks, kvc, assoc, frames>>
    BY <1>4 DEF Refs!objc_autorelease, Refs!weakVars, Refs!tabVars
  <2>2. /\ pool_objects' \in [Pools -> Seq(Objects)]
        /\ \A x \in Objects : /\ IsFiniteSet(PoolRefs(x)')
                              /\ PoolSum(x)' <= PoolSum(x) + (IF x = o THEN 1 ELSE 0)
    BY <1>1, <2>1, PoolAdded
  <2>3. \A x \in Objects : PoolSum(x)' \in Nat
    BY <2>2, FS_CardinalityType DEF PoolSum
  <2>4. owned' \in [Objects -> Nat] /\ \A x \in Objects : owned'[x] = owned[x] - IF x = o THEN 1 ELSE 0
    BY <1>1, <1>2, <2>1
  <2>5. ASSUME NEW x \in Objects
        PROVE  owned'[x] + PoolSum(x)' <= owned[x] + PoolSum(x) + (IF x = o THEN 0 ELSE 0)
    <3>1. /\ PoolSum(x)' <= PoolSum(x) + (IF x = o THEN 1 ELSE 0)
          /\ owned'[x] = owned[x] - IF x = o THEN 1 ELSE 0
          /\ PoolSum(x)' \in Nat /\ PoolSum(x) \in Nat /\ owned[x] \in Nat
      BY <1>1, <2>2, <2>3, <2>4
    <3>2. QED
      BY <3>1
  <2>6. rc' = [rc EXCEPT ![o] = rc[o] + 0] /\ 0 \in {0, 1} /\ (0 = 1 => rc[o] \in 1 .. (MaxRefs - 1))
    BY <1>1, <2>1
  <2>7. QED
    BY <1>1, <2>1, <2>2, <2>3, <2>4, <2>5, <2>6, GuestStep
<1>5. CASE Refs!objc_retainAutorelease(t, o)
  <2>1. /\ rc' = [rc EXCEPT ![o] = rc[o] + 1] /\ rc[o] < MaxRefs /\ Refs!addObject(t, o)
        /\ UNCHANGED <<weak_refs, slot, managed, pool_stacks, kvc, assoc, frames, owned>>
    BY <1>2, <1>5 DEF Refs!objc_retainAutorelease, Refs!increment_refcount, Refs!None, Refs!weakVars, Refs!tabVars
  <2>2. QED
    BY <1>1, <1>2, <2>1, PooledStep
<1>6. QED
  BY <1>3, <1>4, <1>5

\* What a weak variable refers to is listed, and so it is there.
LEMMA WeakThere ==
    ASSUME Refs!RefsAssumption, RefsInv, NEW s \in Slots, managed[s], slot[s] # Nil
    PROVE  slot[s] \in Objects /\ rc[slot[s]] # -1 /\ rc[slot[s]] \in Int
<1>1. slot[s] \in Objects
  BY RefsParts
<1>2. weak_refs[slot[s]][s] > 0
  BY <1>1 DEF RefsInv, Refs!WeakTableExact
<1>3. rc[slot[s]] # -1
  BY <1>1, <1>2 DEF RefsInv, Refs!WeakTableExact, Refs!Absent
<1>4. rc[slot[s]] \in Int
  BY <1>1, RefsParts
<1>5. QED
  BY <1>1, <1>3, <1>4

LEMMA LoadStep ==
    ASSUME Refs!RefsAssumption, ~LoadDying, RefsInv, NEW t \in RefThreads, NEW s \in Slots,
           Refs!objc_loadWeakRetained(t, s) \/ Refs!objc_loadWeak(t, s)
    PROVE  RefsInv'
<1>1. /\ managed[s] /\ slot[s] # Nil /\ rc[slot[s]] < MaxRefs /\ rc[slot[s]] # 0
  BY DEF Refs!objc_loadWeakRetained, Refs!objc_loadWeak, Refs!WeakReadable, Refs!None
<1>2. PICK o \in Objects : o = slot[s] /\ rc[o] # -1
  BY <1>1, WeakThere
<1>3. rc[o] > 0 /\ rc[o] < MaxRefs
  <2>1. rc[o] \in -1 .. MaxRefs /\ MaxRefs \in Nat
    BY RefsParts
  <2>2. rc[o] # 0 /\ rc[o] < MaxRefs
    BY <1>1, <1>2
  <2>3. QED
    BY <1>2, <2>1, <2>2
<1>4. CASE Refs!objc_loadWeakRetained(t, s)
  <2>1. /\ rc' = [rc EXCEPT ![o] = rc[o] + 1] /\ owned' = [owned EXCEPT ![o] = owned[o] + 1]
        /\ UNCHANGED <<weak_refs, slot, managed, pool_stacks, pool_objects, kvc, assoc, frames>>
    BY <1>2, <1>3, <1>4 DEF Refs!objc_loadWeakRetained, Refs!increment_refcount, Refs!None,
       Refs!weakVars, Refs!poolVars, Refs!tabVars
  <2>2. QED
    BY <1>3, <2>1, RetainedStep
<1>5. CASE Refs!objc_loadWeak(t, s)
  <2>1. /\ rc' = [rc EXCEPT ![o] = rc[o] + 1] /\ Refs!addObject(t, o)
        /\ UNCHANGED <<weak_refs, slot, managed, pool_stacks, kvc, assoc, frames, owned>>
    BY <1>2, <1>3, <1>5 DEF Refs!objc_loadWeak, Refs!increment_refcount, Refs!None, Refs!weakVars, Refs!tabVars
  <2>2. QED
    BY <1>3, <2>1, PooledStep
<1>6. QED
  BY <1>4, <1>5

\* What the weak calls leave alone, and how the table changes.
LEMMA WeakStep ==
    ASSUME Refs!RefsAssumption, RefsInv,
           UNCHANGED <<rc, pool_stacks, pool_objects, kvc, assoc, frames, owned>>,
           weak_refs' \in [Objects -> [Slots -> Nat]],
           slot' \in [Slots -> Objects \cup {Nil}], managed' \in [Slots -> BOOLEAN],
           Refs!WeakTableExact'
    PROVE  RefsInv'
<1>1. RefTypes'
  BY RefsParts DEF RefTypes, Refs!TypeOK, Refs!Absent
<1>2. /\ \A x \in Objects :
            /\ FrameRefs(x)' = FrameRefs(x) /\ CallsFor(x)' = CallsFor(x) /\ PoolRefs(x)' = PoolRefs(x)
            /\ KvcRefs(x)' = KvcRefs(x) /\ AssocRefs(x)' = AssocRefs(x)
            /\ FrameSum(x)' = FrameSum(x) /\ CallSum(x)' = CallSum(x) /\ PoolSum(x)' = PoolSum(x)
            /\ KvcSum(x)' = KvcSum(x) /\ AssocSum(x)' = AssocSum(x)
      /\ \A p \in Pools : /\ InDrains(p)' = InDrains(p) /\ DrainSum(p)' = DrainSum(p)
                          /\ OnStacks(p)' = OnStacks(p) /\ StackSum(p)' = StackSum(p)
  BY SumsSame
<1>3. SumsFinite' /\ RetainedThere'
  BY <1>2 DEF RefsInv, SumsFinite, RetainedThere
<1>4. \A x \in Objects : Owed(x)' = Owed(x)
  BY <1>2 DEF Owed, Kept
<1>5. OwedCounted' /\ DyingOnce' /\ PoolOnce'
  BY <1>2, <1>4 DEF RefsInv, OwedCounted, DyingOnce, PoolOnce
<1>6. QED
  BY <1>1, <1>3, <1>5 DEF RefsInv

LEMMA Registered ==
    ASSUME NEW wr \in [Objects -> [Slots -> Nat]], Nil \notin Objects,
           NEW v \in Objects \cup {Nil}, NEW s \in Slots
    PROVE  /\ Refs!register_weak(wr, v, s) \in [Objects -> [Slots -> Nat]]
           /\ Refs!unregister_weak(wr, v, s) \in [Objects -> [Slots -> Nat]]
           /\ \A o \in Objects, q \in Slots :
                 /\ Refs!register_weak(wr, v, s)[o][q] = wr[o][q] + IF o = v /\ q = s THEN 1 ELSE 0
                 /\ Refs!unregister_weak(wr, v, s)[o][q] = IF o = v /\ q = s THEN 0 ELSE wr[o][q]
<1>1. CASE v = Nil
  BY <1>1 DEF Refs!register_weak, Refs!unregister_weak
<1>2. CASE v \in Objects
  <2>1. v # Nil
    BY <1>2
  <2>2. /\ Refs!register_weak(wr, v, s) = [wr EXCEPT ![v] = [wr[v] EXCEPT ![s] = wr[v][s] + 1]]
        /\ Refs!unregister_weak(wr, v, s) = [wr EXCEPT ![v] = [wr[v] EXCEPT ![s] = 0]]
    BY <2>1 DEF Refs!register_weak, Refs!unregister_weak
  <2>3. wr[v] \in [Slots -> Nat] /\ wr[v][s] \in Nat
    BY <1>2
  <2>4. [wr[v] EXCEPT ![s] = wr[v][s] + 1] \in [Slots -> Nat] /\ [wr[v] EXCEPT ![s] = 0] \in [Slots -> Nat]
    BY <2>3
  <2>5. QED
    BY <1>2, <2>2, <2>3, <2>4
<1>3. QED
  BY <1>1, <1>2

\* objc_initWeak, objc_storeWeak and objc_destroyWeak.
LEMMA StoreStep ==
    ASSUME Refs!RefsAssumption, RefsInv, NEW t \in RefThreads, NEW s \in Slots,
           \/ \E v \in Objects \cup {Nil} : Refs!objc_initWeak(t, s, v) \/ Refs!objc_storeWeak(t, s, v)
           \/ Refs!objc_destroyWeak(t, s)
    PROVE  RefsInv'
<1>1. /\ weak_refs \in [Objects -> [Slots -> Nat]] /\ slot \in [Slots -> Objects \cup {Nil}]
      /\ managed \in [Slots -> BOOLEAN] /\ Nil \notin Objects
  BY RefsParts
<1>2. \A o \in Objects, q \in Slots :
         /\ weak_refs[o][q] = IF managed[q] /\ slot[q] = o THEN 1 ELSE 0
         /\ weak_refs[o][q] > 0 => rc[o] # -1
  BY DEF RefsInv, Refs!WeakTableExact, Refs!Absent
<1>3. UNCHANGED <<rc, pool_stacks, pool_objects, kvc, assoc, frames, owned>>
  BY DEF Refs!objc_initWeak, Refs!objc_storeWeak, Refs!objc_destroyWeak, Refs!poolVars, Refs!tabVars
<1>4. PICK v \in Objects \cup {Nil}, b \in BOOLEAN, wr \in [Objects -> [Slots -> Nat]] :
         /\ slot' = [slot EXCEPT ![s] = v] /\ managed' = [managed EXCEPT ![s] = b]
         /\ v \in Objects => b /\ rc[v] # -1
         /\ weak_refs' = Refs!register_weak(wr, v, s)
         /\ \A o \in Objects : wr[o][s] = 0 /\ \A q \in Slots \ {s} : wr[o][q] = weak_refs[o][q]
  <2>1. CASE \E v \in Objects \cup {Nil} : Refs!objc_initWeak(t, s, v)
    <3>1. PICK v \in Objects \cup {Nil} : Refs!objc_initWeak(t, s, v)
      BY <2>1
    <3>2. /\ slot' = [slot EXCEPT ![s] = v] /\ managed' = [managed EXCEPT ![s] = TRUE] /\ ~managed[s]
          /\ weak_refs' = Refs!register_weak(weak_refs, v, s)
          /\ v \in Objects => Refs!Usable(t, v)
      BY <1>1, <3>1 DEF Refs!objc_initWeak
    <3>3. \A o \in Objects : weak_refs[o][s] = 0
      BY <1>2, <3>2
    <3>4. v \in Objects => rc[v] # -1
      BY <3>2, UsableThere
    <3>5. QED
      BY <1>1, <3>2, <3>3, <3>4
  <2>2. CASE \E v \in Objects \cup {Nil} : Refs!objc_storeWeak(t, s, v)
    <3>1. PICK v \in Objects \cup {Nil} : Refs!objc_storeWeak(t, s, v)
      BY <2>2
    <3>2. /\ slot' = [slot EXCEPT ![s] = v] /\ managed' = managed /\ managed[s] = TRUE
          /\ weak_refs' = Refs!register_weak(Refs!unregister_weak(weak_refs, slot[s], s), v, s)
          /\ v \in Objects => Refs!Usable(t, v)
      BY <1>1, <3>1 DEF Refs!objc_storeWeak
    <3>3. managed' = [managed EXCEPT ![s] = TRUE]
      BY <1>1, <3>2
    <3>4. v \in Objects => rc[v] # -1
      BY <3>2, UsableThere
    <3>5. PICK wr \in [Objects -> [Slots -> Nat]] :
             /\ wr = Refs!unregister_weak(weak_refs, slot[s], s)
             /\ \A o \in Objects, q \in Slots :
                   wr[o][q] = IF o = slot[s] /\ q = s THEN 0 ELSE weak_refs[o][q]
      BY <1>1, Registered
    <3>6. \A o \in Objects : wr[o][s] = 0 /\ \A q \in Slots \ {s} : wr[o][q] = weak_refs[o][q]
      BY <1>2, <3>5
    <3>7. QED
      BY <3>2, <3>3, <3>4, <3>5, <3>6
  <2>3. CASE Refs!objc_destroyWeak(t, s)
    <3>1. /\ slot' = [slot EXCEPT ![s] = Nil] /\ managed' = [managed EXCEPT ![s] = FALSE]
          /\ weak_refs' = Refs!unregister_weak(weak_refs, slot[s], s)
      BY <2>3 DEF Refs!objc_destroyWeak
    <3>2. PICK wr \in [Objects -> [Slots -> Nat]] :
             /\ wr = Refs!unregister_weak(weak_refs, slot[s], s)
             /\ \A o \in Objects, q \in Slots :
                   wr[o][q] = IF o = slot[s] /\ q = s THEN 0 ELSE weak_refs[o][q]
      BY <1>1, Registered
    <3>3. \A o \in Objects : wr[o][s] = 0 /\ \A q \in Slots \ {s} : wr[o][q] = weak_refs[o][q]
      BY <1>2, <3>2
    <3>4. Refs!register_weak(wr, Nil, s) = wr
      BY DEF Refs!register_weak
    <3>5. /\ Nil \in Objects \cup {Nil} /\ FALSE \in BOOLEAN
          /\ Nil \in Objects => FALSE /\ rc[Nil] # -1
          /\ weak_refs' = Refs!register_weak(wr, Nil, s)
      BY <1>1, <3>1, <3>2, <3>4
    <3>6. QED
      BY <3>1, <3>2, <3>3, <3>5
  <2>4. QED
    BY <2>1, <2>2, <2>3
<1>5. /\ weak_refs' \in [Objects -> [Slots -> Nat]] /\ slot' \in [Slots -> Objects \cup {Nil}]
      /\ managed' \in [Slots -> BOOLEAN]
      /\ \A o \in Objects, q \in Slots : weak_refs'[o][q] = wr[o][q] + IF o = v /\ q = s THEN 1 ELSE 0
  BY <1>1, <1>4, Registered
<1>6. ASSUME NEW o \in Objects, NEW q \in Slots
      PROVE  /\ weak_refs'[o][q] = IF managed'[q] /\ slot'[q] = o THEN 1 ELSE 0
             /\ weak_refs'[o][q] > 0 => rc'[o] # -1
  <2>1. CASE q = s
    <3>1. managed'[q] = b /\ slot'[q] = v /\ wr[o][q] = 0
      BY <1>1, <1>4, <2>1
    <3>2. weak_refs'[o][q] = IF o = v THEN 1 ELSE 0
      BY <1>5, <2>1, <3>1
    <3>3. QED
      BY <1>3, <1>4, <3>1, <3>2
  <2>2. CASE q # s
    <3>1. managed'[q] = managed[q] /\ slot'[q] = slot[q] /\ wr[o][q] = weak_refs[o][q]
      BY <1>1, <1>4, <2>2
    <3>2. weak_refs'[o][q] = weak_refs[o][q]
      BY <1>1, <1>5, <2>2, <3>1
    <3>3. QED
      BY <1>2, <1>3, <3>1, <3>2
  <2>3. QED
    BY <2>1, <2>2
<1>7. Refs!WeakTableExact'
  BY <1>6 DEF Refs!WeakTableExact, Refs!Absent
<1>8. QED
  BY <1>3, <1>5, <1>7, WeakStep

\* objc_copyWeak and objc_moveWeak.
LEMMA CopyStep ==
    ASSUME Refs!RefsAssumption, RefsInv, NEW t \in RefThreads, NEW s \in Slots, NEW from \in Slots,
           Refs!objc_copyWeak(t, s, from) \/ Refs!objc_moveWeak(t, s, from)
    PROVE  RefsInv'
<1>1. /\ weak_refs \in [Objects -> [Slots -> Nat]] /\ slot \in [Slots -> Objects \cup {Nil}]
      /\ managed \in [Slots -> BOOLEAN] /\ Nil \notin Objects
  BY RefsParts
<1>2. \A o \in Objects, q \in Slots :
         /\ weak_refs[o][q] = IF managed[q] /\ slot[q] = o THEN 1 ELSE 0
         /\ weak_refs[o][q] > 0 => rc[o] # -1
  BY DEF RefsInv, Refs!WeakTableExact, Refs!Absent
<1>3. /\ UNCHANGED <<rc, pool_stacks, pool_objects, kvc, assoc, frames, owned>>
      /\ managed[from] = TRUE /\ managed[s] = FALSE
  BY <1>1 DEF Refs!objc_copyWeak, Refs!objc_moveWeak, Refs!poolVars, Refs!tabVars
<1>4. PICK v \in Objects \cup {Nil} : v = slot[from]
  BY <1>1
<1>5. from # s /\ (v \in Objects => rc[v] # -1)
  <2>1. v \in Objects => weak_refs[v][from] = 1
    BY <1>2, <1>3, <1>4
  <2>2. QED
    BY <1>2, <1>3, <2>1
<1>6. PICK wr \in [Objects -> [Slots -> Nat]], k \in Objects \cup {Nil}, b \in BOOLEAN :
         /\ slot' = [[slot EXCEPT ![s] = v] EXCEPT ![from] = k]
         /\ managed' = [[managed EXCEPT ![s] = TRUE] EXCEPT ![from] = b]
         /\ weak_refs' = Refs!register_weak(wr, v, s)
         /\ \A o \in Objects : \A q \in Slots \ {from} : wr[o][q] = weak_refs[o][q]
         /\ \A o \in Objects : wr[o][from] = IF b /\ k = o THEN 1 ELSE 0
         /\ b => k = v
  <2>1. CASE Refs!objc_copyWeak(t, s, from)
    <3>1. /\ slot' = [slot EXCEPT ![s] = v] /\ managed' = [managed EXCEPT ![s] = TRUE]
          /\ weak_refs' = Refs!register_weak(weak_refs, v, s)
      BY <1>4, <2>1 DEF Refs!objc_copyWeak
    <3>2. /\ slot' = [[slot EXCEPT ![s] = v] EXCEPT ![from] = v]
          /\ managed' = [[managed EXCEPT ![s] = TRUE] EXCEPT ![from] = TRUE]
      BY <1>1, <1>3, <1>4, <1>5, <3>1
    <3>3. \A o \in Objects : weak_refs[o][from] = IF TRUE /\ v = o THEN 1 ELSE 0
      BY <1>2, <1>3, <1>4
    <3>4. QED
      BY <1>1, <3>1, <3>2, <3>3
  <2>2. CASE Refs!objc_moveWeak(t, s, from)
    <3>1. /\ slot' = [[slot EXCEPT ![s] = v] EXCEPT ![from] = Nil]
          /\ managed' = [[managed EXCEPT ![s] = TRUE] EXCEPT ![from] = FALSE]
          /\ weak_refs' = Refs!register_weak(Refs!unregister_weak(weak_refs, v, from), v, s)
      BY <1>4, <2>2 DEF Refs!objc_moveWeak
    <3>2. PICK wr \in [Objects -> [Slots -> Nat]] :
             /\ wr = Refs!unregister_weak(weak_refs, v, from)
             /\ \A o \in Objects, q \in Slots :
                   wr[o][q] = IF o = v /\ q = from THEN 0 ELSE weak_refs[o][q]
      BY <1>1, Registered
    <3>3. /\ \A o \in Objects : \A q \in Slots \ {from} : wr[o][q] = weak_refs[o][q]
          /\ \A o \in Objects : wr[o][from] = IF FALSE /\ Nil = o THEN 1 ELSE 0
      BY <1>2, <1>4, <3>2
    <3>4. QED
      BY <3>1, <3>2, <3>3
  <2>3. QED
    BY <2>1, <2>2
<1>7. /\ weak_refs' \in [Objects -> [Slots -> Nat]] /\ slot' \in [Slots -> Objects \cup {Nil}]
      /\ managed' \in [Slots -> BOOLEAN]
      /\ \A o \in Objects, q \in Slots : weak_refs'[o][q] = wr[o][q] + IF o = v /\ q = s THEN 1 ELSE 0
  <2>1. Refs!register_weak(wr, v, s) \in [Objects -> [Slots -> Nat]]
        /\ \A o \in Objects, q \in Slots :
              Refs!register_weak(wr, v, s)[o][q] = wr[o][q] + IF o = v /\ q = s THEN 1 ELSE 0
    <3>1. wr \in [Objects -> [Slots -> Nat]] /\ v \in Objects \cup {Nil} /\ s \in Slots
      OBVIOUS
    <3>2. Refs!register_weak(wr, v, s) \in [Objects -> [Slots -> Nat]]
      BY ONLY <1>1, <3>1, Registered
    <3>3. ASSUME NEW o \in Objects, NEW q \in Slots
          PROVE  Refs!register_weak(wr, v, s)[o][q] = wr[o][q] + IF o = v /\ q = s THEN 1 ELSE 0
      BY ONLY <1>1, <3>1, <3>3, Registered
    <3>4. QED
      BY <3>2, <3>3
  <2>2. slot' \in [Slots -> Objects \cup {Nil}] /\ managed' \in [Slots -> BOOLEAN]
    BY <1>1, <1>6
  <2>3. QED
    BY <1>6, <2>1, <2>2
<1>8. ASSUME NEW o \in Objects, NEW q \in Slots
      PROVE  /\ weak_refs'[o][q] = IF managed'[q] /\ slot'[q] = o THEN 1 ELSE 0
             /\ weak_refs'[o][q] > 0 => rc'[o] # -1
  <2>1. CASE q = s
    <3>1. managed'[q] = TRUE /\ slot'[q] = v /\ wr[o][q] = 0
      BY <1>1, <1>2, <1>3, <1>5, <1>6, <2>1
    <3>2. weak_refs'[o][q] = IF o = v THEN 1 ELSE 0
      BY <1>7, <2>1, <3>1
    <3>3. QED
      BY <1>3, <1>5, <3>1, <3>2
  <2>2. CASE q = from
    <3>1. managed'[q] = b /\ slot'[q] = k /\ wr[o][q] = IF b /\ k = o THEN 1 ELSE 0
      BY <1>1, <1>6, <2>2
    <3>2. weak_refs'[o][q] = wr[o][q]
      BY <1>5, <1>7, <2>2, <3>1
    <3>3. QED
      BY <1>3, <1>5, <1>6, <3>1, <3>2
  <2>3. CASE q # s /\ q # from
    <3>1. managed'[q] = managed[q] /\ slot'[q] = slot[q] /\ wr[o][q] = weak_refs[o][q]
      BY <1>1, <1>6, <2>3
    <3>2. weak_refs'[o][q] = weak_refs[o][q]
      BY <1>1, <1>7, <2>3, <3>1
    <3>3. QED
      BY <1>2, <1>3, <3>1, <3>2
  <2>4. QED
    BY <2>1, <2>2, <2>3
<1>9. Refs!WeakTableExact'
  BY <1>8 DEF Refs!WeakTableExact, Refs!Absent
<1>10. QED
  BY <1>3, <1>7, <1>9, WeakStep

\* Only the guest's references change.
LEMMA KeptSame ==
    ASSUME Refs!RefsAssumption, RefsInv, UNCHANGED <<pool_objects, kvc, assoc>>,
           owned' \in [Objects -> Nat]
    PROVE  /\ kvc' \in [Objects -> Objects \cup {Nil}]
           /\ assoc' \in [Objects -> [val : Objects \cup {Nil}, retained : BOOLEAN]]
           /\ pool_objects' \in [Pools -> Seq(Objects)] /\ RetainedThere'
           /\ \A y \in Objects :
                 /\ IsFiniteSet(PoolRefs(y)') /\ IsFiniteSet(KvcRefs(y)') /\ IsFiniteSet(AssocRefs(y)')
                 /\ Kept(y)' = Kept(y) - owned[y] + owned'[y]
                 /\ Kept(y)' \in Nat /\ Kept(y) \in Nat /\ owned[y] \in Nat
<1>1. \A x \in Objects :
         /\ PoolRefs(x)' = PoolRefs(x) /\ KvcRefs(x)' = KvcRefs(x) /\ AssocRefs(x)' = AssocRefs(x)
         /\ PoolSum(x)' = PoolSum(x) /\ KvcSum(x)' = KvcSum(x) /\ AssocSum(x)' = AssocSum(x)
  BY SumsSame
<1>2. \A y \in Objects :
         IsFiniteSet(PoolRefs(y)') /\ IsFiniteSet(KvcRefs(y)') /\ IsFiniteSet(AssocRefs(y)')
  BY <1>1, RefsParts DEF SumsFinite
<1>3. ASSUME NEW y \in Objects
      PROVE  /\ Kept(y)' = Kept(y) - owned[y] + owned'[y]
             /\ Kept(y)' \in Nat /\ Kept(y) \in Nat /\ owned[y] \in Nat
  <2>1. owned[y] \in Nat /\ PoolSum(y) \in Nat /\ KvcSum(y) \in Nat /\ AssocSum(y) \in Nat
        /\ Kept(y) \in Nat
    BY RefsParts
  <2>2. owned'[y] \in Nat
    OBVIOUS
  <2>3. Kept(y)' = owned'[y] + PoolSum(y) + KvcSum(y) + AssocSum(y)
    BY <1>1 DEF Kept
  <2>4. Kept(y) = owned[y] + PoolSum(y) + KvcSum(y) + AssocSum(y)
    BY DEF Kept
  <2>5. QED
    BY <2>1, <2>2, <2>3, <2>4
<1>4. RetainedThere'
  BY RefsParts DEF RetainedThere
<1>5. QED
  BY <1>2, <1>3, <1>4, RefsParts

\* Another frame on top.
LEMMA TopReplaced ==
    ASSUME RefTypes, SumsFinite, NEW t \in RefThreads, frames[t] # <<>>, NEW g \in RefFrames
    PROVE  /\ FiniteFrames(<<g>> \o Tail(frames[t])) /\ FiniteFrames(Tail(frames[t]))
           /\ Refs!Top(t) \in RefFrames
           /\ \A y \in Objects :
                 /\ TodoCount(<<g>> \o Tail(frames[t]), y) = FrameTodo(g, y) + TodoCount(Tail(frames[t]), y)
                 /\ TodoCount(frames[t], y) = FrameTodo(Refs!Top(t), y) + TodoCount(Tail(frames[t]), y)
                 /\ DyingCount(<<g>> \o Tail(frames[t]), y) = FrameDies(g, y) + DyingCount(Tail(frames[t]), y)
                 /\ DyingCount(frames[t], y) = FrameDies(Refs!Top(t), y) + DyingCount(Tail(frames[t]), y)
                 /\ TodoCount(Tail(frames[t]), y) \in Nat /\ DyingCount(Tail(frames[t]), y) \in Nat
           /\ \A p \in Pools :
                 /\ DropsCount(<<g>> \o Tail(frames[t]), p) = FrameDrops(g, p) + DropsCount(Tail(frames[t]), p)
                 /\ DropsCount(frames[t], p) = FrameDrops(Refs!Top(t), p) + DropsCount(Tail(frames[t]), p)
                 /\ DropsCount(Tail(frames[t]), p) \in Nat
<1>1. /\ Refs!Top(t) \in RefFrames /\ FiniteFrames(Tail(frames[t]))
      /\ \A x \in Objects :
            /\ TodoCount(frames[t], x) = FrameTodo(Refs!Top(t), x) + TodoCount(Tail(frames[t]), x)
            /\ DyingCount(frames[t], x) = FrameDies(Refs!Top(t), x) + DyingCount(Tail(frames[t]), x)
            /\ TodoCount(Tail(frames[t]), x) \in Nat /\ DyingCount(Tail(frames[t]), x) \in Nat
      /\ \A p \in Pools :
            /\ DropsCount(frames[t], p) = FrameDrops(Refs!Top(t), p) + DropsCount(Tail(frames[t]), p)
            /\ DropsCount(Tail(frames[t]), p) \in Nat
  BY FrameTop
<1>2. QED
  BY <1>1, FramesPushed

LEMMA FrameParts ==
    ASSUME NEW f \in RefFrames
    PROVE  /\ f.todo \in Seq(Objects) /\ f.pools \in Seq(Pools)
           /\ f.kind # "drain" => f.obj \in Objects /\ f.pools = <<>>
           /\ f.kind = "dealloc" => f.todo = <<>>
           /\ f.kind = "assoc" => Len(f.todo) = 1
           /\ \A x : FrameTodo(f, x) = Cardinality(Refs!Places(f.todo, x)) /\ FrameTodo(f, x) \in Nat
           /\ \A x : FrameDrops(f, x) = Cardinality(Refs!Places(f.pools, x)) /\ FrameDrops(f, x) \in Nat
           /\ \A x : FrameDies(f, x) = IF f.kind \in {"dealloc", "kvc"} /\ f.obj = x THEN 1 ELSE 0
           /\ f.pools = <<>> => \A x : FrameDrops(f, x) = 0
           /\ f.todo = <<>> => \A x : FrameTodo(f, x) = 0
<1>1. /\ f.todo \in Seq(Objects) /\ f.pools \in Seq(Pools)
      /\ f.kind # "drain" => f.obj \in Objects /\ f.pools = <<>>
      /\ f.kind = "dealloc" => f.todo = <<>>
      /\ f.kind = "assoc" => Len(f.todo) = 1
  BY DEF RefFrames
<1>2. /\ \A x : FrameTodo(f, x) = Cardinality(Refs!Places(f.todo, x)) /\ FrameTodo(f, x) \in Nat
      /\ \A x : FrameDrops(f, x) = Cardinality(Refs!Places(f.pools, x)) /\ FrameDrops(f, x) \in Nat
  BY FrameCounts DEF FrameTodo, FrameDrops
<1>3. \A x : FrameDies(f, x) = IF f.kind \in {"dealloc", "kvc"} /\ f.obj = x THEN 1 ELSE 0
  BY DEF FrameDies
<1>4. /\ f.pools = <<>> => \A x : FrameDrops(f, x) = 0
      /\ f.todo = <<>> => \A x : FrameTodo(f, x) = 0
  BY PlacesEmpty DEF FrameTodo, FrameDrops
<1>5. QED
  BY <1>1, <1>2, <1>3, <1>4

LEMMA NewPoolStep ==
    ASSUME Refs!RefsAssumption, RefsInv, NEW t \in RefThreads, NEW p \in Pools, Refs!NewPool(t, p)
    PROVE  RefsInv'
<1>1. /\ rc[p] = -1 /\ rc' = [rc EXCEPT ![p] = 1]
      /\ pool_stacks' = [pool_stacks EXCEPT ![t] = Append(pool_stacks[t], p)]
      /\ UNCHANGED <<weak_refs, slot, managed, pool_objects, kvc, assoc, frames, owned>>
  BY DEF Refs!NewPool, Refs!Absent, Refs!weakVars, Refs!tabVars
<1>2. /\ rc' \in [Objects \cup Pools -> -1 .. MaxRefs]
      /\ \A x \in Objects : rc'[x] = rc[x]
      /\ \A q \in Pools : rc'[q] = IF q = p THEN 1 ELSE rc[q]
  <2>1. /\ rc \in [Objects \cup Pools -> -1 .. MaxRefs] /\ MaxRefs \in Nat \ {0}
        /\ Objects \cap Pools = {}
    BY RefsParts
  <2>2. QED
    BY <1>1, <2>1
<1>3. pool_stacks[t] \in Seq(Pools) /\ Append(pool_stacks[t], p) \in Seq(Pools)
  BY RefsParts
<1>4. /\ pool_stacks' \in [RefThreads -> Seq(Pools)]
      /\ \A q \in Pools :
            /\ IsFiniteSet(OnStacks(q)')
            /\ StackSum(q)' = StackSum(q) - Cardinality(Refs!Places(pool_stacks[t], q))
                                          + Cardinality(Refs!Places(Append(pool_stacks[t], p), q))
  <2>1. RefTypes /\ SumsFinite
    BY RefsParts
  <2>2. QED
    BY <1>1, <1>3, <2>1, StackChanged
<1>5. \A q \in Pools : /\ Cardinality(Refs!Places(Append(pool_stacks[t], p), q))
                            = Cardinality(Refs!Places(pool_stacks[t], q)) + (IF p = q THEN 1 ELSE 0)
                       /\ Cardinality(Refs!Places(pool_stacks[t], q)) \in Nat
  BY <1>3, PlacesAppend, PlacesCount
<1>6. owned' \in [Objects -> Nat] /\ \A x \in Objects : owned'[x] = owned[x]
  BY <1>1, RefsParts
<1>7. \A x \in Objects : PoolRefs(x)' = PoolRefs(x) /\ PoolSum(x)' = PoolSum(x) /\ PoolSum(x) \in Nat
  BY <1>1, SumsSame, RefsParts
<1>8. /\ \A x \in Objects :
            /\ IsFiniteSet(FrameRefs(x)') /\ IsFiniteSet(KvcRefs(x)')
            /\ IsFiniteSet(AssocRefs(x)') /\ IsFiniteSet(CallsFor(x)')
            /\ CallSum(x)' = CallSum(x)
            /\ Owed(x)' = Owed(x) - owned[x] - PoolSum(x) + owned'[x] + PoolSum(x)'
      /\ \A q \in Pools : IsFiniteSet(InDrains(q)') /\ DrainSum(q)' = DrainSum(q)
      /\ kvc' \in [Objects -> Objects \cup {Nil}]
      /\ assoc' \in [Objects -> [val : Objects \cup {Nil}, retained : BOOLEAN]]
      /\ frames' \in [RefThreads -> Seq(RefFrames)] /\ RetainedThere'
  BY <1>1, <1>6, <1>7, SameHolders
<1>9. SumsFinite'
  BY <1>4, <1>7, <1>8, RefsParts DEF SumsFinite
<1>10. ASSUME NEW x \in Objects
       PROVE  /\ Owed(x)' > 0 => rc'[x] >= Owed(x)'
              /\ CallSum(x)' = IF rc'[x] = 0 THEN 1 ELSE 0
              /\ rc'[x] = -1 => rc[x] = -1
  <2>1. Owed(x) \in Nat /\ owned[x] \in Nat /\ PoolSum(x) \in Nat
    BY RefsParts
  <2>2. Owed(x)' = Owed(x) - owned[x] - PoolSum(x) + owned[x] + PoolSum(x)
    BY <1>6, <1>7, <1>8
  <2>3. Owed(x)' = Owed(x)
    BY <2>1, <2>2
  <2>4. QED
    BY <1>2, <1>8, <2>3, RefsParts
<1>11. PoolOnce'
  <2>1. SUFFICES ASSUME NEW q \in Pools
                 PROVE  /\ StackSum(q)' + DrainSum(q)' = IF rc'[q] = -1 THEN 0 ELSE 1
                        /\ StackSum(q)' = 1 => rc'[q] = 1
    BY DEF PoolOnce
  <2>2. /\ StackSum(q) \in Nat /\ DrainSum(q) \in Nat
        /\ StackSum(q) + DrainSum(q) = IF rc[q] = -1 THEN 0 ELSE 1
        /\ StackSum(q) = 1 => rc[q] = 1
    BY RefsParts
  <2>3. StackSum(q)' = StackSum(q) + IF p = q THEN 1 ELSE 0
    BY <1>4, <1>5, <2>2
  <2>4. CASE q = p
    BY <1>1, <1>2, <1>8, <2>2, <2>3, <2>4
  <2>5. CASE q # p
    BY <1>2, <1>8, <2>2, <2>3, <2>5
  <2>6. QED
    BY <2>4, <2>5
<1>12. pool_objects' \in [Pools -> Seq(Objects)]
  BY <1>1, RefsParts
<1>13. QED
  BY <1>1, <1>2, <1>4, <1>6, <1>8, <1>9, <1>10, <1>11, <1>12, RefsStep

LEMMA GuestReleaseStep ==
    ASSUME Refs!RefsAssumption, RefsInv, NEW t \in RefThreads, NEW o \in Objects, Refs!objc_release(t, o)
    PROVE  RefsInv'
<1>1. /\ owned[o] > 0 /\ owned' = [owned EXCEPT ![o] = owned[o] - 1]
      /\ Refs!SendRelease(t, o, frames[t])
      /\ UNCHANGED <<weak_refs, slot, managed, pool_stacks, pool_objects, kvc, assoc>>
  BY DEF Refs!objc_release, Refs!weakVars, Refs!poolVars, Refs!tabVars
<1>2. owned \in [Objects -> Nat] /\ RefTypes /\ SumsFinite
  BY RefsParts
<1>3. owned' \in [Objects -> Nat] /\ \A y \in Objects : owned'[y] = owned[y] - IF y = o THEN 1 ELSE 0
  BY <1>1, <1>2
<1>4. /\ kvc' \in [Objects -> Objects \cup {Nil}]
      /\ assoc' \in [Objects -> [val : Objects \cup {Nil}, retained : BOOLEAN]]
      /\ pool_objects' \in [Pools -> Seq(Objects)] /\ RetainedThere'
      /\ \A y \in Objects :
            /\ IsFiniteSet(PoolRefs(y)') /\ IsFiniteSet(KvcRefs(y)') /\ IsFiniteSet(AssocRefs(y)')
            /\ Kept(y)' = Kept(y) - owned[y] + owned'[y]
            /\ Kept(y)' \in Nat /\ Kept(y) \in Nat /\ owned[y] \in Nat
  BY <1>1, <1>3, KeptSame
<1>5. FiniteFrames(frames[t]) /\ \A y \in Objects : TodoCount(frames[t], y) \in Nat
  BY <1>2, ThreadFrames
<1>6. ASSUME NEW y \in Objects
      PROVE  Kept(y)' + TodoCount(frames[t], y) + (IF y = o THEN 1 ELSE 0)
                <= Kept(y) + TodoCount(frames[t], y)
  <2>1. /\ Kept(y)' = Kept(y) - owned[y] + (owned[y] - IF y = o THEN 1 ELSE 0)
        /\ Kept(y) \in Nat /\ owned[y] \in Nat
    BY <1>3, <1>4
  <2>2. Kept(y)' + (IF y = o THEN 1 ELSE 0) = Kept(y)
    BY <2>1
  <2>3. QED
    BY <1>4, <1>5, <2>1, <2>2
<1>7. HoldersTyped /\ GivenUp(frames[t], frames[t], o)
  BY <1>3, <1>4, <1>6 DEF HoldersTyped, GivenUp
<1>8. QED
  BY <1>1, <1>2, <1>5, <1>7, ReleaseStep

\* The guest keeps what it has.
LEMMA KeptAll ==
    ASSUME Refs!RefsAssumption, RefsInv, UNCHANGED <<pool_objects, kvc, assoc, owned>>
    PROVE  HoldersTyped /\ \A y \in Objects : Kept(y)' = Kept(y) /\ Kept(y) \in Nat
<1>1. owned \in [Objects -> Nat] /\ owned' \in [Objects -> Nat]
  BY RefsParts
<1>2. /\ kvc' \in [Objects -> Objects \cup {Nil}]
      /\ assoc' \in [Objects -> [val : Objects \cup {Nil}, retained : BOOLEAN]]
      /\ pool_objects' \in [Pools -> Seq(Objects)] /\ RetainedThere'
      /\ \A y \in Objects :
            /\ IsFiniteSet(PoolRefs(y)') /\ IsFiniteSet(KvcRefs(y)') /\ IsFiniteSet(AssocRefs(y)')
            /\ Kept(y)' = Kept(y) - owned[y] + owned'[y]
            /\ Kept(y)' \in Nat /\ Kept(y) \in Nat /\ owned[y] \in Nat
  BY <1>1, KeptSame
<1>3. HoldersTyped
  BY <1>1, <1>2 DEF HoldersTyped
<1>4. ASSUME NEW y \in Objects PROVE Kept(y)' = Kept(y) /\ Kept(y) \in Nat
  <2>1. Kept(y)' = Kept(y) - owned[y] + owned[y] /\ Kept(y) \in Nat /\ owned[y] \in Nat
    BY <1>2
  <2>2. QED
    BY <2>1
<1>5. QED
  BY <1>3, <1>4

\* A release by a loop in the top frame, which goes on as frame g.
LEMMA LoopStep ==
    ASSUME Refs!RefsAssumption, RefsInv,
           UNCHANGED <<weak_refs, slot, managed, pool_stacks, pool_objects, kvc, assoc, owned>>,
           NEW t \in RefThreads, frames[t] # <<>>, NEW g \in RefFrames,
           Refs!Top(t).todo # <<>>, g.todo = Tail(Refs!Top(t).todo), g.pools = Refs!Top(t).pools,
           \A y : FrameDies(g, y) = FrameDies(Refs!Top(t), y),
           Refs!SendRelease(t, Head(Refs!Top(t).todo), <<g>> \o Tail(frames[t]))
    PROVE  RefsInv'
<1> DEFINE f == Refs!Top(t)  x == Head(f.todo)  rest == Tail(frames[t])
<1>1. RefTypes /\ SumsFinite
  BY RefsParts
<1>2. /\ FiniteFrames(<<g>> \o rest) /\ f \in RefFrames
      /\ \A y \in Objects :
            /\ TodoCount(<<g>> \o rest, y) = FrameTodo(g, y) + TodoCount(rest, y)
            /\ TodoCount(frames[t], y) = FrameTodo(f, y) + TodoCount(rest, y)
            /\ DyingCount(<<g>> \o rest, y) = FrameDies(g, y) + DyingCount(rest, y)
            /\ DyingCount(frames[t], y) = FrameDies(f, y) + DyingCount(rest, y)
            /\ TodoCount(rest, y) \in Nat
      /\ \A p \in Pools :
            /\ DropsCount(<<g>> \o rest, p) = FrameDrops(g, p) + DropsCount(rest, p)
            /\ DropsCount(frames[t], p) = FrameDrops(f, p) + DropsCount(rest, p)
  BY <1>1, TopReplaced
<1>3. HoldersTyped /\ \A y \in Objects : Kept(y)' = Kept(y) /\ Kept(y) \in Nat
  BY KeptAll
<1>4. f.todo \in Seq(Objects)
  BY <1>2, FrameParts
<1>5. x \in Objects /\ \A y : Cardinality(Refs!Places(f.todo, y))
                                = Cardinality(Refs!Places(Tail(f.todo), y)) + (IF x = y THEN 1 ELSE 0)
  BY <1>4, PlacesTail
<1>6. \A y : /\ FrameTodo(f, y) = FrameTodo(g, y) + (IF x = y THEN 1 ELSE 0)
             /\ FrameTodo(g, y) \in Nat /\ FrameDrops(g, y) = FrameDrops(f, y)
  BY <1>2, <1>5, FrameParts DEF FrameTodo, FrameDrops
<1>7. Refs!SendRelease(t, x, <<g>> \o rest)
  OBVIOUS
<1> HIDE DEF f, x, rest
<1>8. ASSUME NEW y \in Objects
      PROVE  /\ DyingCount(<<g>> \o rest, y) = DyingCount(frames[t], y)
             /\ Kept(y)' + TodoCount(<<g>> \o rest, y) + (IF y = x THEN 1 ELSE 0)
                   <= Kept(y) + TodoCount(frames[t], y)
  <2>1. FrameDies(g, y) = FrameDies(f, y)
    BY DEF f
  <2>2. DyingCount(<<g>> \o rest, y) = DyingCount(frames[t], y)
    BY <1>2, <2>1
  <2>3. PICK d \in {0, 1} : d = IF y = x THEN 1 ELSE 0
    OBVIOUS
  <2>4. /\ Kept(y)' = Kept(y) /\ Kept(y) \in Nat /\ TodoCount(rest, y) \in Nat /\ FrameTodo(g, y) \in Nat
        /\ TodoCount(<<g>> \o rest, y) = FrameTodo(g, y) + TodoCount(rest, y)
        /\ TodoCount(frames[t], y) = FrameTodo(g, y) + d + TodoCount(rest, y)
    BY <1>2, <1>3, <1>6, <2>3
  <2>5. Kept(y)' + TodoCount(<<g>> \o rest, y) + d <= Kept(y) + TodoCount(frames[t], y)
    BY <2>4
  <2>6. QED
    BY <2>2, <2>3, <2>5
<1>9. GivenUp(frames[t], <<g>> \o rest, x)
  BY <1>2, <1>6, <1>8 DEF GivenUp
<1>10. QED
  BY <1>1, <1>2, <1>3, <1>5, <1>7, <1>9, ReleaseStep

LEMMA KvcStepKeeps ==
    ASSUME Refs!RefsAssumption, RefsInv, NEW t \in RefThreads, Refs!KvcStep(t)
    PROVE  RefsInv'
<1> DEFINE f == Refs!Top(t)  g == Refs!KvcLoop(f.obj, Tail(f.todo))
<1>1. /\ f.kind = "kvc" /\ f.todo # <<>> /\ Refs!SendRelease(t, Head(f.todo), <<g>> \o Tail(frames[t]))
      /\ UNCHANGED <<weak_refs, slot, managed, pool_stacks, pool_objects, kvc, assoc, owned>>
  BY DEF Refs!KvcStep, Refs!weakVars, Refs!poolVars, Refs!tabVars
<1>2. frames[t] # <<>>
  BY <1>1, TopThere
<1>3. f \in RefFrames
  BY <1>2, FrameTop, RefsParts
<1>4. f.todo \in Seq(Objects) /\ f.obj \in Objects /\ f.pools = <<>>
  BY <1>1, <1>3, FrameParts
<1>5. Tail(f.todo) \in Seq(Objects)
  BY <1>1, <1>4
<1>6. g \in RefFrames
  BY <1>4, <1>5, FrameKinds
<1>7. g.todo = Tail(f.todo) /\ g.pools = f.pools /\ g.kind = "kvc" /\ g.obj = f.obj
  BY <1>4 DEF Refs!KvcLoop
<1>8. \A y : FrameDies(g, y) = FrameDies(f, y)
  BY <1>1, <1>7 DEF FrameDies
<1> HIDE DEF g
<1>9. QED
  BY <1>1, <1>2, <1>6, <1>7, <1>8, LoopStep

\* A frame that has nothing left to do.
LEMMA PoppedStep ==
    ASSUME Refs!RefsAssumption, RefsInv,
           UNCHANGED <<weak_refs, slot, managed, pool_stacks, pool_objects, kvc, assoc, owned, rc>>,
           NEW t \in RefThreads, frames[t] # <<>>, frames' = [frames EXCEPT ![t] = Tail(frames[t])],
           \A y : FrameDies(Refs!Top(t), y) = 0, \A y : FrameTodo(Refs!Top(t), y) = 0 /\ FrameDrops(Refs!Top(t), y) = 0
    PROVE  RefsInv'
<1> DEFINE f == Refs!Top(t)  rest == Tail(frames[t])
<1>1. RefTypes /\ SumsFinite /\ rc' \in [Objects \cup Pools -> -1 .. MaxRefs]
  BY RefsParts
<1>2. /\ FiniteFrames(rest)
      /\ \A y \in Objects :
            /\ TodoCount(frames[t], y) = FrameTodo(f, y) + TodoCount(rest, y)
            /\ DyingCount(frames[t], y) = FrameDies(f, y) + DyingCount(rest, y)
            /\ TodoCount(rest, y) \in Nat /\ DyingCount(rest, y) \in Nat
      /\ \A p \in Pools :
            /\ DropsCount(frames[t], p) = FrameDrops(f, p) + DropsCount(rest, p)
            /\ DropsCount(rest, p) \in Nat
  BY <1>1, FrameTop
<1>3. \A y : FrameDies(f, y) = 0 /\ FrameTodo(f, y) = 0 /\ FrameDrops(f, y) = 0
  OBVIOUS
<1> HIDE DEF f, rest
<1>4. /\ \A y \in Objects : /\ TodoCount(frames[t], y) = TodoCount(rest, y)
                            /\ DyingCount(rest, y) = DyingCount(frames[t], y)
                            /\ TodoCount(rest, y) \in Nat
      /\ \A p \in Pools : DropsCount(frames[t], p) = DropsCount(rest, p) + 0
  BY <1>2, <1>3
<1>5. HoldersTyped /\ \A y \in Objects : Kept(y)' = Kept(y) /\ Kept(y) \in Nat
  BY KeptAll
<1>6. ASSUME NEW y \in Objects
      PROVE  Kept(y)' + TodoCount(rest, y) <= Kept(y) + TodoCount(frames[t], y) + (rc'[y] - rc[y])
  <2>1. rc'[y] = rc[y] /\ rc[y] \in Int
    BY RefsParts
  <2>2. /\ Kept(y)' = Kept(y) /\ Kept(y) \in Nat /\ TodoCount(rest, y) \in Nat
        /\ TodoCount(frames[t], y) = TodoCount(rest, y)
    BY <1>4, <1>5
  <2>3. QED
    BY <2>1, <2>2
<1>70. (\A y \in Objects : rc'[y] = rc[y]) /\ \A p \in Pools : rc'[p] = rc[p]
  OBVIOUS
<1>71. \A p \in Pools : DropsCount(frames[t], p) = DropsCount(rest, p) + (IF rc'[p] = rc[p] THEN 0 ELSE 1)
  BY <1>4, <1>70
<1>7. Moved(frames[t], rest)
  BY <1>4, <1>6, <1>70, <1>71 DEF Moved
<1>8. frames' = [frames EXCEPT ![t] = rest]
  BY DEF rest
<1>9. QED
  BY <1>1, <1>2, <1>5, <1>7, <1>8, MoveStep

LEMMA DrainStepKeeps ==
    ASSUME Refs!RefsAssumption, RefsInv, NEW t \in RefThreads, Refs!DrainStep(t)
    PROVE  RefsInv'
<1> DEFINE f == Refs!Top(t)  rest == Tail(frames[t])
<1>1. f.kind = "drain" /\ UNCHANGED <<weak_refs, slot, managed, pool_stacks, kvc, assoc, owned>>
  BY DEF Refs!DrainStep, Refs!weakVars, Refs!tabVars
<1>2. frames[t] # <<>>
  BY <1>1, TopThere
<1>3. RefTypes /\ SumsFinite /\ f \in RefFrames
  BY <1>2, FrameTop, RefsParts
<1>4. f.todo \in Seq(Objects) /\ f.pools \in Seq(Pools)
  BY <1>3, FrameParts
<1>5. \A y : FrameDies(f, y) = 0
  BY <1>1 DEF FrameDies
<1>6. CASE f.todo # <<>> /\ Refs!SendRelease(t, Head(f.todo), <<Refs!Drain(f.pools, Tail(f.todo))>> \o rest)
           /\ UNCHANGED pool_objects
  <2> DEFINE g == Refs!Drain(f.pools, Tail(f.todo))
  <2>1. Tail(f.todo) \in Seq(Objects)
    BY <1>4, <1>6
  <2>2. g \in RefFrames /\ \A y : FrameDies(g, y) = 0
    <3>1. f.pools \in Seq(Pools)
      BY <1>4
    <3> HIDE DEF f
    <3>2. QED
      <4>1. \A ps \in Seq(Pools), vs \in Seq(Objects) :
               Refs!Drain(ps, vs) \in RefFrames /\ \A y : FrameDies(Refs!Drain(ps, vs), y) = 0
        BY FrameKinds
      <4>2. QED
        BY <2>1, <3>1, <4>1
  <2>3. g.todo = Tail(f.todo) /\ g.pools = f.pools
    BY DEF Refs!Drain
  <2>4. Refs!SendRelease(t, Head(f.todo), <<g>> \o Tail(frames[t])) /\ f.todo # <<>> /\ UNCHANGED pool_objects
    BY <1>6
  <2>5. \A y : FrameDies(g, y) = FrameDies(f, y)
    BY <1>5, <2>2
  <2> HIDE DEF g
  <2>6. QED
    BY <1>1, <1>2, <2>2, <2>3, <2>4, <2>5, LoopStep
<1>7. CASE /\ f.todo = <<>> /\ f.pools # <<>>
           /\ LET p == Head(f.pools) IN
              /\ frames' = [frames EXCEPT ![t] = <<Refs!Drain(Tail(f.pools), pool_objects[p])>> \o rest]
              /\ pool_objects' = [pool_objects EXCEPT ![p] = <<>>]
              /\ rc' = [rc EXCEPT ![p] = -1]
  <2> DEFINE p == Head(f.pools)  vs == pool_objects[p]  g == Refs!Drain(Tail(f.pools), vs)
  <2>1. p \in Pools /\ Tail(f.pools) \in Seq(Pools)
        /\ \A q : Cardinality(Refs!Places(f.pools, q))
                    = Cardinality(Refs!Places(Tail(f.pools), q)) + (IF p = q THEN 1 ELSE 0)
    BY <1>4, <1>7, PlacesTail
  <2>2. /\ rc' \in [Objects \cup Pools -> -1 .. MaxRefs]
        /\ \A y \in Objects : rc'[y] = rc[y]
        /\ \A q \in Pools : rc'[q] = IF q = p THEN -1 ELSE rc[q]
    <3>1. /\ rc \in [Objects \cup Pools -> -1 .. MaxRefs] /\ MaxRefs \in Nat \ {0}
          /\ Objects \cap Pools = {}
      BY RefsParts
    <3>2. rc' = [rc EXCEPT ![p] = -1]
      BY <1>7
    <3> HIDE DEF p
    <3>3. QED
      BY <2>1, <3>1, <3>2
  <2>3. vs \in Seq(Objects) /\ <<>> \in Seq(Objects)
    BY <2>1, RefsParts
  <2>4. g \in RefFrames /\ \A y : /\ FrameTodo(g, y) = Cardinality(Refs!Places(vs, y))
                                  /\ FrameDrops(g, y) = Cardinality(Refs!Places(Tail(f.pools), y))
                                  /\ FrameDies(g, y) = 0
    BY <2>1, <2>3, FrameKinds
  <2>5. /\ frames' = [frames EXCEPT ![t] = <<g>> \o rest] /\ pool_objects' = [pool_objects EXCEPT ![p] = <<>>]
    BY <1>7
  <2>6. /\ FiniteFrames(<<g>> \o rest)
        /\ \A y \in Objects :
              /\ TodoCount(<<g>> \o rest, y) = FrameTodo(g, y) + TodoCount(rest, y)
              /\ TodoCount(frames[t], y) = FrameTodo(f, y) + TodoCount(rest, y)
              /\ DyingCount(<<g>> \o rest, y) = FrameDies(g, y) + DyingCount(rest, y)
              /\ DyingCount(frames[t], y) = FrameDies(f, y) + DyingCount(rest, y)
              /\ TodoCount(rest, y) \in Nat
        /\ \A q \in Pools :
              /\ DropsCount(<<g>> \o rest, q) = FrameDrops(g, q) + DropsCount(rest, q)
              /\ DropsCount(frames[t], q) = FrameDrops(f, q) + DropsCount(rest, q)
              /\ DropsCount(rest, q) \in Nat
    BY <1>2, <1>3, <2>4, TopReplaced
  <2>7. \A y : FrameTodo(f, y) = 0 /\ FrameDrops(f, y) = Cardinality(Refs!Places(f.pools, y))
    BY <1>3, <1>7, FrameParts
  <2>8. /\ pool_objects' \in [Pools -> Seq(Objects)]
        /\ \A y \in Objects :
              /\ IsFiniteSet(PoolRefs(y)') /\ PoolSum(y)' \in Nat
              /\ PoolSum(y)' = PoolSum(y) - Cardinality(Refs!Places(vs, y)) + Cardinality(Refs!Places(<<>>, y))
    <3>1. /\ pool_objects' \in [Pools -> Seq(Objects)]
          /\ \A y \in Objects :
                /\ IsFiniteSet(PoolRefs(y)')
                /\ PoolSum(y)' = PoolSum(y) - Cardinality(Refs!Places(pool_objects[p], y))
                                            + Cardinality(Refs!Places(<<>>, y))
      BY <1>3, <2>1, <2>3, <2>5, PoolChanged
    <3>2. QED
      BY <3>1, FS_CardinalityType DEF PoolSum
  <2>9. \A y : Cardinality(Refs!Places(<<>>, y)) = 0 /\ Cardinality(Refs!Places(vs, y)) \in Nat
               /\ Cardinality(Refs!Places(Tail(f.pools), y)) \in Nat
    BY <2>1, <2>3, PlacesEmpty, PlacesCount
  <2>10. \A y \in Objects : /\ KvcRefs(y)' = KvcRefs(y) /\ AssocRefs(y)' = AssocRefs(y)
                            /\ KvcSum(y)' = KvcSum(y) /\ AssocSum(y)' = AssocSum(y)
    BY <1>1, SumsSame
  <2>11. ASSUME NEW y \in Objects
         PROVE  Kept(y)' = Kept(y) - Cardinality(Refs!Places(vs, y)) /\ Kept(y)' \in Nat /\ Kept(y) \in Nat
    <3>1. owned[y] \in Nat /\ PoolSum(y) \in Nat /\ KvcSum(y) \in Nat /\ AssocSum(y) \in Nat
      BY RefsParts
    <3>2. PoolSum(y)' = PoolSum(y) - Cardinality(Refs!Places(vs, y)) + 0 /\ PoolSum(y)' \in Nat
      BY <2>8, <2>9
    <3>3. Kept(y)' = owned[y] + PoolSum(y)' + KvcSum(y) + AssocSum(y)
      BY <1>1, <2>10 DEF Kept
    <3>4. Kept(y) = owned[y] + PoolSum(y) + KvcSum(y) + AssocSum(y)
      BY DEF Kept
    <3>5. Cardinality(Refs!Places(vs, y)) \in Nat
      BY <2>9
    <3>6. QED
      BY <3>1, <3>2, <3>3, <3>4, <3>5
  <2>12. HoldersTyped
    <3>1. /\ owned' \in [Objects -> Nat] /\ kvc' \in [Objects -> Objects \cup {Nil}]
          /\ assoc' \in [Objects -> [val : Objects \cup {Nil}, retained : BOOLEAN]]
      BY <1>1, RefsParts
    <3>2. RetainedThere'
      BY <1>1, RefsParts DEF RetainedThere
    <3>3. \A y \in Objects : IsFiniteSet(KvcRefs(y)') /\ IsFiniteSet(AssocRefs(y)')
      BY <1>3, <2>10 DEF SumsFinite
    <3>4. QED
      BY <2>8, <2>11, <3>1, <3>2, <3>3 DEF HoldersTyped
  <2>13. rc[p] # -1
    <3>1. DropsCount(frames[t], p) \in Nat /\ DropsCount(frames[t], p) <= DrainSum(p)
      BY <1>3, <2>1, ThreadFrames
    <3>2. DropsCount(frames[t], p) = FrameDrops(f, p) + DropsCount(rest, p) /\ DropsCount(rest, p) \in Nat
      BY <2>1, <2>6
    <3>3. FrameDrops(f, p) = Cardinality(Refs!Places(Tail(f.pools), p)) + 1
      BY <2>1, <2>7
    <3>4. Cardinality(Refs!Places(Tail(f.pools), p)) \in Nat
      BY <2>9
    <3>5. StackSum(p) \in Nat /\ DrainSum(p) \in Nat
      BY <2>1, RefsParts
    <3>6. DrainSum(p) >= 1
      BY <3>1, <3>2, <3>3, <3>4, <3>5
    <3>7. StackSum(p) + DrainSum(p) = IF rc[p] = -1 THEN 0 ELSE 1
      BY <2>1, RefsParts
    <3>8. QED
      BY <3>5, <3>6, <3>7
  <2> HIDE DEF p, vs, g, f, rest
  <2>14. ASSUME NEW y \in Objects
         PROVE  /\ DyingCount(<<g>> \o rest, y) = DyingCount(frames[t], y)
                /\ rc'[y] = rc[y] \/ (rc'[y] = rc[y] + 1 /\ rc[y] > 0)
                /\ Kept(y)' + TodoCount(<<g>> \o rest, y)
                      <= Kept(y) + TodoCount(frames[t], y) + (rc'[y] - rc[y])
    <3>1. DyingCount(<<g>> \o rest, y) = DyingCount(frames[t], y)
      BY <1>5, <2>4, <2>6
    <3>2. rc'[y] = rc[y] /\ rc[y] \in Int
      BY <2>2, RefsParts
    <3>3. /\ Kept(y)' = Kept(y) - Cardinality(Refs!Places(vs, y)) /\ Kept(y) \in Nat
          /\ Cardinality(Refs!Places(vs, y)) \in Nat /\ TodoCount(rest, y) \in Nat
      BY <2>6, <2>9, <2>11
    <3>4. /\ TodoCount(<<g>> \o rest, y) = Cardinality(Refs!Places(vs, y)) + TodoCount(rest, y)
          /\ TodoCount(frames[t], y) = 0 + TodoCount(rest, y)
      BY <2>4, <2>6, <2>7
    <3>5. Kept(y)' + TodoCount(<<g>> \o rest, y) = Kept(y) + TodoCount(frames[t], y)
      BY <3>3, <3>4
    <3>6. Kept(y) + TodoCount(frames[t], y) \in Int /\ rc'[y] - rc[y] = 0
      BY <3>2, <3>3, <3>4
    <3>7. Kept(y) + TodoCount(frames[t], y) + (rc'[y] - rc[y]) = Kept(y) + TodoCount(frames[t], y)
      BY <3>6
    <3>8. Kept(y)' + TodoCount(<<g>> \o rest, y)
             <= Kept(y) + TodoCount(frames[t], y) + (rc'[y] - rc[y])
      BY <3>5, <3>6, <3>7
    <3>9. QED
      BY <3>1, <3>2, <3>8
  <2>15. ASSUME NEW q \in Pools
         PROVE  /\ rc'[q] = rc[q] \/ rc'[q] = -1
                /\ DropsCount(frames[t], q)
                      = DropsCount(<<g>> \o rest, q) + (IF rc'[q] = rc[q] THEN 0 ELSE 1)
    <3>1. /\ DropsCount(<<g>> \o rest, q) = Cardinality(Refs!Places(Tail(f.pools), q)) + DropsCount(rest, q)
          /\ DropsCount(frames[t], q) = (Cardinality(Refs!Places(Tail(f.pools), q)) + (IF p = q THEN 1 ELSE 0))
                                        + DropsCount(rest, q)
          /\ DropsCount(rest, q) \in Nat /\ Cardinality(Refs!Places(Tail(f.pools), q)) \in Nat
      BY <2>1, <2>4, <2>6, <2>7, <2>9
    <3>2. CASE q = p
      <4>1. rc'[q] = -1 /\ rc[q] # -1
        BY <2>2, <2>13, <3>2
      <4>2. QED
        BY <3>1, <3>2, <4>1
    <3>3. CASE q # p
      <4>1. rc'[q] = rc[q]
        BY <2>2, <3>3
      <4>2. QED
        BY <3>1, <3>3, <4>1
    <3>4. QED
      BY <3>2, <3>3
  <2>16. Moved(frames[t], <<g>> \o rest)
    BY <2>14, <2>15 DEF Moved
  <2>17. QED
    BY <1>1, <2>2, <2>5, <2>6, <2>12, <2>16, MoveStep
<1>8. CASE f.todo = <<>> /\ f.pools = <<>> /\ frames' = [frames EXCEPT ![t] = rest] /\ UNCHANGED <<rc, pool_objects>>
  <2>1. \A y : FrameTodo(f, y) = 0 /\ FrameDrops(f, y) = 0
    BY <1>3, <1>8, FrameParts
  <2>2. QED
    BY <1>1, <1>2, <1>3, <1>5, <1>8, <2>1, PoppedStep
<1>9. QED
  BY <1>6, <1>7, <1>8 DEF Refs!DrainStep, Refs!Absent

\* The holders when only the KVC value or only the association of o changes.
LEMMA KvcHolders ==
    ASSUME Refs!RefsAssumption, RefsInv, UNCHANGED <<pool_objects, assoc, owned>>,
           NEW o \in Objects, NEW v \in Objects \cup {Nil}, kvc' = [kvc EXCEPT ![o] = v]
    PROVE  /\ HoldersTyped
           /\ \A y \in Objects :
                 /\ Kept(y)' = Kept(y) - (IF kvc[o] = y THEN 1 ELSE 0) + (IF v = y THEN 1 ELSE 0)
                 /\ Kept(y) \in Nat
<1>1. /\ kvc' \in [Objects -> Objects \cup {Nil}]
      /\ \A y \in Objects :
            /\ IsFiniteSet(KvcRefs(y)')
            /\ KvcSum(y)' = KvcSum(y) - (IF kvc[o] = y THEN 1 ELSE 0) + (IF v = y THEN 1 ELSE 0)
  <2>1. RefTypes /\ SumsFinite
    BY RefsParts
  <2>2. \A w \in Objects \cup {Nil} : kvc' = [kvc EXCEPT ![o] = w] =>
           /\ kvc' \in [Objects -> Objects \cup {Nil}]
           /\ \A y \in Objects :
                 /\ IsFiniteSet(KvcRefs(y)')
                 /\ KvcSum(y)' = KvcSum(y) - (IF kvc[o] = y THEN 1 ELSE 0) + (IF w = y THEN 1 ELSE 0)
    BY <2>1, TablesChanged
  <2>3. QED
    BY <2>2
<1>2. \A y \in Objects : /\ PoolRefs(y)' = PoolRefs(y) /\ AssocRefs(y)' = AssocRefs(y)
                         /\ PoolSum(y)' = PoolSum(y) /\ AssocSum(y)' = AssocSum(y)
  BY SumsSame
<1>3. ASSUME NEW y \in Objects
      PROVE  /\ Kept(y)' = Kept(y) - (IF kvc[o] = y THEN 1 ELSE 0) + (IF v = y THEN 1 ELSE 0)
             /\ Kept(y)' \in Nat /\ Kept(y) \in Nat
  <2>1. owned[y] \in Nat /\ PoolSum(y) \in Nat /\ KvcSum(y) \in Nat /\ AssocSum(y) \in Nat
        /\ Kept(y) \in Nat
    BY RefsParts
  <2>2. PICK a \in {0, 1} : a = IF kvc[o] = y THEN 1 ELSE 0
    OBVIOUS
  <2>3. PICK b \in {0, 1} : b = IF v = y THEN 1 ELSE 0
    OBVIOUS
  <2>4. KvcSum(y)' = KvcSum(y) - a + b
    BY <1>1, <2>2, <2>3
  <2>5. KvcSum(y)' \in Nat
    BY <1>1, FS_CardinalityType DEF KvcSum
  <2>6. Kept(y)' = owned[y] + PoolSum(y) + KvcSum(y)' + AssocSum(y)
    BY <1>2 DEF Kept
  <2>7. Kept(y) = owned[y] + PoolSum(y) + KvcSum(y) + AssocSum(y)
    BY DEF Kept
  <2>8. Kept(y)' = Kept(y) - a + b /\ Kept(y)' \in Nat
    BY <2>1, <2>4, <2>5, <2>6, <2>7
  <2>9. QED
    BY <2>1, <2>2, <2>3, <2>8
<1>4. /\ owned' \in [Objects -> Nat] /\ pool_objects' \in [Pools -> Seq(Objects)]
      /\ assoc' \in [Objects -> [val : Objects \cup {Nil}, retained : BOOLEAN]]
  BY RefsParts
<1>5. RetainedThere'
  BY RefsParts DEF RetainedThere
<1>6. \A y \in Objects : IsFiniteSet(PoolRefs(y)') /\ IsFiniteSet(AssocRefs(y)')
  BY <1>2, RefsParts DEF SumsFinite
<1>7. HoldersTyped
  BY <1>1, <1>3, <1>4, <1>5, <1>6 DEF HoldersTyped
<1>8. QED
  BY <1>3, <1>7

LEMMA AssocHolders ==
    ASSUME Refs!RefsAssumption, RefsInv, UNCHANGED <<pool_objects, kvc>>, owned' \in [Objects -> Nat],
           NEW o \in Objects, NEW a \in [val : Objects \cup {Nil}, retained : BOOLEAN],
           a.retained => a.val \in Objects, assoc' = [assoc EXCEPT ![o] = a]
    PROVE  /\ HoldersTyped
           /\ \A y \in Objects :
                 /\ Kept(y)' = Kept(y) - owned[y] + owned'[y]
                                 - (IF assoc[o].val = y /\ assoc[o].retained THEN 1 ELSE 0)
                                 + (IF a.val = y /\ a.retained THEN 1 ELSE 0)
                 /\ Kept(y) \in Nat /\ owned[y] \in Nat /\ owned'[y] \in Nat
<1>1. /\ assoc' \in [Objects -> [val : Objects \cup {Nil}, retained : BOOLEAN]]
      /\ \A y \in Objects :
            /\ IsFiniteSet(AssocRefs(y)')
            /\ AssocSum(y)' = AssocSum(y) - (IF assoc[o].val = y /\ assoc[o].retained THEN 1 ELSE 0)
                                          + (IF a.val = y /\ a.retained THEN 1 ELSE 0)
  BY RefsParts, TablesChanged
<1>2. \A y \in Objects : /\ PoolRefs(y)' = PoolRefs(y) /\ KvcRefs(y)' = KvcRefs(y)
                         /\ PoolSum(y)' = PoolSum(y) /\ KvcSum(y)' = KvcSum(y)
  BY SumsSame
<1>3. ASSUME NEW y \in Objects
      PROVE  /\ Kept(y)' = Kept(y) - owned[y] + owned'[y]
                             - (IF assoc[o].val = y /\ assoc[o].retained THEN 1 ELSE 0)
                             + (IF a.val = y /\ a.retained THEN 1 ELSE 0)
             /\ Kept(y)' \in Nat /\ Kept(y) \in Nat /\ owned[y] \in Nat /\ owned'[y] \in Nat
  <2>1. owned[y] \in Nat /\ PoolSum(y) \in Nat /\ KvcSum(y) \in Nat /\ AssocSum(y) \in Nat
        /\ Kept(y) \in Nat
    BY RefsParts
  <2>2. PICK b \in {0, 1} : b = IF assoc[o].val = y /\ assoc[o].retained THEN 1 ELSE 0
    OBVIOUS
  <2>3. PICK c \in {0, 1} : c = IF a.val = y /\ a.retained THEN 1 ELSE 0
    OBVIOUS
  <2>4. AssocSum(y)' = AssocSum(y) - b + c
    BY <1>1, <2>2, <2>3
  <2>5. AssocSum(y)' \in Nat /\ owned'[y] \in Nat
    BY <1>1, FS_CardinalityType DEF AssocSum
  <2>6. Kept(y)' = owned'[y] + PoolSum(y) + KvcSum(y) + AssocSum(y)'
    BY <1>2 DEF Kept
  <2>7. Kept(y) = owned[y] + PoolSum(y) + KvcSum(y) + AssocSum(y)
    BY DEF Kept
  <2>8. Kept(y)' = Kept(y) - owned[y] + owned'[y] - b + c /\ Kept(y)' \in Nat
    BY <2>1, <2>4, <2>5, <2>6, <2>7
  <2>9. QED
    BY <2>1, <2>2, <2>3, <2>5, <2>8
<1>4. /\ kvc' \in [Objects -> Objects \cup {Nil}] /\ pool_objects' \in [Pools -> Seq(Objects)]
  BY RefsParts
<1>5. RetainedThere'
  <2>1. SUFFICES ASSUME NEW q \in Objects, assoc'[q].retained PROVE assoc'[q].val \in Objects
    BY DEF RetainedThere
  <2>2. assoc \in [Objects -> [val : Objects \cup {Nil}, retained : BOOLEAN]]
        /\ (assoc[q].retained => assoc[q].val \in Objects)
    BY RefsParts DEF RetainedThere
  <2>3. CASE q = o
    BY <2>1, <2>2, <2>3
  <2>4. CASE q # o
    BY <2>1, <2>2, <2>4
  <2>5. QED
    BY <2>3, <2>4
<1>6. \A y \in Objects : IsFiniteSet(PoolRefs(y)') /\ IsFiniteSet(KvcRefs(y)')
  BY <1>2, RefsParts DEF SumsFinite
<1>7. HoldersTyped
  BY <1>1, <1>3, <1>4, <1>5, <1>6 DEF HoldersTyped
<1>8. QED
  BY <1>3, <1>7

LEMMA DeallocStep ==
    ASSUME Refs!RefsAssumption, RefsInv, NEW t \in RefThreads, Refs!NSObject_dealloc(t)
    PROVE  RefsInv'
<1> DEFINE f == Refs!Top(t)  o == f.obj  rest == Tail(frames[t])
           vs == IF kvc[o] = Nil THEN <<>> ELSE <<kvc[o]>>
           g == Refs!KvcLoop(o, vs)
<1>1. /\ f.kind = "dealloc" /\ kvc' = [kvc EXCEPT ![o] = Nil]
      /\ frames' = [frames EXCEPT ![t] = <<g>> \o rest]
      /\ UNCHANGED <<weak_refs, slot, managed, pool_stacks, pool_objects, assoc, owned, rc>>
  BY DEF Refs!NSObject_dealloc, Refs!weakVars, Refs!poolVars
<1>2. frames[t] # <<>>
  BY <1>1, TopThere
<1>3. RefTypes /\ SumsFinite /\ f \in RefFrames
  BY <1>2, FrameTop, RefsParts
<1>4. o \in Objects /\ f.pools = <<>> /\ f.todo = <<>>
  BY <1>1, <1>3, FrameParts
<1>5. vs \in Seq(Objects) /\ \A y \in Objects : Cardinality(Refs!Places(vs, y)) = IF kvc[o] = y THEN 1 ELSE 0
  <2>1. kvc[o] \in Objects \cup {Nil} /\ Nil \notin Objects
    BY <1>4, RefsParts
  <2>2. CASE kvc[o] = Nil
    <3>1. vs = <<>>
      BY <2>2
    <3> HIDE DEF vs
    <3>2. QED
      <4>1. \A y : Cardinality(Refs!Places(<<>>, y)) = 0
        BY PlacesEmpty
      <4>2. \A y \in Objects : kvc[o] # y
        BY <2>1, <2>2
      <4>3. QED
        BY <3>1, <4>1, <4>2
  <2>3. CASE kvc[o] # Nil
    <3>1. vs = <<kvc[o]>> /\ kvc[o] \in Objects
      BY <2>1, <2>3
    <3> HIDE DEF vs, o
    <3>2. QED
      BY <3>1, PlacesOne
  <2>4. QED
    BY <2>2, <2>3
<1>6. /\ \A y : FrameDies(f, y) = IF o = y THEN 1 ELSE 0
      /\ \A y : FrameTodo(f, y) = 0 /\ FrameDrops(f, y) = 0
  BY <1>1, <1>3, <1>4, FrameParts
<1> HIDE DEF f, o, vs
<1>7. g \in RefFrames /\ \A y : /\ FrameTodo(g, y) = Cardinality(Refs!Places(vs, y))
                                /\ FrameDrops(g, y) = 0
                                /\ FrameDies(g, y) = IF o = y THEN 1 ELSE 0
  BY <1>4, <1>5, FrameKinds
<1>8. /\ FiniteFrames(<<g>> \o rest)
      /\ \A y \in Objects :
            /\ TodoCount(<<g>> \o rest, y) = FrameTodo(g, y) + TodoCount(rest, y)
            /\ TodoCount(frames[t], y) = FrameTodo(f, y) + TodoCount(rest, y)
            /\ DyingCount(<<g>> \o rest, y) = FrameDies(g, y) + DyingCount(rest, y)
            /\ DyingCount(frames[t], y) = FrameDies(f, y) + DyingCount(rest, y)
            /\ TodoCount(rest, y) \in Nat
      /\ \A p \in Pools :
            /\ DropsCount(<<g>> \o rest, p) = FrameDrops(g, p) + DropsCount(rest, p)
            /\ DropsCount(frames[t], p) = FrameDrops(f, p) + DropsCount(rest, p)
            /\ DropsCount(rest, p) \in Nat
  <2> HIDE DEF g
  <2>1. QED
    BY <1>2, <1>3, <1>7, TopReplaced DEF f
<1> HIDE DEF g, rest
<1>9. /\ HoldersTyped
      /\ \A y \in Objects :
            /\ Kept(y)' = Kept(y) - (IF kvc[o] = y THEN 1 ELSE 0) + (IF Nil = y THEN 1 ELSE 0)
            /\ Kept(y) \in Nat
  <2>1. Nil \in Objects \cup {Nil}
    OBVIOUS
  <2>2. QED
    BY <1>1, <1>4, <2>1, KvcHolders
<1>10. ASSUME NEW y \in Objects
       PROVE  /\ DyingCount(<<g>> \o rest, y) = DyingCount(frames[t], y)
              /\ rc'[y] = rc[y]
              /\ Kept(y)' + TodoCount(<<g>> \o rest, y)
                    <= Kept(y) + TodoCount(frames[t], y) + (rc'[y] - rc[y])
  <2>1. DyingCount(<<g>> \o rest, y) = DyingCount(frames[t], y)
    BY <1>6, <1>7, <1>8
  <2>2. rc'[y] = rc[y] /\ rc[y] \in Int /\ Nil # y
    BY <1>1, RefsParts
  <2>3. PICK d \in {0, 1} : d = IF kvc[o] = y THEN 1 ELSE 0
    OBVIOUS
  <2>4. /\ Kept(y)' = Kept(y) - d + 0 /\ Kept(y) \in Nat /\ TodoCount(rest, y) \in Nat
        /\ TodoCount(<<g>> \o rest, y) = d + TodoCount(rest, y)
        /\ TodoCount(frames[t], y) = 0 + TodoCount(rest, y)
    BY <1>5, <1>6, <1>7, <1>8, <1>9, <2>2, <2>3
  <2>5. Kept(y)' + TodoCount(<<g>> \o rest, y) = Kept(y) + TodoCount(frames[t], y)
        /\ Kept(y) + TodoCount(frames[t], y) \in Int
    BY <2>4
  <2>6. QED
    BY <2>1, <2>2, <2>5
<1>11. ASSUME NEW p \in Pools
       PROVE  /\ rc'[p] = rc[p]
              /\ DropsCount(frames[t], p) = DropsCount(<<g>> \o rest, p) + (IF rc'[p] = rc[p] THEN 0 ELSE 1)
  BY <1>1, <1>6, <1>7, <1>8
<1>12. Moved(frames[t], <<g>> \o rest)
  BY <1>10, <1>11 DEF Moved
<1>13. rc' \in [Objects \cup Pools -> -1 .. MaxRefs]
  BY <1>1, RefsParts
<1>14. QED
  BY <1>1, <1>3, <1>8, <1>9, <1>12, <1>13, MoveStep

\* The host function that stores an association ends.
LEMMA StoredStep ==
    ASSUME Refs!RefsAssumption, RefsInv, NEW t \in RefThreads, Refs!SetAssociation(t)
    PROVE  RefsInv'
<1> DEFINE f == Refs!Top(t)  o == f.obj  v == f.todo[1]  rest == Tail(frames[t])
<1>1. /\ f.kind = "assoc" /\ owned' = [owned EXCEPT ![v] = owned[v] + 1]
      /\ frames' = [frames EXCEPT ![t] = rest]
      /\ \/ /\ rc[v] < MaxRefs /\ rc' = Refs!increment_refcount(v)
            /\ assoc' = [assoc EXCEPT ![o] = [val |-> v, retained |-> TRUE]]
         \/ /\ UNCHANGED rc
            /\ assoc' = [assoc EXCEPT ![o] = [val |-> v, retained |-> FALSE]]
      /\ UNCHANGED <<weak_refs, slot, managed, pool_stacks, pool_objects, kvc>>
  BY DEF Refs!SetAssociation, Refs!weakVars, Refs!poolVars
<1>2. frames[t] # <<>>
  BY <1>1, TopThere
<1>3. RefTypes /\ SumsFinite /\ f \in RefFrames
  BY <1>2, FrameTop, RefsParts
<1>4. o \in Objects /\ f.pools = <<>> /\ Len(f.todo) = 1 /\ f.todo \in Seq(Objects)
  BY <1>1, <1>3, FrameParts
<1>5. v \in Objects /\ f.todo = <<v>>
  BY <1>4
<1>6. \A y : FrameTodo(f, y) = (IF v = y THEN 1 ELSE 0) /\ FrameDrops(f, y) = 0 /\ FrameDies(f, y) = 0
  <2>1. \A y : FrameTodo(f, y) = Cardinality(Refs!Places(<<v>>, y))
    BY <1>3, <1>5, FrameParts
  <2>2. \A y : FrameDrops(f, y) = 0 /\ FrameDies(f, y) = 0
    BY <1>1, <1>3, <1>4, FrameParts
  <2>3. QED
    BY <2>1, <2>2, PlacesOne
<1>7. /\ FiniteFrames(rest)
      /\ \A y \in Objects :
            /\ TodoCount(frames[t], y) = FrameTodo(f, y) + TodoCount(rest, y)
            /\ DyingCount(frames[t], y) = FrameDies(f, y) + DyingCount(rest, y)
            /\ TodoCount(rest, y) \in Nat /\ DyingCount(rest, y) \in Nat
      /\ \A p \in Pools :
            /\ DropsCount(frames[t], p) = FrameDrops(f, p) + DropsCount(rest, p)
            /\ DropsCount(rest, p) \in Nat
  BY <1>2, <1>3, FrameTop
<1> HIDE DEF f, o, v, rest
<1>8. rc[v] > 0
  <2>1. /\ FrameSum(v) \in Nat /\ Kept(v) \in Nat /\ Owed(v) = Kept(v) + FrameSum(v)
        /\ rc[v] \in Int /\ (Owed(v) > 0 => rc[v] >= Owed(v))
    BY <1>5, RefsParts
  <2>2. TodoCount(frames[t], v) = 1 + TodoCount(rest, v) /\ TodoCount(rest, v) \in Nat
        /\ TodoCount(frames[t], v) <= FrameSum(v)
    BY <1>3, <1>5, <1>6, <1>7, ThreadFrames
  <2>3. Owed(v) > 0
    BY <2>1, <2>2
  <2>4. QED
    BY <2>1, <2>3
<1>9. PICK up \in {0, 1}, a \in [val : Objects \cup {Nil}, retained : BOOLEAN] :
         /\ rc' = [rc EXCEPT ![v] = rc[v] + up] /\ assoc' = [assoc EXCEPT ![o] = a]
         /\ up = 1 => rc[v] < MaxRefs
         /\ a.val = v /\ (a.retained <=> up = 1)
  <2>1. /\ [val |-> v, retained |-> TRUE] \in [val : Objects \cup {Nil}, retained : BOOLEAN]
        /\ [val |-> v, retained |-> FALSE] \in [val : Objects \cup {Nil}, retained : BOOLEAN]
    BY <1>5
  <2>2. CASE /\ rc[v] < MaxRefs /\ rc' = Refs!increment_refcount(v)
             /\ assoc' = [assoc EXCEPT ![o] = [val |-> v, retained |-> TRUE]]
    <3>1. rc' = [rc EXCEPT ![v] = rc[v] + 1]
      BY <1>8, <2>2 DEF Refs!increment_refcount, Refs!None
    <3>2. QED
      BY <2>1, <2>2, <3>1
  <2>3. CASE UNCHANGED rc /\ assoc' = [assoc EXCEPT ![o] = [val |-> v, retained |-> FALSE]]
    <3>1. rc' = [rc EXCEPT ![v] = rc[v] + 0]
      BY <1>5, <2>3, RefsParts
    <3>2. /\ [val |-> v, retained |-> FALSE].val = v /\ ([val |-> v, retained |-> FALSE].retained <=> 0 = 1)
          /\ (0 = 1 => rc[v] < MaxRefs) /\ 0 \in {0, 1}
      OBVIOUS
    <3>3. QED
      BY <2>1, <2>3, <3>1, <3>2
  <2>4. QED
    BY <1>1, <2>2, <2>3
<1>10. /\ rc' \in [Objects \cup Pools -> -1 .. MaxRefs]
       /\ \A x \in Objects : rc'[x] = IF x = v THEN rc[v] + up ELSE rc[x]
       /\ \A p \in Pools : rc'[p] = rc[p]
  <2>1. /\ rc \in [Objects \cup Pools -> -1 .. MaxRefs] /\ MaxRefs \in Nat \ {0}
        /\ Objects \cap Pools = {} /\ rc[v] \in -1 .. MaxRefs
    BY <1>5, RefsParts
  <2>2. rc[v] + up \in -1 .. MaxRefs
    BY <1>8, <1>9, <2>1
  <2>3. QED
    BY <1>5, <1>9, <2>1, <2>2
<1>11. owned' \in [Objects -> Nat] /\ \A y \in Objects : owned'[y] = owned[y] + IF v = y THEN 1 ELSE 0
  <2>1. owned \in [Objects -> Nat] /\ owned' = [owned EXCEPT ![v] = owned[v] + 1]
    BY <1>1, RefsParts
  <2>2. QED
    BY <1>5, <2>1
<1>12. /\ HoldersTyped
       /\ \A y \in Objects :
             /\ Kept(y)' = Kept(y) - owned[y] + owned'[y]
                             - (IF assoc[o].val = y /\ assoc[o].retained THEN 1 ELSE 0)
                             + (IF a.val = y /\ a.retained THEN 1 ELSE 0)
             /\ Kept(y) \in Nat /\ owned[y] \in Nat /\ owned'[y] \in Nat
  BY <1>1, <1>4, <1>5, <1>9, <1>11, AssocHolders
<1>13. ASSUME NEW y \in Objects
       PROVE  /\ DyingCount(rest, y) = DyingCount(frames[t], y)
              /\ rc'[y] = rc[y] \/ (rc'[y] = rc[y] + 1 /\ rc[y] > 0)
              /\ Kept(y)' + TodoCount(rest, y) <= Kept(y) + TodoCount(frames[t], y) + (rc'[y] - rc[y])
  <2>1. DyingCount(rest, y) = DyingCount(frames[t], y)
    BY <1>6, <1>7
  <2>2. PICK d \in {0, 1} : d = IF v = y THEN 1 ELSE 0
    OBVIOUS
  <2>3. PICK e \in {0, 1} : e = IF v = y THEN up ELSE 0
    OBVIOUS
  <2>4. PICK b \in {0, 1} : b = IF assoc[o].val = y /\ assoc[o].retained THEN 1 ELSE 0
    OBVIOUS
  <2>5. e = IF a.val = y /\ a.retained THEN 1 ELSE 0
    BY <1>9, <2>3
  <2>6. rc[y] \in Int /\ rc'[y] = rc[y] + e /\ (e = 1 => rc[y] > 0)
    <3>1. rc[y] \in Int /\ rc'[y] = IF y = v THEN rc[v] + up ELSE rc[y]
      BY <1>10, RefsParts
    <3>2. CASE v = y
      BY <1>8, <2>3, <3>1, <3>2
    <3>3. CASE v # y
      BY <2>3, <3>1, <3>3
    <3>4. QED
      BY <3>2, <3>3
  <2>7. /\ Kept(y)' = Kept(y) - owned[y] + (owned[y] + d) - b + e /\ Kept(y) \in Nat /\ owned[y] \in Nat
        /\ TodoCount(frames[t], y) = d + TodoCount(rest, y) /\ TodoCount(rest, y) \in Nat
    BY <1>6, <1>7, <1>11, <1>12, <2>2, <2>4, <2>5
  <2>8. Kept(y)' + TodoCount(rest, y) <= Kept(y) + TodoCount(frames[t], y) + (rc'[y] - rc[y])
    BY <2>6, <2>7
  <2>9. QED
    BY <2>1, <2>6, <2>8
<1>14. \A p \in Pools : /\ rc'[p] = rc[p]
                        /\ DropsCount(frames[t], p) = DropsCount(rest, p) + (IF rc'[p] = rc[p] THEN 0 ELSE 1)
  BY <1>6, <1>7, <1>10
<1>15. Moved(frames[t], rest)
  BY <1>13, <1>14 DEF Moved
<1>16. QED
  BY <1>1, <1>3, <1>7, <1>10, <1>12, <1>15, MoveStep

LEMMA SetAssocStep ==
    ASSUME Refs!RefsAssumption, RefsInv, NEW t \in RefThreads, NEW o \in Objects,
           NEW v \in Objects \cup {Nil}, Refs!objc_setAssociatedObject(t, o, v)
    PROVE  RefsInv'
<1> DEFINE rest == IF v = Nil THEN frames[t] ELSE <<Refs!SetAssoc(o, v)>> \o frames[t]
<1>1. /\ v # Nil => owned[v] > 0
      /\ assoc' = [assoc EXCEPT ![o] = Refs!NoAssoc]
      /\ owned' = IF v = Nil THEN owned ELSE [owned EXCEPT ![v] = owned[v] - 1]
      /\ IF assoc[o].retained THEN Refs!SendRelease(t, assoc[o].val, rest)
                              ELSE frames' = [frames EXCEPT ![t] = rest] /\ UNCHANGED rc
      /\ UNCHANGED <<weak_refs, slot, managed, pool_stacks, pool_objects, kvc>>
  BY DEF Refs!objc_setAssociatedObject, Refs!weakVars, Refs!poolVars
<1>2. /\ RefTypes /\ SumsFinite /\ Nil \notin Objects /\ owned \in [Objects -> Nat]
      /\ FiniteFrames(frames[t])
      /\ \A y \in Objects : TodoCount(frames[t], y) \in Nat
  BY RefsParts, ThreadFrames
<1>3. owned' \in [Objects -> Nat] /\ \A y \in Objects : owned'[y] = owned[y] - IF v = y THEN 1 ELSE 0
  <2>1. CASE v = Nil
    BY <1>1, <1>2, <2>1
  <2>2. CASE v # Nil
    <3>1. v \in Objects /\ owned[v] > 0 /\ owned' = [owned EXCEPT ![v] = owned[v] - 1]
      BY <1>1, <2>2
    <3>2. QED
      BY <1>2, <3>1
  <2>3. QED
    BY <2>1, <2>2
<1>4. /\ FiniteFrames(rest)
      /\ \A y \in Objects : /\ TodoCount(rest, y) = TodoCount(frames[t], y) + (IF v = y THEN 1 ELSE 0)
                            /\ DyingCount(rest, y) = DyingCount(frames[t], y)
      /\ \A p \in Pools : /\ DropsCount(rest, p) = DropsCount(frames[t], p)
                          /\ DropsCount(rest, p) \in Nat
  <2>1. CASE v = Nil
    <3>1. rest = frames[t]
      BY <2>1
    <3> HIDE DEF rest
    <3>2. \A y \in Objects : v # y
      BY <1>2, <2>1
    <3>3. QED
      BY <1>2, <3>1, <3>2, FramesNat
  <2>2. CASE v # Nil
    <3>1. v \in Objects /\ rest = <<Refs!SetAssoc(o, v)>> \o frames[t]
      BY <2>2
    <3> HIDE DEF rest
    <3>2. Refs!SetAssoc(o, v) \in RefFrames /\ \A y : /\ FrameTodo(Refs!SetAssoc(o, v), y) = IF v = y THEN 1 ELSE 0
                                                   /\ FrameDrops(Refs!SetAssoc(o, v), y) = 0
                                                   /\ FrameDies(Refs!SetAssoc(o, v), y) = 0
      BY <3>1, FrameKinds
    <3>3. /\ FiniteFrames(rest)
          /\ \A y \in Objects :
                /\ TodoCount(rest, y) = FrameTodo(Refs!SetAssoc(o, v), y) + TodoCount(frames[t], y)
                /\ DyingCount(rest, y) = FrameDies(Refs!SetAssoc(o, v), y) + DyingCount(frames[t], y)
                /\ TodoCount(frames[t], y) \in Nat /\ DyingCount(frames[t], y) \in Nat
          /\ \A p \in Pools :
                /\ DropsCount(rest, p) = FrameDrops(Refs!SetAssoc(o, v), p) + DropsCount(frames[t], p)
                /\ DropsCount(frames[t], p) \in Nat
      BY <1>2, <3>1, <3>2, FramesPushed
    <3>4. QED
      BY <3>2, <3>3
  <2>3. QED
    BY <2>1, <2>2
<1>5. Refs!NoAssoc \in [val : Objects \cup {Nil}, retained : BOOLEAN] /\ ~Refs!NoAssoc.retained
  BY DEF Refs!NoAssoc
<1>6. /\ HoldersTyped
      /\ \A y \in Objects :
            /\ Kept(y)' = Kept(y) - owned[y] + owned'[y]
                            - (IF assoc[o].val = y /\ assoc[o].retained THEN 1 ELSE 0)
                            + (IF Refs!NoAssoc.val = y /\ Refs!NoAssoc.retained THEN 1 ELSE 0)
            /\ Kept(y) \in Nat /\ owned[y] \in Nat /\ owned'[y] \in Nat
  BY <1>1, <1>3, <1>5, AssocHolders
<1> HIDE DEF rest
<1>7. ASSUME NEW y \in Objects
      PROVE  Kept(y)' + TodoCount(rest, y) + (IF assoc[o].val = y /\ assoc[o].retained THEN 1 ELSE 0)
                = Kept(y) + TodoCount(frames[t], y)
  <2>1. PICK d \in {0, 1} : d = IF v = y THEN 1 ELSE 0
    OBVIOUS
  <2>2. PICK b \in {0, 1} : b = IF assoc[o].val = y /\ assoc[o].retained THEN 1 ELSE 0
    OBVIOUS
  <2>3. /\ Kept(y)' = Kept(y) - owned[y] + (owned[y] - d) - b + 0 /\ Kept(y) \in Nat /\ owned[y] \in Nat
        /\ TodoCount(rest, y) = TodoCount(frames[t], y) + d /\ TodoCount(frames[t], y) \in Nat
    BY <1>2, <1>3, <1>4, <1>5, <1>6, <2>1, <2>2
  <2>4. Kept(y)' + TodoCount(rest, y) + b = Kept(y) + TodoCount(frames[t], y)
    BY <2>3
  <2>5. QED
    BY <2>2, <2>4
<1>8. \A y \in Objects : Kept(y) + TodoCount(frames[t], y) \in Int
  BY <1>2, <1>6
<1>9. CASE assoc[o].retained
  <2>1. PICK x \in Objects : x = assoc[o].val
    BY <1>9, RefsParts DEF RetainedThere
  <2>2. Refs!SendRelease(t, x, rest)
    BY <1>1, <1>9, <2>1
  <2>3. ASSUME NEW y \in Objects
        PROVE  Kept(y)' + TodoCount(rest, y) + (IF y = x THEN 1 ELSE 0) <= Kept(y) + TodoCount(frames[t], y)
    <3>1. (IF y = x THEN 1 ELSE 0) = (IF assoc[o].val = y /\ assoc[o].retained THEN 1 ELSE 0)
      BY <1>9, <2>1
    <3>2. Kept(y)' + TodoCount(rest, y) + (IF y = x THEN 1 ELSE 0) = Kept(y) + TodoCount(frames[t], y)
      BY <1>7, <3>1
    <3>3. QED
      BY <1>8, <3>2
  <2>4. GivenUp(frames[t], rest, x)
    BY <1>4, <2>3 DEF GivenUp
  <2>5. QED
    BY <1>1, <1>2, <1>4, <1>6, <2>1, <2>2, <2>4, ReleaseStep
<1>10. CASE ~assoc[o].retained
  <2>1. frames' = [frames EXCEPT ![t] = rest] /\ UNCHANGED rc
    BY <1>1, <1>10
  <2>2. rc' \in [Objects \cup Pools -> -1 .. MaxRefs]
    BY <2>1, RefsParts
  <2>3. ASSUME NEW y \in Objects
        PROVE  /\ rc'[y] = rc[y]
               /\ Kept(y)' + TodoCount(rest, y) <= Kept(y) + TodoCount(frames[t], y) + (rc'[y] - rc[y])
    <3>1. rc'[y] = rc[y] /\ rc[y] \in Int
      BY <2>1, RefsParts
    <3>2. Kept(y)' + TodoCount(rest, y) + 0 = Kept(y) + TodoCount(frames[t], y)
      BY <1>7, <1>10
    <3>3. Kept(y)' \in Nat /\ TodoCount(rest, y) \in Nat
      BY <1>4, <1>6, FramesNat DEF HoldersTyped
    <3>4. QED
      BY <1>8, <3>1, <3>2, <3>3
  <2>4. \A p \in Pools : /\ rc'[p] = rc[p]
                         /\ DropsCount(frames[t], p) = DropsCount(rest, p) + (IF rc'[p] = rc[p] THEN 0 ELSE 1)
    BY <1>4, <2>1
  <2>5. Moved(frames[t], rest)
    BY <1>4, <2>3, <2>4 DEF Moved
  <2>6. QED
    BY <1>1, <1>4, <1>6, <2>1, <2>2, <2>5, MoveStep
<1>11. QED
  BY <1>9, <1>10

\* The object goes: the weak variables that refer to it are zeroed first.
LEMMA GoneStep ==
    ASSUME Refs!RefsAssumption, RefsInv, NEW t \in RefThreads, Refs!dealloc_object(t)
    PROVE  RefsInv'
<1> DEFINE f == Refs!Top(t)  o == f.obj  rest == Tail(frames[t])
<1>1. /\ f.kind = "kvc" /\ f.todo = <<>>
      /\ slot' = [s \in Slots |-> IF weak_refs[o][s] > 0 /\ slot[s] = o THEN Nil ELSE slot[s]]
      /\ weak_refs' = [weak_refs EXCEPT ![o] = Refs!NoSlots] /\ managed' = managed
      /\ rc' = [rc EXCEPT ![o] = -1]
      /\ frames' = [frames EXCEPT ![t] = rest]
      /\ UNCHANGED <<pool_stacks, pool_objects, kvc, assoc, owned>>
  BY DEF Refs!dealloc_object, Refs!zero_weak_references_for, Refs!Absent, Refs!poolVars, Refs!tabVars
<1>2. frames[t] # <<>>
  BY <1>1, TopThere
<1>3. RefTypes /\ SumsFinite /\ f \in RefFrames
  BY <1>2, FrameTop, RefsParts
<1>4. o \in Objects /\ f.pools = <<>>
  BY <1>1, <1>3, FrameParts
<1>5. \A y : FrameTodo(f, y) = 0 /\ FrameDrops(f, y) = 0 /\ FrameDies(f, y) = IF o = y THEN 1 ELSE 0
  BY <1>1, <1>3, <1>4, FrameParts
<1>6. /\ FiniteFrames(rest)
      /\ \A y \in Objects :
            /\ TodoCount(frames[t], y) = FrameTodo(f, y) + TodoCount(rest, y)
            /\ DyingCount(frames[t], y) = FrameDies(f, y) + DyingCount(rest, y)
            /\ TodoCount(rest, y) \in Nat /\ DyingCount(rest, y) \in Nat
      /\ \A p \in Pools :
            /\ DropsCount(frames[t], p) = FrameDrops(f, p) + DropsCount(rest, p)
            /\ DropsCount(rest, p) \in Nat
  BY <1>2, <1>3, FrameTop
<1> HIDE DEF f, o, rest
<1>7. /\ frames' \in [RefThreads -> Seq(RefFrames)]
      /\ \A x \in Objects :
            /\ IsFiniteSet(FrameRefs(x)') /\ IsFiniteSet(CallsFor(x)')
            /\ FrameSum(x)' = FrameSum(x) - TodoCount(frames[t], x) + TodoCount(rest, x)
            /\ CallSum(x)' = CallSum(x) - DyingCount(frames[t], x) + DyingCount(rest, x)
      /\ \A p \in Pools :
            /\ IsFiniteSet(InDrains(p)')
            /\ DrainSum(p)' = DrainSum(p) - DropsCount(frames[t], p) + DropsCount(rest, p)
  BY <1>1, <1>3, <1>6, FramesChanged
<1>8. /\ \A x \in Objects : FrameSum(x)' = FrameSum(x) /\ CallSum(x)' = CallSum(x) - IF o = x THEN 1 ELSE 0
      /\ \A p \in Pools : DrainSum(p)' = DrainSum(p)
  <2>1. ASSUME NEW x \in Objects
        PROVE  FrameSum(x)' = FrameSum(x) /\ CallSum(x)' = CallSum(x) - IF o = x THEN 1 ELSE 0
    <3>1. FrameSum(x) \in Nat /\ CallSum(x) \in Nat
      BY RefsParts
    <3>2. PICK d \in {0, 1} : d = IF o = x THEN 1 ELSE 0
      OBVIOUS
    <3>3. /\ FrameSum(x)' = FrameSum(x) - (0 + TodoCount(rest, x)) + TodoCount(rest, x)
          /\ CallSum(x)' = CallSum(x) - (d + DyingCount(rest, x)) + DyingCount(rest, x)
          /\ TodoCount(rest, x) \in Nat /\ DyingCount(rest, x) \in Nat
      BY <1>5, <1>6, <1>7, <3>2
    <3>4. FrameSum(x)' = FrameSum(x) /\ CallSum(x)' = CallSum(x) - d
      BY <3>1, <3>3
    <3>5. QED
      BY <3>2, <3>4
  <2>2. ASSUME NEW p \in Pools PROVE DrainSum(p)' = DrainSum(p)
    <3>1. DrainSum(p) \in Nat /\ DropsCount(rest, p) \in Nat
      BY <1>6, RefsParts
    <3>2. DrainSum(p)' = DrainSum(p) - (0 + DropsCount(rest, p)) + DropsCount(rest, p)
      BY <1>5, <1>6, <1>7
    <3>3. QED
      BY <3>1, <3>2
  <2>3. QED
    BY <2>1, <2>2
<1>9. rc[o] = 0 /\ CallSum(o) = 1
  <2>1. DyingCount(frames[t], o) = 1 + DyingCount(rest, o) /\ DyingCount(rest, o) \in Nat
    BY <1>4, <1>5, <1>6
  <2>2. DyingCount(frames[t], o) <= CallSum(o) /\ CallSum(o) \in Nat
    BY <1>3, <1>4, ThreadFrames, RefsParts
  <2>3. CallSum(o) # 0
    BY <2>1, <2>2
  <2>4. CallSum(o) = IF rc[o] = 0 THEN 1 ELSE 0
    BY <1>4, RefsParts
  <2>5. QED
    BY <2>3, <2>4
<1>10. /\ rc' \in [Objects \cup Pools -> -1 .. MaxRefs]
       /\ \A x \in Objects : rc'[x] = IF x = o THEN -1 ELSE rc[x]
       /\ \A p \in Pools : rc'[p] = rc[p]
  <2>1. /\ rc \in [Objects \cup Pools -> -1 .. MaxRefs] /\ MaxRefs \in Nat \ {0}
        /\ Objects \cap Pools = {}
    BY RefsParts
  <2>2. QED
    BY <1>1, <1>4, <2>1
<1>11. \A x \in Objects :
          /\ PoolRefs(x)' = PoolRefs(x) /\ KvcRefs(x)' = KvcRefs(x) /\ AssocRefs(x)' = AssocRefs(x)
          /\ PoolSum(x)' = PoolSum(x) /\ KvcSum(x)' = KvcSum(x) /\ AssocSum(x)' = AssocSum(x)
  BY <1>1, SumsSame
<1>12. \A x \in Objects : Owed(x)' = Owed(x)
  BY <1>1, <1>8, <1>11 DEF Owed, Kept
<1>13. PoolOnce' /\ \A p \in Pools : IsFiniteSet(OnStacks(p)') /\ IsFiniteSet(InDrains(p)')
  BY <1>1, <1>7, <1>8, <1>10, PoolsKept
<1>14. SumsFinite' /\ RetainedThere'
  BY <1>1, <1>3, <1>7, <1>11, <1>13, RefsParts DEF SumsFinite, RetainedThere
<1>15. OwedCounted' /\ DyingOnce'
  <2>1. SUFFICES ASSUME NEW x \in Objects
                 PROVE  /\ Owed(x)' > 0 => rc'[x] >= Owed(x)'
                        /\ CallSum(x)' = IF rc'[x] = 0 THEN 1 ELSE 0
    BY DEF OwedCounted, DyingOnce
  <2>2. /\ Owed(x) > 0 => rc[x] >= Owed(x)
        /\ CallSum(x) = IF rc[x] = 0 THEN 1 ELSE 0
    BY RefsParts
  <2>3. Owed(x)' = Owed(x) /\ CallSum(x)' = CallSum(x) - IF o = x THEN 1 ELSE 0
    BY <1>8, <1>12
  <2>4. Owed(x) \in Nat /\ CallSum(x) \in Nat
    BY RefsParts
  <2>5. CASE x = o
    <3>1. Owed(x) = 0
      <4>1. Owed(x) > 0 => rc[x] >= Owed(x)
        BY RefsParts
      <4>2. QED
        BY <1>9, <2>4, <2>5, <4>1
    <3>2. CallSum(x)' = 0 /\ rc'[x] = -1
      BY <1>9, <1>10, <2>3, <2>5
    <3>3. QED
      BY <2>3, <3>1, <3>2
  <2>6. CASE x # o
    <3>1. rc'[x] = rc[x] /\ CallSum(x)' = CallSum(x)
      BY <1>10, <2>3, <2>4, <2>6
    <3>2. Owed(x) > 0 => rc[x] >= Owed(x)
      BY RefsParts
    <3>3. QED
      BY <2>2, <2>3, <3>1, <3>2
  <2>7. QED
    BY <2>5, <2>6
<1>16. /\ weak_refs \in [Objects -> [Slots -> Nat]] /\ slot \in [Slots -> Objects \cup {Nil}]
       /\ managed \in [Slots -> BOOLEAN] /\ Nil \notin Objects
  BY RefsParts
<1>17. Refs!NoSlots \in [Slots -> Nat] /\ \A s \in Slots : Refs!NoSlots[s] = 0
  BY DEF Refs!NoSlots
<1>18. /\ weak_refs' \in [Objects -> [Slots -> Nat]] /\ slot' \in [Slots -> Objects \cup {Nil}]
       /\ managed' \in [Slots -> BOOLEAN]
       /\ \A x \in Objects, s \in Slots : weak_refs'[x][s] = IF x = o THEN 0 ELSE weak_refs[x][s]
  BY <1>1, <1>4, <1>16, <1>17
<1>19. Refs!WeakTableExact'
  <2>1. SUFFICES ASSUME NEW x \in Objects, NEW s \in Slots
                 PROVE  /\ weak_refs'[x][s] = IF managed'[s] /\ slot'[s] = x THEN 1 ELSE 0
                        /\ weak_refs'[x][s] > 0 => rc'[x] # -1
    BY DEF Refs!WeakTableExact, Refs!Absent
  <2>2. \A y \in Objects :
           /\ weak_refs[y][s] = IF managed[s] /\ slot[s] = y THEN 1 ELSE 0
           /\ weak_refs[y][s] > 0 => rc[y] # -1
    BY DEF RefsInv, Refs!WeakTableExact, Refs!Absent
  <2>3. slot'[s] = IF weak_refs[o][s] > 0 /\ slot[s] = o THEN Nil ELSE slot[s]
    BY <1>1
  <2>4. CASE x = o
    <3>1. ~(managed[s] /\ slot'[s] = o)
      BY <1>4, <1>16, <2>2, <2>3
    <3>2. QED
      BY <1>1, <1>18, <2>4, <3>1
  <2>5. CASE x # o
    <3>1. (slot'[s] = x) <=> (slot[s] = x)
      BY <1>16, <2>3, <2>5
    <3>2. weak_refs'[x][s] = weak_refs[x][s] /\ rc'[x] = rc[x]
      BY <1>10, <1>18, <2>5
    <3>3. QED
      BY <1>1, <2>2, <3>1, <3>2
  <2>6. QED
    BY <2>4, <2>5
<1>20. RefTypes'
  <2>1. /\ owned' \in [Objects -> Nat] /\ kvc' \in [Objects -> Objects \cup {Nil}]
        /\ assoc' \in [Objects -> [val : Objects \cup {Nil}, retained : BOOLEAN]]
        /\ pool_objects' \in [Pools -> Seq(Objects)] /\ pool_stacks' \in [RefThreads -> Seq(Pools)]
    BY <1>1, RefsParts
  <2>2. QED
    BY <1>7, <1>10, <1>18, <2>1 DEF RefTypes, Refs!TypeOK, Refs!Absent
<1>21. QED
  BY <1>13, <1>14, <1>15, <1>19, <1>20 DEF RefsInv

\* The new value is retained before the old one is released, and may be the same.
LEMMA SetValueStep ==
    ASSUME Refs!RefsAssumption, RefsInv, NEW t \in RefThreads, NEW o \in Objects,
           NEW v \in Objects \cup {Nil}, Refs!setValue_forUndefinedKey(t, o, v)
    PROVE  RefsInv'
<1>1. PICK old \in Objects \cup {Nil} : old = kvc[o]
  BY RefsParts
<1>2. PICK rc1 : rc1 = IF v = Nil THEN rc ELSE Refs!increment_refcount(v)
  OBVIOUS
<1>3. /\ v # Nil => owned[v] > 0 /\ rc[v] < MaxRefs
      /\ kvc' = [kvc EXCEPT ![o] = v]
      /\ rc' = IF old # Nil /\ rc1[old] > 0 THEN [rc1 EXCEPT ![old] = rc1[old] - 1] ELSE rc1
      /\ frames' = IF old # Nil /\ rc1[old] = 1
                   THEN [frames EXCEPT ![t] = <<Refs!Dealloc(old)>> \o frames[t]] ELSE frames
      /\ UNCHANGED <<weak_refs, slot, managed, pool_stacks, pool_objects, assoc, owned>>
  BY <1>1, <1>2 DEF Refs!setValue_forUndefinedKey, Refs!None, Refs!weakVars, Refs!poolVars
<1>4. /\ RefTypes /\ SumsFinite /\ Nil \notin Objects /\ Objects \cap Pools = {}
      /\ rc \in [Objects \cup Pools -> -1 .. MaxRefs] /\ MaxRefs \in Nat
      /\ frames \in [RefThreads -> Seq(RefFrames)] /\ FiniteFrames(frames[t])
  BY RefsParts, ThreadFrames
<1>5. ASSUME NEW y \in Objects, old = y \/ v = y
      PROVE  Owed(y) > 0 /\ rc[y] > 0
  <2>1. /\ owned[y] \in Nat /\ PoolSum(y) \in Nat /\ FrameSum(y) \in Nat
        /\ KvcSum(y) \in Nat /\ AssocSum(y) \in Nat /\ rc[y] \in Int
        /\ Owed(y) = owned[y] + PoolSum(y) + FrameSum(y) + KvcSum(y) + AssocSum(y)
    BY RefsParts
  <2>2. CASE old = y
    <3>1. o \in KvcRefs(y) /\ IsFiniteSet(KvcRefs(y))
      BY <1>1, <1>4, <2>2 DEF KvcRefs, SumsFinite
    <3>2. KvcSum(y) # 0
      BY <3>1, FS_EmptySet DEF KvcSum
    <3>3. Owed(y) > 0
      BY <2>1, <3>2
    <3>4. rc[y] >= Owed(y)
      BY <3>3, RefsParts
    <3>5. QED
      BY <2>1, <3>3, <3>4
  <2>3. CASE v = y
    <3>1. owned[y] > 0
      BY <1>3, <1>4, <2>3
    <3>2. Owed(y) > 0
      BY <2>1, <3>1
    <3>3. rc[y] >= Owed(y)
      BY <3>2, RefsParts
    <3>4. QED
      BY <2>1, <3>2, <3>3
  <2>4. QED
    BY <1>5, <2>2, <2>3
<1>6. /\ rc1 \in [Objects \cup Pools -> -1 .. MaxRefs]
      /\ \A y \in Objects : rc1[y] = rc[y] + (IF v = y THEN 1 ELSE 0)
      /\ \A p \in Pools : rc1[p] = rc[p]
  <2>1. CASE v = Nil
    BY <1>2, <1>4, <2>1
  <2>2. CASE v # Nil
    <3>1. v \in Objects /\ rc[v] \in -1 .. MaxRefs
      BY <1>4, <2>2
    <3>2. rc[v] > 0 /\ rc[v] < MaxRefs
      BY <1>3, <1>5, <2>2, <3>1
    <3>3. rc1 = [rc EXCEPT ![v] = rc[v] + 1] /\ rc[v] + 1 \in -1 .. MaxRefs
      BY <1>2, <1>4, <2>2, <3>1, <3>2 DEF Refs!increment_refcount, Refs!None
    <3>4. QED
      BY <1>4, <3>1, <3>3
  <2>3. QED
    BY <2>1, <2>2
<1>7. /\ rc' \in [Objects \cup Pools -> -1 .. MaxRefs]
      /\ \A y \in Objects : rc'[y] = rc1[y] - (IF old = y THEN 1 ELSE 0)
      /\ \A p \in Pools : rc'[p] = rc[p]
  <2>1. CASE old = Nil
    BY <1>3, <1>4, <1>6, <2>1
  <2>2. CASE old # Nil
    <3>1. old \in Objects /\ rc[old] > 0 /\ rc[old] \in Int /\ rc1[old] \in -1 .. MaxRefs
      BY <1>4, <1>5, <1>6, <2>2
    <3>2. rc1[old] > 0
      BY <1>6, <3>1
    <3>3. rc' = [rc1 EXCEPT ![old] = rc1[old] - 1] /\ rc1[old] - 1 \in -1 .. MaxRefs
      BY <1>3, <1>4, <2>2, <3>1, <3>2
    <3>4. QED
      BY <1>4, <1>6, <3>1, <3>3
  <2>3. QED
    BY <2>1, <2>2
<1>8. PICK new : /\ new = IF old # Nil /\ rc1[old] = 1 THEN <<Refs!Dealloc(old)>> \o frames[t] ELSE frames[t]
                 /\ frames' = [frames EXCEPT ![t] = new]
  BY <1>3, <1>4
<1>9. /\ FiniteFrames(new)
      /\ \A y \in Objects : /\ TodoCount(new, y) = TodoCount(frames[t], y)
                            /\ DyingCount(new, y) = DyingCount(frames[t], y)
                                      + (IF old = y /\ rc1[y] = 1 THEN 1 ELSE 0)
                            /\ DyingCount(frames[t], y) \in Nat /\ TodoCount(frames[t], y) \in Nat
      /\ \A p \in Pools : DropsCount(new, p) = DropsCount(frames[t], p) /\ DropsCount(frames[t], p) \in Nat
  <2>1. CASE old # Nil /\ rc1[old] = 1
    <3>1. new = <<Refs!Dealloc(old)>> \o frames[t] /\ old \in Objects
      BY <1>8, <2>1
    <3>2. /\ Refs!Dealloc(old) \in RefFrames
          /\ \A y : /\ FrameTodo(Refs!Dealloc(old), y) = 0 /\ FrameDrops(Refs!Dealloc(old), y) = 0
                    /\ FrameDies(Refs!Dealloc(old), y) = IF old = y THEN 1 ELSE 0
      BY <3>1, FrameKinds
    <3>3. /\ FiniteFrames(new)
          /\ \A y \in Objects :
                /\ TodoCount(new, y) = FrameTodo(Refs!Dealloc(old), y) + TodoCount(frames[t], y)
                /\ TodoCount(frames[t], y) \in Nat
                /\ DyingCount(new, y) = FrameDies(Refs!Dealloc(old), y) + DyingCount(frames[t], y)
                /\ DyingCount(frames[t], y) \in Nat
          /\ \A p \in Pools :
                /\ DropsCount(new, p) = FrameDrops(Refs!Dealloc(old), p) + DropsCount(frames[t], p)
                /\ DropsCount(frames[t], p) \in Nat
      BY <1>4, <3>1, <3>2, FramesPushed
    <3>4. QED
      BY <2>1, <3>2, <3>3
  <2>2. CASE ~(old # Nil /\ rc1[old] = 1)
    <3>1. new = frames[t] /\ \A y \in Objects : ~(old = y /\ rc1[y] = 1)
      BY <1>4, <1>8, <2>2
    <3>2. QED
      BY <1>4, <3>1, FramesNat
  <2>3. QED
    BY <2>1, <2>2
<1>10. /\ frames' \in [RefThreads -> Seq(RefFrames)]
       /\ \A y \in Objects :
             /\ IsFiniteSet(FrameRefs(y)') /\ IsFiniteSet(CallsFor(y)')
             /\ FrameSum(y)' = FrameSum(y) - TodoCount(frames[t], y) + TodoCount(new, y)
             /\ CallSum(y)' = CallSum(y) - DyingCount(frames[t], y) + DyingCount(new, y)
       /\ \A p \in Pools :
             /\ IsFiniteSet(InDrains(p)')
             /\ DrainSum(p)' = DrainSum(p) - DropsCount(frames[t], p) + DropsCount(new, p)
  <2>1. RefTypes /\ SumsFinite /\ FiniteFrames(new) /\ frames' = [frames EXCEPT ![t] = new]
    BY <1>4, <1>8, <1>9
  <2>2. QED
    BY <2>1, FramesChanged
<1>11. /\ HoldersTyped
       /\ \A y \in Objects :
             /\ Kept(y)' = Kept(y) - (IF kvc[o] = y THEN 1 ELSE 0) + (IF v = y THEN 1 ELSE 0)
             /\ Kept(y) \in Nat
  BY <1>3, KvcHolders
<1>12. PoolOnce' /\ \A p \in Pools : IsFiniteSet(OnStacks(p)') /\ IsFiniteSet(InDrains(p)')
  <2>1. ASSUME NEW p \in Pools PROVE DrainSum(p)' = DrainSum(p)
    <3>1. DrainSum(p) \in Nat /\ DropsCount(frames[t], p) \in Nat
      BY <1>9, RefsParts
    <3>2. DrainSum(p)' = DrainSum(p) - DropsCount(frames[t], p) + DropsCount(frames[t], p)
      BY <1>9, <1>10
    <3>3. QED
      BY <3>1, <3>2
  <2>2. QED
    BY <1>3, <1>7, <1>10, <2>1, PoolsKept
<1>13. /\ owned' \in [Objects -> Nat] /\ kvc' \in [Objects -> Objects \cup {Nil}]
       /\ assoc' \in [Objects -> [val : Objects \cup {Nil}, retained : BOOLEAN]]
       /\ pool_objects' \in [Pools -> Seq(Objects)] /\ RetainedThere'
       /\ \A y \in Objects :
             /\ IsFiniteSet(PoolRefs(y)') /\ IsFiniteSet(KvcRefs(y)') /\ IsFiniteSet(AssocRefs(y)')
  BY <1>11 DEF HoldersTyped
<1>14. SumsFinite'
  BY <1>10, <1>12, <1>13 DEF SumsFinite
<1>15. ASSUME NEW y \in Objects
       PROVE  /\ Owed(y)' > 0 => rc'[y] >= Owed(y)'
              /\ CallSum(y)' = IF rc'[y] = 0 THEN 1 ELSE 0
              /\ rc'[y] = -1 => rc[y] = -1
  <2>1. PICK a \in {0, 1} : a = (IF old = y THEN 1 ELSE 0)
    OBVIOUS
  <2>2. PICK b \in {0, 1} : b = (IF v = y THEN 1 ELSE 0)
    OBVIOUS
  <2>3. PICK e \in {0, 1} : e = (IF old = y /\ rc1[y] = 1 THEN 1 ELSE 0)
    OBVIOUS
  <2> DEFINE w == Owed(y)  k == Kept(y)  f == FrameSum(y)  c == CallSum(y)  r == rc[y]
             ft == TodoCount(frames[t], y)  dt == DyingCount(frames[t], y)
  <2>4. /\ w \in Nat /\ k \in Nat /\ f \in Nat /\ c \in Nat /\ r \in Int /\ r >= -1
        /\ w = k + f
        /\ w > 0 => r >= w
        /\ c = IF r = 0 THEN 1 ELSE 0
    BY RefsParts
  <2>5. ft \in Nat /\ dt \in Nat
    BY <1>9
  <2>6. Owed(y)' = Kept(y)' + FrameSum(y)'
    BY DEF Owed
  <2>7. Kept(y)' = k - a + b /\ FrameSum(y)' = f - ft + ft /\ CallSum(y)' = c - dt + (dt + e)
    <3>1. FrameSum(y)' = f - ft + ft
      BY <1>9, <1>10
    <3>2. CallSum(y)' = c - dt + (dt + e)
      BY <1>9, <1>10, <2>3
    <3>3. Kept(y)' = k - a + b
      BY <1>1, <1>11, <2>1, <2>2
    <3>4. QED
      BY <3>1, <3>2, <3>3
  <2>8. rc'[y] = r + b - a /\ rc1[y] = r + b
    <3>1. rc1[y] = rc[y] + (IF v = y THEN 1 ELSE 0) /\ rc'[y] = rc1[y] - (IF old = y THEN 1 ELSE 0)
      BY <1>6, <1>7
    <3>2. rc1[y] = r + b /\ rc'[y] = rc1[y] - a
      BY <2>1, <2>2, <3>1
    <3>3. QED
      BY <2>4, <3>2
  <2>9. (a = 1 \/ b = 1) => w > 0 /\ r > 0
    BY <1>5, <2>1, <2>2
  <2>10. (e = 1) <=> (a = 1 /\ r + b = 1)
    BY <2>1, <2>3, <2>8
  <2> HIDE DEF w, k, f, c, r, ft, dt
  <2>11. Owed(y)' = w - a + b /\ CallSum(y)' = c + e
    BY <2>4, <2>5, <2>6, <2>7
  <2>12. Owed(y)' > 0 => rc'[y] >= Owed(y)'
    BY <2>4, <2>8, <2>9, <2>11
  <2>13. CallSum(y)' = IF rc'[y] = 0 THEN 1 ELSE 0
    BY <2>4, <2>8, <2>9, <2>10, <2>11
  <2>14. rc'[y] = -1 => r = -1
    BY <2>4, <2>8, <2>9
  <2>15. QED
    BY <2>12, <2>13, <2>14 DEF r
<1>16. pool_stacks' \in [RefThreads -> Seq(Pools)] /\ UNCHANGED <<weak_refs, slot, managed>>
  BY <1>3, RefsParts
<1>17. QED
  BY <1>7, <1>10, <1>12, <1>13, <1>14, <1>15, <1>16, RefsStep

\* What is cut off a stack waits in a drain.
LEMMA CutStep ==
    ASSUME Refs!RefsAssumption, RefsInv, NEW t \in RefThreads, NEW p \in Pools, Refs!drain(t, p)
    PROVE  RefsInv'
<1>1. UNCHANGED <<weak_refs, slot, managed, pool_objects, kvc, assoc, owned>>
  BY DEF Refs!drain, Refs!weakVars, Refs!tabVars
<1>2. PICK u \in RefThreads :
         /\ Refs!Contains(pool_stacks[u], p)
         /\ LET st == pool_stacks[u]
                i  == CHOOSE k \in DOMAIN st : st[k] = p
            IN  /\ pool_stacks' = [pool_stacks EXCEPT ![u] = SubSeq(st, 1, i - 1)]
                /\ frames' = [frames EXCEPT ![t] =
                      <<Refs!Drain(Refs!Reverse(SubSeq(st, i, Len(st))), <<>>)>> \o frames[t]]
         /\ rc' = [rc EXCEPT ![p] = 0]
  BY DEF Refs!drain, Refs!None
<1>3. PICK st \in Seq(Pools) : st = pool_stacks[u]
  BY RefsParts
<1>4. \E k \in DOMAIN st : st[k] = p
  <2>1. \E k \in 1 .. Len(st) : st[k] = p
    BY <1>2, <1>3 DEF Refs!Contains
  <2>2. QED
    BY <2>1
<1>5. PICK i \in DOMAIN st : i = (CHOOSE k \in DOMAIN st : st[k] = p) /\ st[i] = p
  BY <1>4
<1>6. PICK low, high : low = SubSeq(st, 1, i - 1) /\ high = Refs!Reverse(SubSeq(st, i, Len(st)))
  OBVIOUS
<1>7. /\ pool_stacks' = [pool_stacks EXCEPT ![u] = low]
      /\ frames' = [frames EXCEPT ![t] = <<Refs!Drain(high, <<>>)>> \o frames[t]]
      /\ rc' = [rc EXCEPT ![p] = 0]
  BY <1>2, <1>3, <1>5, <1>6
<1>8. /\ low \in Seq(Pools) /\ high \in Seq(Pools)
      /\ \A q : Cardinality(Refs!Places(low, q)) + Cardinality(Refs!Places(high, q))
                   = Cardinality(Refs!Places(st, q))
      /\ Cardinality(Refs!Places(high, p)) > 0
  BY <1>5, <1>6, PlacesCut
<1>9. \A q : /\ Cardinality(Refs!Places(low, q)) \in Nat /\ Cardinality(Refs!Places(high, q)) \in Nat
             /\ Cardinality(Refs!Places(st, q)) \in Nat
  BY <1>8, PlacesCount
<1>10. /\ RefTypes /\ SumsFinite /\ Objects \cap Pools = {} /\ FiniteFrames(frames[t])
       /\ rc \in [Objects \cup Pools -> -1 .. MaxRefs] /\ MaxRefs \in Nat \ {0}
  BY RefsParts, ThreadFrames
<1>11. /\ rc' \in [Objects \cup Pools -> -1 .. MaxRefs]
       /\ \A y \in Objects : rc'[y] = rc[y]
       /\ \A q \in Pools : rc'[q] = IF q = p THEN 0 ELSE rc[q]
  BY <1>7, <1>10
<1>12. /\ Refs!Drain(high, <<>>) \in RefFrames
       /\ \A y : /\ FrameTodo(Refs!Drain(high, <<>>), y) = 0
                 /\ FrameDrops(Refs!Drain(high, <<>>), y) = Cardinality(Refs!Places(high, y))
                 /\ FrameDies(Refs!Drain(high, <<>>), y) = 0
  <2>1. <<>> \in Seq(Objects) /\ high \in Seq(Pools)
    BY <1>8
  <2>2. \A ps \in Seq(Pools), vs \in Seq(Objects) :
           /\ Refs!Drain(ps, vs) \in RefFrames
           /\ \A x : /\ FrameTodo(Refs!Drain(ps, vs), x) = Cardinality(Refs!Places(vs, x))
                     /\ FrameDrops(Refs!Drain(ps, vs), x) = Cardinality(Refs!Places(ps, x))
                     /\ FrameDies(Refs!Drain(ps, vs), x) = 0
    BY FrameKinds
  <2>3. \A x : Cardinality(Refs!Places(<<>>, x)) = 0
    BY PlacesEmpty
  <2>4. /\ Refs!Drain(high, <<>>) \in RefFrames
        /\ \A x : /\ FrameTodo(Refs!Drain(high, <<>>), x) = Cardinality(Refs!Places(<<>>, x))
                  /\ FrameDrops(Refs!Drain(high, <<>>), x) = Cardinality(Refs!Places(high, x))
                  /\ FrameDies(Refs!Drain(high, <<>>), x) = 0
    BY ONLY <2>1, <2>2, Zenon
  <2>5. QED
    BY <2>3, <2>4
<1>13. PICK new : new = <<Refs!Drain(high, <<>>)>> \o frames[t]
  OBVIOUS
<1>14. /\ FiniteFrames(new)
       /\ \A y \in Objects : /\ TodoCount(new, y) = TodoCount(frames[t], y)
                             /\ DyingCount(new, y) = DyingCount(frames[t], y)
                             /\ TodoCount(frames[t], y) \in Nat /\ DyingCount(frames[t], y) \in Nat
       /\ \A q \in Pools : /\ DropsCount(new, q) = Cardinality(Refs!Places(high, q)) + DropsCount(frames[t], q)
                           /\ DropsCount(frames[t], q) \in Nat
  <2>1. /\ FiniteFrames(new)
        /\ \A y \in Objects :
              /\ TodoCount(new, y) = FrameTodo(Refs!Drain(high, <<>>), y) + TodoCount(frames[t], y)
              /\ TodoCount(frames[t], y) \in Nat
              /\ DyingCount(new, y) = FrameDies(Refs!Drain(high, <<>>), y) + DyingCount(frames[t], y)
              /\ DyingCount(frames[t], y) \in Nat
        /\ \A q \in Pools :
              /\ DropsCount(new, q) = FrameDrops(Refs!Drain(high, <<>>), q) + DropsCount(frames[t], q)
              /\ DropsCount(frames[t], q) \in Nat
    BY <1>10, <1>12, <1>13, FramesPushed
  <2>2. QED
    BY <1>12, <2>1
<1>15. /\ frames' \in [RefThreads -> Seq(RefFrames)]
       /\ \A y \in Objects :
             /\ IsFiniteSet(FrameRefs(y)') /\ IsFiniteSet(CallsFor(y)')
             /\ FrameSum(y)' = FrameSum(y) - TodoCount(frames[t], y) + TodoCount(new, y)
             /\ CallSum(y)' = CallSum(y) - DyingCount(frames[t], y) + DyingCount(new, y)
       /\ \A q \in Pools :
             /\ IsFiniteSet(InDrains(q)')
             /\ DrainSum(q)' = DrainSum(q) - DropsCount(frames[t], q) + DropsCount(new, q)
  <2>1. RefTypes /\ SumsFinite /\ FiniteFrames(new) /\ frames' = [frames EXCEPT ![t] = new]
    BY <1>7, <1>10, <1>13, <1>14
  <2>2. QED
    BY <2>1, FramesChanged
<1>16. /\ pool_stacks' \in [RefThreads -> Seq(Pools)]
       /\ \A q \in Pools :
             /\ IsFiniteSet(OnStacks(q)')
             /\ StackSum(q)' = StackSum(q) - Cardinality(Refs!Places(st, q)) + Cardinality(Refs!Places(low, q))
             /\ Cardinality(Refs!Places(st, q)) <= StackSum(q)
  <2>1. /\ pool_stacks' \in [RefThreads -> Seq(Pools)]
        /\ \A q \in Pools :
              /\ IsFiniteSet(OnStacks(q)')
              /\ StackSum(q)' = StackSum(q) - Cardinality(Refs!Places(pool_stacks[u], q))
                                            + Cardinality(Refs!Places(low, q))
              /\ Cardinality(Refs!Places(pool_stacks[u], q)) <= StackSum(q)
    BY <1>7, <1>8, <1>10, StackChanged
  <2>2. QED
    BY <1>3, <2>1
<1>17. PoolOnce'
  <2>1. SUFFICES ASSUME NEW q \in Pools
                 PROVE  /\ StackSum(q)' + DrainSum(q)' = IF rc'[q] = -1 THEN 0 ELSE 1
                        /\ StackSum(q)' = 1 => rc'[q] = 1
    BY DEF PoolOnce
  <2> DEFINE s == StackSum(q)  d == DrainSum(q)  l == Cardinality(Refs!Places(low, q))
             h == Cardinality(Refs!Places(high, q))  e == DropsCount(frames[t], q)
             c == Cardinality(Refs!Places(st, q))
  <2>2. /\ s \in Nat /\ d \in Nat /\ l \in Nat /\ h \in Nat /\ e \in Nat /\ rc[q] \in Int
        /\ s + d = IF rc[q] = -1 THEN 0 ELSE 1
        /\ s = 1 => rc[q] = 1
    BY <1>9, <1>14, RefsParts
  <2>3. StackSum(q)' = s - c + l /\ DrainSum(q)' = d - e + (h + e) /\ l + h = c /\ c <= s
    BY <1>8, <1>14, <1>15, <1>16
  <2>4. q = p => h > 0
    BY <1>8
  <2>5. rc'[q] = IF q = p THEN 0 ELSE rc[q]
    BY <1>11
  <2> HIDE DEF s, d, l, h, e, c
  <2>6. StackSum(q)' = s - h /\ DrainSum(q)' = d + h /\ s - h \in Nat
    BY <2>2, <2>3
  <2>7. StackSum(q)' + DrainSum(q)' = s + d
    BY <2>2, <2>6
  <2>8. CASE q = p
    <3>1. s = 1 /\ d = 0 /\ h = 1 /\ rc[q] = 1
      <4>1. h > 0 /\ s >= h /\ s + d <= 1
        BY <2>2, <2>4, <2>6, <2>8
      <4>2. s = 1 /\ d = 0 /\ h = 1
        BY <2>2, <4>1
      <4>3. QED
        BY <2>2, <4>2
    <3>2. StackSum(q)' = 0 /\ DrainSum(q)' = 1 /\ rc'[q] = 0
      BY <2>5, <2>6, <2>8, <3>1
    <3>3. QED
      BY <3>2
  <2>9. CASE q # p
    <3>1. rc'[q] = rc[q]
      BY <2>5, <2>9
    <3>2. StackSum(q)' = 1 => s = 1
      <4>1. s <= 1
        BY <2>2
      <4>2. QED
        BY <2>2, <2>6, <4>1
    <3>3. QED
      BY <2>2, <2>7, <3>1, <3>2
  <2>10. QED
    BY <2>8, <2>9
<1>18. HoldersTyped /\ \A y \in Objects : Kept(y)' = Kept(y) /\ Kept(y) \in Nat
  BY <1>1, KeptAll
<1>19. /\ owned' \in [Objects -> Nat] /\ kvc' \in [Objects -> Objects \cup {Nil}]
       /\ assoc' \in [Objects -> [val : Objects \cup {Nil}, retained : BOOLEAN]]
       /\ pool_objects' \in [Pools -> Seq(Objects)] /\ RetainedThere'
       /\ \A y \in Objects :
             /\ IsFiniteSet(PoolRefs(y)') /\ IsFiniteSet(KvcRefs(y)') /\ IsFiniteSet(AssocRefs(y)')
  BY <1>18 DEF HoldersTyped
<1>20. SumsFinite'
  BY <1>15, <1>16, <1>19 DEF SumsFinite
<1>21. ASSUME NEW y \in Objects
       PROVE  /\ Owed(y)' > 0 => rc'[y] >= Owed(y)'
              /\ CallSum(y)' = IF rc'[y] = 0 THEN 1 ELSE 0
              /\ rc'[y] = -1 => rc[y] = -1
  <2>1. /\ FrameSum(y) \in Nat /\ CallSum(y) \in Nat
        /\ Owed(y) > 0 => rc[y] >= Owed(y)
        /\ CallSum(y) = IF rc[y] = 0 THEN 1 ELSE 0
    BY RefsParts
  <2>2. /\ FrameSum(y)' = FrameSum(y) - TodoCount(frames[t], y) + TodoCount(frames[t], y)
        /\ CallSum(y)' = CallSum(y) - DyingCount(frames[t], y) + DyingCount(frames[t], y)
        /\ TodoCount(frames[t], y) \in Nat /\ DyingCount(frames[t], y) \in Nat
    BY <1>14, <1>15
  <2>3. FrameSum(y)' = FrameSum(y) /\ CallSum(y)' = CallSum(y)
    BY <2>1, <2>2
  <2>4. Owed(y)' = Owed(y)
    BY <1>18, <2>3 DEF Owed
  <2>5. rc'[y] = rc[y]
    BY <1>11
  <2>6. QED
    BY <2>1, <2>3, <2>4, <2>5
<1>22. UNCHANGED <<weak_refs, slot, managed>>
  BY <1>1
<1>23. QED
  BY <1>11, <1>15, <1>16, <1>17, <1>19, <1>20, <1>21, <1>22, RefsStep

LEMMA TaggedNone ==
    ASSUME NEW P, \A k \in DOMAIN P : P[k] = {}
    PROVE  Refs!Tagged(P) = {}
BY DEF Refs!Tagged

LEMMA RefsInitial ==
    ASSUME Refs!RefsAssumption, Refs!Init
    PROVE  RefsInv
<1>1. /\ MaxRefs \in Nat \ {0} /\ Nil \notin Objects \cup Pools
      /\ rc = [x \in Objects \cup Pools |-> -1]
      /\ weak_refs = [o \in Objects |-> [s \in Slots |-> 0]]
      /\ slot = [s \in Slots |-> Nil] /\ managed = [s \in Slots |-> FALSE]
      /\ pool_stacks = [t \in RefThreads |-> <<>>] /\ pool_objects = [p \in Pools |-> <<>>]
      /\ kvc = [o \in Objects |-> Nil]
      /\ assoc = [o \in Objects |-> [val |-> Nil, retained |-> FALSE]]
      /\ frames = [t \in RefThreads |-> <<>>] /\ owned = [o \in Objects |-> 0]
  BY DEF Refs!RefsAssumption, Refs!Init, Refs!Absent, Refs!NoSlots, Refs!NoAssoc
<1>2. RefTypes
  <2>1. /\ rc \in [Objects \cup Pools -> -1 .. MaxRefs]
        /\ weak_refs \in [Objects -> [Slots -> Nat]]
        /\ slot \in [Slots -> Objects \cup {Nil}] /\ managed \in [Slots -> BOOLEAN]
    BY <1>1
  <2>2. /\ pool_stacks \in [RefThreads -> Seq(Pools)] /\ pool_objects \in [Pools -> Seq(Objects)]
        /\ frames \in [RefThreads -> Seq(RefFrames)] /\ owned \in [Objects -> Nat]
    BY <1>1
  <2>3. /\ kvc \in [Objects -> Objects \cup {Nil}]
        /\ assoc \in [Objects -> [val : Objects \cup {Nil}, retained : BOOLEAN]]
    BY <1>1
  <2>4. QED
    BY <2>1, <2>2, <2>3 DEF RefTypes, Refs!TypeOK, Refs!Absent
<1>3. \A x : Refs!Todo(<<>>, x) = {} /\ Refs!Drops(<<>>, x) = {} /\ Refs!Dying(<<>>, x) = {}
  <2>1. \A x : Refs!Todo(<<>>, x) = {}
    BY TaggedNone DEF Refs!Todo
  <2>2. \A x : Refs!Drops(<<>>, x) = {}
    BY TaggedNone DEF Refs!Drops
  <2>3. \A x : Refs!Dying(<<>>, x) = {}
    BY DEF Refs!Dying
  <2>4. QED
    BY <2>1, <2>2, <2>3
<1>4. /\ \A x : FrameRefs(x) = {} /\ CallsFor(x) = {} /\ PoolRefs(x) = {}
      /\ \A p : OnStacks(p) = {} /\ InDrains(p) = {}
  <2>1. \A x : FrameRefs(x) = {}
    BY <1>1, <1>3, TaggedNone DEF FrameRefs
  <2>2. \A x : CallsFor(x) = {}
    BY <1>1, <1>3, TaggedNone DEF CallsFor
  <2>3. \A x : PoolRefs(x) = {}
    BY <1>1, PlacesEmpty, TaggedNone DEF PoolRefs
  <2>4. \A p : OnStacks(p) = {}
    BY <1>1, PlacesEmpty, TaggedNone DEF OnStacks
  <2>5. \A p : InDrains(p) = {}
    BY <1>1, <1>3, TaggedNone DEF InDrains
  <2>6. QED
    BY <2>1, <2>2, <2>3, <2>4, <2>5
<1>5. \A x \in Objects : KvcRefs(x) = {} /\ AssocRefs(x) = {}
  BY <1>1 DEF KvcRefs, AssocRefs
<1>6. IsFiniteSet({}) /\ Cardinality({}) = 0
  BY FS_EmptySet
<1>7. SumsFinite
  BY <1>4, <1>5, <1>6 DEF SumsFinite
<1>8. RetainedThere
  BY <1>1 DEF RetainedThere
<1>9. \A x \in Objects : Owed(x) = 0 /\ CallSum(x) = 0
  <2>1. ASSUME NEW x \in Objects PROVE Owed(x) = 0 /\ CallSum(x) = 0
    <3>1. /\ FrameSum(x) = 0 /\ CallSum(x) = 0 /\ PoolSum(x) = 0 /\ KvcSum(x) = 0
          /\ AssocSum(x) = 0 /\ owned[x] = 0
      BY <1>1, <1>4, <1>5, <1>6 DEF FrameSum, CallSum, PoolSum, KvcSum, AssocSum
    <3>2. Owed(x) = ((owned[x] + PoolSum(x)) + KvcSum(x) + AssocSum(x)) + FrameSum(x)
      BY DEF Owed, Kept
    <3>3. QED
      BY <3>1, <3>2
  <2>2. QED
    BY <2>1
<1>10. OwedCounted /\ DyingOnce
  BY <1>1, <1>9 DEF OwedCounted, DyingOnce
<1>11. PoolOnce
  <2>1. \A p \in Pools : StackSum(p) = 0 /\ DrainSum(p) = 0 /\ rc[p] = -1
    BY <1>1, <1>4, <1>6 DEF StackSum, DrainSum
  <2>2. QED
    BY <2>1 DEF PoolOnce
<1>12. Refs!WeakTableExact
  BY <1>1 DEF Refs!WeakTableExact
<1>13. QED
  BY <1>2, <1>7, <1>8, <1>10, <1>11, <1>12 DEF RefsInv

LEMMA RefsNext ==
    ASSUME Refs!RefsAssumption, ~LoadDying, RefsInv, [Refs!Next]_(Refs!vars)
    PROVE  RefsInv'
<1>1. CASE UNCHANGED Refs!vars
  <2>1. UNCHANGED <<rc, weak_refs, slot, managed, pool_stacks, pool_objects, kvc, assoc, frames, owned>>
    BY <1>1 DEF Refs!vars, Refs!weakVars, Refs!poolVars, Refs!tabVars
  <2>2. /\ weak_refs' \in [Objects -> [Slots -> Nat]]
        /\ slot' \in [Slots -> Objects \cup {Nil}] /\ managed' \in [Slots -> BOOLEAN]
    BY <2>1, RefsParts
  <2>3. Refs!WeakTableExact'
    BY <2>1 DEF RefsInv, Refs!WeakTableExact
  <2>4. QED
    BY <2>1, <2>2, <2>3, WeakStep
<1>2. ASSUME NEW t \in RefThreads, NEW o \in Objects, Refs!ObjectCall(t, o)
      PROVE  RefsInv'
  <2>1. CASE Refs!alloc_object(t, o)
    BY <2>1, AllocStep
  <2>2. CASE Refs!objc_retain(t, o) \/ Refs!objc_autorelease(t, o) \/ Refs!objc_retainAutorelease(t, o)
    BY <2>2, RetainStep
  <2>3. CASE Refs!objc_release(t, o)
    BY <2>3, GuestReleaseStep
  <2>4. ASSUME NEW v \in Objects \cup {Nil}, Refs!setValue_forUndefinedKey(t, o, v)
        PROVE  RefsInv'
    BY <2>4, SetValueStep
  <2>5. ASSUME NEW v \in Objects \cup {Nil}, Refs!objc_setAssociatedObject(t, o, v)
        PROVE  RefsInv'
    BY <2>5, SetAssocStep
  <2>6. QED
    BY <1>2, <2>1, <2>2, <2>3, <2>4, <2>5 DEF Refs!ObjectCall
<1>3. ASSUME NEW t \in RefThreads, NEW s \in Slots, Refs!WeakCall(t, s)
      PROVE  RefsInv'
  <2>1. CASE \/ \E v \in Objects \cup {Nil} : Refs!objc_initWeak(t, s, v) \/ Refs!objc_storeWeak(t, s, v)
             \/ Refs!objc_destroyWeak(t, s)
    BY <2>1, StoreStep
  <2>2. CASE Refs!objc_loadWeakRetained(t, s) \/ Refs!objc_loadWeak(t, s)
    BY <2>2, LoadStep
  <2>3. ASSUME NEW from \in Slots, Refs!objc_copyWeak(t, s, from) \/ Refs!objc_moveWeak(t, s, from)
        PROVE  RefsInv'
    BY <2>3, CopyStep
  <2>4. QED
    BY <1>3, <2>1, <2>2, <2>3 DEF Refs!WeakCall
<1>4. ASSUME NEW t \in RefThreads, NEW p \in Pools, Refs!PoolCall(t, p)
      PROVE  RefsInv'
  BY <1>4, NewPoolStep, CutStep DEF Refs!PoolCall
<1>5. ASSUME NEW t \in RefThreads, Refs!HostStep(t)
      PROVE  RefsInv'
  BY <1>5, DrainStepKeeps, DeallocStep, KvcStepKeeps, GoneStep, StoredStep DEF Refs!HostStep
<1>6. QED
  BY <1>1, <1>2, <1>3, <1>4, <1>5 DEF Refs!Next

LEMMA RefsCardinality ==
    ASSUME NEW S
    PROVE  Refs!Cardinality(S) = Cardinality(S)
  BY DEF Refs!Cardinality, Cardinality

LEMMA RefsSound ==
    ASSUME Refs!RefsAssumption, RefsInv
    PROVE  /\ Refs!TypeOK /\ Refs!HoldersCounted /\ Refs!DeallocOnce
           /\ Refs!WeakTableExact /\ Refs!PoolsStacked
<1>1. /\ \A x \in Objects : /\ Refs!InPools(x) = PoolSum(x) /\ Refs!InFrames(x) = FrameSum(x)
                            /\ Refs!InTables(x) = KvcSum(x) + AssocSum(x)
                            /\ Refs!Deallocs(x) = CallSum(x)
      /\ \A p \in Pools : Refs!Stacked(p) = StackSum(p) /\ Refs!Dropped(p) = DrainSum(p)
  <2>1. \A x \in Objects : Refs!InPools(x) = PoolSum(x)
    BY RefsCardinality DEF Refs!InPools, PoolSum, PoolRefs
  <2>2. \A x \in Objects : Refs!InFrames(x) = FrameSum(x)
    BY RefsCardinality DEF Refs!InFrames, FrameSum, FrameRefs
  <2>3. \A x \in Objects : Refs!InTables(x) = KvcSum(x) + AssocSum(x)
    BY RefsCardinality DEF Refs!InTables, KvcSum, KvcRefs, AssocSum, AssocRefs
  <2>4. \A x \in Objects : Refs!Deallocs(x) = CallSum(x)
    BY RefsCardinality DEF Refs!Deallocs, CallSum, CallsFor
  <2>5. \A p \in Pools : Refs!Stacked(p) = StackSum(p)
    BY RefsCardinality DEF Refs!Stacked, StackSum, OnStacks
  <2>6. \A p \in Pools : Refs!Dropped(p) = DrainSum(p)
    BY RefsCardinality DEF Refs!Dropped, DrainSum, InDrains
  <2>7. QED
    BY <2>1, <2>2, <2>3, <2>4, <2>5, <2>6
<1>2. Refs!HoldersCounted
  <2>1. ASSUME NEW x \in Objects
        PROVE  /\ owned[x] + Refs!InPools(x) + Refs!InFrames(x) + Refs!InTables(x) = Owed(x)
               /\ Owed(x) > 0 => rc[x] >= Owed(x)
    <3>1. /\ owned[x] \in Nat /\ PoolSum(x) \in Nat /\ FrameSum(x) \in Nat
          /\ KvcSum(x) \in Nat /\ AssocSum(x) \in Nat
          /\ Owed(x) = owned[x] + PoolSum(x) + FrameSum(x) + KvcSum(x) + AssocSum(x)
          /\ Owed(x) > 0 => rc[x] >= Owed(x)
      BY RefsParts
    <3>2. Refs!InPools(x) = PoolSum(x) /\ Refs!InFrames(x) = FrameSum(x) /\ Refs!InTables(x) = KvcSum(x) + AssocSum(x)
      BY <1>1
    <3>3. QED
      BY <3>1, <3>2
  <2>2. QED
    BY <2>1 DEF Refs!HoldersCounted
<1>3. Refs!DeallocOnce
  BY <1>1, RefsParts DEF Refs!DeallocOnce, Refs!None
<1>4. Refs!PoolsStacked
  <2>1. ASSUME NEW p \in Pools
        PROVE  /\ Refs!Stacked(p) = 1 => rc[p] = 1
               /\ Refs!Stacked(p) <= 1
               /\ rc[p] # -1 /\ Refs!Stacked(p) = 0 => Refs!Dropped(p) > 0
    <3>1. /\ StackSum(p) \in Nat /\ DrainSum(p) \in Nat
          /\ StackSum(p) + DrainSum(p) = IF rc[p] = -1 THEN 0 ELSE 1
          /\ StackSum(p) = 1 => rc[p] = 1
      BY RefsParts
    <3>2. Refs!Stacked(p) = StackSum(p) /\ Refs!Dropped(p) = DrainSum(p)
      BY <1>1
    <3>3. QED
      BY <3>1, <3>2
  <2>2. QED
    BY <2>1 DEF Refs!PoolsStacked, Refs!Absent
<1>5. QED
  BY <1>2, <1>3, <1>4 DEF RefsInv, RefTypes

\* Every reference that the guest, a pool, a half-done drain or dealloc, a KVC value or
\* an association holds is covered by the reference count, and an object whose count is
\* gone is in exactly one call of dealloc, for any number of threads and objects. It
\* needs a guest that does not load a weak variable while its object is deallocated.
THEOREM ReferencesCounted ==
    ASSUME Refs!RefsAssumption, ~LoadDying
    PROVE  Refs!Spec => [](Refs!TypeOK /\ Refs!HoldersCounted /\ Refs!DeallocOnce)
<1>1. Refs!Init => RefsInv
  BY RefsInitial
<1>2. RefsInv /\ [Refs!Next]_(Refs!vars) => RefsInv'
  BY RefsNext
<1>3. RefsInv => Refs!TypeOK /\ Refs!HoldersCounted /\ Refs!DeallocOnce
  BY RefsSound
<1>4. QED
  BY <1>1, <1>2, <1>3, PTL DEF Refs!Spec

\* ObjC.weak_refs lists a slot under an object exactly when the slot is a weak variable
\* that refers to it, so dealloc_object zeroes every such variable and no other memory;
\* and a pool that is alive is on one thread's stack, once, or waits in a drain.
THEOREM WeakAndPoolsExact ==
    ASSUME Refs!RefsAssumption, ~LoadDying
    PROVE  Refs!Spec => [](Refs!WeakTableExact /\ Refs!PoolsStacked)
<1>1. Refs!Init => RefsInv
  BY RefsInitial
<1>2. RefsInv /\ [Refs!Next]_(Refs!vars) => RefsInv'
  BY RefsNext
<1>3. RefsInv => Refs!WeakTableExact /\ Refs!PoolsStacked
  BY RefsSound
<1>4. QED
  BY <1>1, <1>2, <1>3, PTL DEF Refs!Spec

(***************************************************************************)
(* Message dispatch                                                        *)
(***************************************************************************)
CONSTANTS MsgThreads, Classes, Super, NoClass, Implementing, MAX_DEPTH, MaxNesting
VARIABLES initialized_classes, DISPATCH_DEPTH, msg_stack, msg_calls
Msg == INSTANCE MessageDispatch WITH
    ThreadIds <- MsgThreads, stack <- msg_stack, calls <- msg_calls

\* A set of numbers has a least one, and one with a bound a greatest.
LEMMA LeastOfNats ==
    ASSUME NEW T \in SUBSET Nat, T # {}
    PROVE  \E x \in T : \A y \in T : x <= y
<1> DEFINE R == OpToRel(<, Nat)
<1>1. \A x, y \in Nat : <<y, x>> \in R <=> y < x
  BY DEF OpToRel
<1>2. IsWellFoundedOn(R, Nat)
  BY NatLessThanWellFounded
<1> HIDE DEF R
<1>3. PICK x \in T : \A y \in T : ~ (<<y, x>> \in R)
  BY <1>2, WFMin
<1>4. \A y \in T : x <= y
  <2> SUFFICES ASSUME NEW y \in T PROVE x <= y
    OBVIOUS
  <2>1. x \in Nat /\ y \in Nat /\ ~ (y < x)
    BY <1>1, <1>3
  <2>2. QED
    BY <2>1
<1>5. QED
  BY <1>4

LEMMA GreatestOfNats ==
    ASSUME NEW n \in Nat, NEW S \in SUBSET (1 .. n), S # {}
    PROVE  \E x \in S : \A y \in S : y <= x
<1> DEFINE T == {m \in Nat : \A j \in S : j <= m}
<1>0. T \in SUBSET Nat /\ n \in T
  OBVIOUS
<1>1. PICK m \in T : \A k \in T : m <= k
  BY <1>0, LeastOfNats
<1>2. CASE m \in S
  BY <1>1, <1>2
<1>3. CASE m \notin S
  <2>1. PICK j \in S : j \in 1 .. n
    OBVIOUS
  <2>2a. j \in Nat /\ j >= 1 /\ j <= m /\ m \in Nat
    BY <1>1, <2>1
  <2>2. m - 1 \in Nat /\ \A i \in S : i <= m - 1
    BY <1>1, <1>3, <2>2a
  <2>3. QED
    BY <1>1, <2>2, <2>2a
<1>4. QED
  BY <1>2, <1>3

\* What holds for 0, and for n + 1 if for n, holds for all numbers.
LEMMA Counting ==
    ASSUME NEW T, 0 \in T, \A n \in Nat : n \in T => n + 1 \in T
    PROVE  Nat \subseteq T
<1> SUFFICES ASSUME Nat \ T # {} PROVE FALSE
  OBVIOUS
<1>1. PICK n \in Nat \ T : \A k \in Nat \ T : n <= k
  BY LeastOfNats
<1>2. n - 1 \in Nat /\ n - 1 \in T
  BY <1>1
<1>3. QED
  BY <1>1, <1>2

(***************************************************************************)
(* The superclasses of a class                                             *)
(***************************************************************************)
Line(f, c) == IF Super[c] = NoClass THEN <<c>> ELSE Append(f[Super[c]], c)

LEMMA LineageDefined ==
    ASSUME Msg!DispatchAssumption
    PROVE  Msg!Lineage = [c \in Classes |-> Line(Msg!Lineage, c)]
<1>1. PICK height \in [Classes -> 0 .. Msg!Cardinality(Classes)] :
          \A c \in Classes : Super[c] # NoClass => height[Super[c]] < height[c]
  BY DEF Msg!DispatchAssumption
<1>2. Super \in [Classes -> Classes \cup {NoClass}] /\ NoClass \notin Classes
      /\ \A c \in Classes : height[c] \in Nat
  BY <1>1 DEF Msg!DispatchAssumption
<1> DEFINE Below(n) == {c \in Classes : height[c] < n}
           T == {n \in Nat : \E f : f = [c \in Below(n) |-> Line(f, c)]}
<1>3. 0 \in T
  <2>1. [c \in {} |-> 0] = [c \in Below(0) |-> Line([d \in {} |-> 0], c)]
    <3>1. Below(0) = {}
      BY <1>2
    <3>2. QED
      BY <3>1
  <2>2. QED
    BY <2>1
<1>4. ASSUME NEW n \in Nat, n \in T PROVE n + 1 \in T
  <2>1. PICK f : f = [c \in Below(n) |-> Line(f, c)]
    BY <1>4
  <2> DEFINE g == [c \in Below(n + 1) |-> Line(f, c)]
  <2>2. ASSUME NEW c \in Below(n + 1) PROVE Line(f, c) = Line(g, c)
    <3>1. CASE Super[c] = NoClass
      BY <3>1 DEF Line
    <3>2. CASE Super[c] # NoClass
      <4>1. Super[c] \in Below(n) /\ Super[c] \in Below(n + 1)
        BY <1>1, <1>2, <2>2, <3>2
      <4>2. f[Super[c]] = g[Super[c]]
        BY <2>1, <4>1
      <4>3. QED
        BY <3>2, <4>2 DEF Line
    <3>3. QED
      BY <3>1, <3>2
  <2>3. g = [c \in Below(n + 1) |-> Line(g, c)]
    BY <2>2
  <2> HIDE DEF g
  <2>4. \E h : h = [c \in Below(n + 1) |-> Line(h, c)]
    BY <2>3
  <2>5. QED
    BY <2>4
<1>5. Nat \subseteq T
  <2> HIDE DEF T
  <2>1. QED
    BY <1>3, <1>4, Counting
<1>6. \E f : f = [c \in Classes |-> Line(f, c)]
  <2>1. PICK n \in Nat : \A c \in Classes : height[c] < n
    <3>1. IsFiniteSet(Classes) /\ Msg!Cardinality(Classes) = Cardinality(Classes)
      BY DEF Msg!DispatchAssumption, Msg!IsFiniteSet, IsFiniteSet, Msg!Cardinality, Cardinality
    <3>2. PICK k \in Nat : k = Cardinality(Classes)
      BY <3>1, FS_CardinalityType
    <3>3. \A c \in Classes : height[c] \in 0 .. k
      BY <1>1, <3>1, <3>2
    <3>4. k + 1 \in Nat /\ \A c \in Classes : height[c] < k + 1
      BY <3>3
    <3>5. QED
      BY <3>4
  <2>2. Below(n) = Classes
    BY <2>1
  <2>3. n \in T
    BY <1>5
  <2>4. QED
    BY <2>2, <2>3
<1>7. QED
  BY <1>6 DEF Msg!Lineage, Line

\* A class is the last of its line, and each class of the line comes after its
\* superclass.
InLine(c, line) ==
    /\ line \in Seq(Classes) /\ Len(line) > 0 /\ line[Len(line)] = c
    /\ \A k \in 1 .. Len(line) : Super[line[k]] = IF k = 1 THEN NoClass ELSE line[k - 1]

LEMMA LineageSound ==
    ASSUME Msg!DispatchAssumption, NEW c \in Classes
    PROVE  InLine(c, Msg!Lineage[c])
<1>1. PICK height \in [Classes -> 0 .. Msg!Cardinality(Classes)] :
          \A d \in Classes : Super[d] # NoClass => height[Super[d]] < height[d]
  BY DEF Msg!DispatchAssumption
<1>2. Super \in [Classes -> Classes \cup {NoClass}] /\ NoClass \notin Classes
      /\ \A d \in Classes : height[d] \in Nat
  BY <1>1 DEF Msg!DispatchAssumption
<1>3. \A d \in Classes : Msg!Lineage[d] = Line(Msg!Lineage, d)
  BY LineageDefined
<1> DEFINE T == {n \in Nat : \A d \in Classes : height[d] < n => InLine(d, Msg!Lineage[d])}
<1>4. 0 \in T
  BY <1>2
<1>5. ASSUME NEW n \in Nat, n \in T PROVE n + 1 \in T
  <2>1. ASSUME NEW d \in Classes, height[d] < n + 1 PROVE InLine(d, Msg!Lineage[d])
    <3>1. CASE Super[d] = NoClass
      <4>1. Msg!Lineage[d] = <<d>>
        BY <1>3, <3>1 DEF Line
      <4>2. QED
        BY <3>1, <4>1 DEF InLine
    <3>2. CASE Super[d] # NoClass
      <4> DEFINE up == Msg!Lineage[Super[d]]
      <4>1. Super[d] \in Classes /\ InLine(Super[d], up)
        BY <1>1, <1>2, <1>5, <2>1, <3>2
      <4>2. Msg!Lineage[d] = Append(up, d)
        BY <1>3, <3>2 DEF Line
      <4> HIDE DEF up
      <4>3. /\ up \in Seq(Classes) /\ Len(up) \in Nat /\ Len(up) > 0 /\ up[Len(up)] = Super[d]
            /\ \A k \in 1 .. Len(up) : Super[up[k]] = IF k = 1 THEN NoClass ELSE up[k - 1]
        BY <4>1 DEF InLine
      <4>4. PICK l : l = Append(up, d)
        OBVIOUS
      <4>5. /\ l \in Seq(Classes) /\ Len(l) = Len(up) + 1 /\ l[Len(up) + 1] = d
            /\ \A k \in 1 .. Len(up) : l[k] = up[k]
        BY <4>3, <4>4
      <4>6. ASSUME NEW k \in 1 .. Len(l)
            PROVE  Super[l[k]] = IF k = 1 THEN NoClass ELSE l[k - 1]
        <5>1. CASE k = Len(up) + 1
          BY <4>3, <4>5, <5>1
        <5>2. CASE k # Len(up) + 1
          <6>1. k \in 1 .. Len(up) /\ (k # 1 => k - 1 \in 1 .. Len(up))
            BY <4>3, <4>5, <5>2
          <6>2. QED
            BY <4>3, <4>5, <6>1
        <5>3. QED
          BY <5>1, <5>2
      <4>7. InLine(d, l)
        BY <4>3, <4>5, <4>6 DEF InLine
      <4>8. QED
        BY <4>2, <4>4, <4>7
    <3>3. QED
      BY <3>1, <3>2
  <2>2. QED
    BY <2>1
<1>6. Nat \subseteq T
  <2> HIDE DEF T
  <2>1. QED
    BY <1>4, <1>5, Counting
<1>7. height[c] + 1 \in T /\ height[c] < height[c] + 1
  BY <1>2, <1>6
<1>8. QED
  BY <1>7

\* A set of classes that has the superclasses of its members.
ClosedUp(S) == \A c \in S : Super[c] = NoClass \/ Super[c] \in S

LEMMA ClosedHasLine ==
    ASSUME Msg!DispatchAssumption, NEW S, ClosedUp(S), NEW c, NEW line, InLine(c, line),
           NEW n \in 1 .. Len(line), line[n] \in S
    PROVE  \A k \in 1 .. n : line[k] \in S
<1>1. line \in Seq(Classes) /\ Len(line) \in Nat /\ NoClass \notin Classes
      /\ \A k \in 1 .. Len(line) : Super[line[k]] = IF k = 1 THEN NoClass ELSE line[k - 1]
  BY DEF InLine, Msg!DispatchAssumption
<1> DEFINE T == {m \in Nat : n - m \in 1 .. n => line[n - m] \in S}
<1>2. 0 \in T
  OBVIOUS
<1>3. ASSUME NEW m \in Nat, m \in T PROVE m + 1 \in T
  <2> SUFFICES ASSUME n - (m + 1) \in 1 .. n PROVE line[n - (m + 1)] \in S
    OBVIOUS
  <2>1. PICK k : k = n - m
    OBVIOUS
  <2>2. k \in 1 .. Len(line) /\ k # 1 /\ k - 1 = n - (m + 1) /\ k \in 1 .. n /\ k - 1 \in 1 .. Len(line)
    BY <1>1, <2>1
  <2>3. line[k] \in S /\ Super[line[k]] = line[k - 1] /\ line[k - 1] \in Classes
    BY <1>1, <1>3, <2>1, <2>2
  <2>4. QED
    BY <1>1, <2>2, <2>3 DEF ClosedUp
<1>4. Nat \subseteq T
  <2> HIDE DEF T
  <2>1. QED
    BY <1>2, <1>3, Counting
<1>5. ASSUME NEW k \in 1 .. n PROVE line[k] \in S
  <2>1. n - k \in Nat /\ n - (n - k) = k
    OBVIOUS
  <2>2. n - k \in T
    BY <1>4, <2>1
  <2>3. QED
    BY <2>1, <2>2
<1>6. QED
  BY <1>5

(***************************************************************************)
(* The classes that are due                                                *)
(***************************************************************************)
LEMMA UnmarkedSound ==
    ASSUME Msg!DispatchAssumption, NEW c \in Classes
    PROVE  \E k \in 0 .. Len(Msg!Lineage[c]) :
              /\ Msg!Unmarked(c) = SubSeq(Msg!Lineage[c], k + 1, Len(Msg!Lineage[c]))
              /\ k > 0 => Msg!Lineage[c][k] \in initialized_classes
<1> DEFINE line == Msg!Lineage[c]
           marked == {i \in 1 .. Len(line) : line[i] \in initialized_classes}
<1>1. line \in Seq(Classes) /\ Len(line) \in Nat
  BY LineageSound DEF InLine
<1>2. CASE marked = {}
  <2>1. Msg!Unmarked(c) = SubSeq(line, 0 + 1, Len(line))
    BY <1>2 DEF Msg!Unmarked
  <2>2. QED
    BY <1>1, <2>1
<1>3. CASE marked # {}
  <2>1. marked \in SUBSET (1 .. Len(line))
    OBVIOUS
  <2> DEFINE top == CHOOSE i \in marked : \A j \in marked : j <= i
  <2>2. top \in marked
    <3> HIDE DEF marked
    <3>1. \E i \in marked : \A j \in marked : j <= i
      BY <1>1, <1>3, <2>1, GreatestOfNats
    <3>2. QED
      BY <3>1
  <2>3. Msg!Unmarked(c) = SubSeq(line, top + 1, Len(line))
    BY <1>3 DEF Msg!Unmarked
  <2>4. top \in 1 .. Len(line) /\ line[top] \in initialized_classes
    BY <2>2
  <2> HIDE DEF top, line, marked
  <2>5. top \in 0 .. Len(line)
    BY <1>1, <2>4
  <2>6. QED
    BY <2>3, <2>4, <2>5 DEF line
<1>4. QED
  BY <1>2, <1>3

LEMMA NextDueSound ==
    ASSUME NEW todo \in Seq(Classes), NEW n, n = Msg!NextDue(todo)
    PROVE  /\ n \in 0 .. Len(todo)
           /\ n > 0 => todo[n] \notin initialized_classes /\ Msg!HasInitialize(todo[n])
           /\ \A i \in 1 .. Len(todo) : i < n \/ n = 0 =>
                 (Msg!HasInitialize(todo[i]) => todo[i] \in initialized_classes)
<1> DEFINE due == {i \in 1 .. Len(todo) : todo[i] \notin initialized_classes
                                          /\ Msg!HasInitialize(todo[i])}
<1>1. Len(todo) \in Nat
  OBVIOUS
<1>2. CASE due = {}
  <2>1. n = 0
    BY <1>2 DEF Msg!NextDue
  <2>2. QED
    BY <1>1, <1>2, <2>1
<1>3. CASE due # {}
  <2>1. n = CHOOSE i \in due : \A j \in due : i <= j
    BY <1>3 DEF Msg!NextDue
  <2>2. due \in SUBSET Nat
    OBVIOUS
  <2>3. n \in due /\ \A j \in due : n <= j
    <3> HIDE DEF due
    <3>1. \E i \in due : \A j \in due : i <= j
      BY <1>3, <2>2, LeastOfNats
    <3>2. QED
      BY <2>1, <3>1
  <2>4. n \in 1 .. Len(todo) /\ todo[n] \notin initialized_classes /\ Msg!HasInitialize(todo[n])
    BY <2>3
  <2>5. ASSUME NEW i \in 1 .. Len(todo), i < n
        PROVE  Msg!HasInitialize(todo[i]) => todo[i] \in initialized_classes
    BY <2>3, <2>4, <2>5
  <2>6. QED
    BY <1>1, <2>4, <2>5
<1>4. QED
  BY <1>2, <1>3

LEMMA MarkedSound ==
    ASSUME NEW todo \in Seq(Classes), NEW n \in 0 .. Len(todo)
    PROVE  Msg!MarkedBefore(todo, n) = initialized_classes \cup {todo[i] : i \in 1 .. n}
<1>1. SubSeq(todo, 1, n) \in Seq(Classes) /\ Len(SubSeq(todo, 1, n)) = n
      /\ \A i \in 1 .. n : SubSeq(todo, 1, n)[i] = todo[i]
  OBVIOUS
<1>2. DOMAIN SubSeq(todo, 1, n) = 1 .. n
  BY <1>1
<1>3. QED
  BY <1>1, <1>2 DEF Msg!MarkedBefore, Msg!ToSet

(***************************************************************************)
(* One thread's messages                                                   *)
(***************************************************************************)
MsgFrames == [class : Classes, sel : {"message", "initialize"}, todo : Seq(Classes)]

\* A +initialize is above the message it was found due for.
Stacked(s) ==
    /\ s \in Seq(MsgFrames)
    /\ \A i \in 1 .. Len(s) : s[i].sel = "initialize" =>
          s[i].todo = <<>> /\ i > 1 /\ s[i - 1].sel = "message"

MsgInv ==
    /\ initialized_classes \subseteq Classes
    /\ DISPATCH_DEPTH \in 0 .. MAX_DEPTH
    /\ DOMAIN msg_stack = MsgThreads /\ \A t \in MsgThreads : Stacked(msg_stack[t])
    /\ msg_calls \in [Classes -> Nat]
    /\ \A c \in Classes : msg_calls[c] <= 1 /\ (msg_calls[c] = 1 => c \in initialized_classes)

Dispatches == UNION {{t} \X DOMAIN msg_stack[t] : t \in MsgThreads}

DispatchesCounted == IsFiniteSet(Dispatches) /\ Cardinality(Dispatches) = DISPATCH_DEPTH

MsgStep(t, s) ==
    /\ msg_stack' = [msg_stack EXCEPT ![t] = s]
    /\ Len(s) - Len(msg_stack[t]) = DISPATCH_DEPTH' - DISPATCH_DEPTH

\* The new stack of the thread when the method of its message runs, and when a
\* +initialize does before.
LEMMA StackedMore ==
    ASSUME NEW s, Stacked(s), NEW f \in MsgFrames,
           f.sel = "initialize" =>
              f.todo = <<>> /\ Len(s) > 0 /\ s[Len(s)].sel = "message"
    PROVE  Stacked(Append(s, f)) /\ Len(Append(s, f)) = Len(s) + 1 /\ Len(s) \in Nat
<1>1. s \in Seq(MsgFrames) /\ Len(s) \in Nat
      /\ \A i \in 1 .. Len(s) : s[i].sel = "initialize" =>
            s[i].todo = <<>> /\ i > 1 /\ s[i - 1].sel = "message"
  BY DEF Stacked
<1>2. PICK r : r = Append(s, f)
  OBVIOUS
<1>3. r \in Seq(MsgFrames) /\ Len(r) = Len(s) + 1 /\ r[Len(s) + 1] = f
      /\ \A i \in 1 .. Len(s) : r[i] = s[i]
  BY <1>1, <1>2
<1>4. ASSUME NEW i \in 1 .. Len(r), r[i].sel = "initialize"
      PROVE  r[i].todo = <<>> /\ i > 1 /\ r[i - 1].sel = "message"
  <2>1. CASE i = Len(s) + 1
    BY <1>1, <1>3, <1>4, <2>1
  <2>2. CASE i # Len(s) + 1
    <3>1. i \in 1 .. Len(s)
      BY <1>1, <1>3, <2>2
    <3>2. s[i].todo = <<>> /\ i > 1 /\ s[i - 1].sel = "message"
      BY <1>1, <1>3, <1>4, <3>1
    <3>3. i - 1 \in 1 .. Len(s)
      BY <1>1, <3>1, <3>2
    <3>4. QED
      BY <1>3, <3>1, <3>2, <3>3
  <2>3. QED
    BY <2>1, <2>2
<1>5. QED
  BY <1>1, <1>2, <1>3, <1>4 DEF Stacked

LEMMA StackedLess ==
    ASSUME NEW s, Stacked(s), s # <<>>
    PROVE  /\ Len(s) \in Nat /\ Len(s) > 0 /\ Len(Msg!Front(s)) = Len(s) - 1
           /\ Stacked(Msg!Front(s)) /\ \A i \in 1 .. Len(s) - 1 : Msg!Front(s)[i] = s[i]
<1>1. s \in Seq(MsgFrames) /\ Len(s) \in Nat /\ Len(s) > 0
      /\ \A i \in 1 .. Len(s) : s[i].sel = "initialize" =>
            s[i].todo = <<>> /\ i > 1 /\ s[i - 1].sel = "message"
  BY DEF Stacked
<1>2. PICK r : r = SubSeq(s, 1, Len(s) - 1)
  OBVIOUS
<1>3. r \in Seq(MsgFrames) /\ Len(r) = Len(s) - 1
      /\ \A i \in 1 .. Len(s) - 1 : r[i] = s[i]
  <2>1. ASSUME NEW n \in Nat, n <= Len(s)
        PROVE  SubSeq(s, 1, n) \in Seq(MsgFrames) /\ Len(SubSeq(s, 1, n)) = n
    BY <1>1, <2>1
  <2>2. ASSUME NEW n \in Nat, n <= Len(s), NEW i \in 1 .. n PROVE SubSeq(s, 1, n)[i] = s[i]
    BY <1>1, <2>2
  <2>3. Len(s) - 1 \in Nat /\ Len(s) - 1 <= Len(s)
    BY <1>1
  <2>4. QED
    BY <1>2, <2>1, <2>2, <2>3
<1>4. ASSUME NEW i \in 1 .. Len(r), r[i].sel = "initialize"
      PROVE  r[i].todo = <<>> /\ i > 1 /\ r[i - 1].sel = "message"
  <2>1. i \in 1 .. Len(s) /\ i \in 1 .. Len(s) - 1
    BY <1>1, <1>3
  <2>2. s[i].todo = <<>> /\ i > 1 /\ s[i - 1].sel = "message"
    BY <1>1, <1>3, <1>4, <2>1
  <2>3. i - 1 \in 1 .. Len(s) - 1
    BY <1>1, <2>1, <2>2
  <2>4. QED
    BY <1>3, <2>1, <2>2, <2>3
<1>5. QED
  BY <1>1, <1>2, <1>3, <1>4 DEF Stacked, Msg!Front

\* What ensure_class_initialized leaves on a stack, and marked.
EnsureResult(t, rest, c, todo, depth, n) ==
    \/ /\ initialized_classes' = initialized_classes \cup {todo[i] : i \in 1 .. Len(todo)}
       /\ msg_stack' = [msg_stack EXCEPT ![t] = Append(rest, Msg!Message(c, <<>>))]
       /\ DISPATCH_DEPTH' = depth /\ UNCHANGED msg_calls
       /\ n = 0 \/ depth + 1 > MAX_DEPTH
    \/ /\ initialized_classes' = initialized_classes \cup {todo[i] : i \in 1 .. n}
       /\ msg_stack' = [msg_stack EXCEPT ![t] =
                           Append(Append(rest, Msg!Message(c, SubSeq(todo, n + 1, Len(todo)))),
                                  Msg!Initialize(todo[n]))]
       /\ DISPATCH_DEPTH' = depth + 1 /\ depth + 1 <= MAX_DEPTH
       /\ n \in 1 .. Len(todo)
       /\ msg_calls' = [msg_calls EXCEPT ![todo[n]] = @ + 1]

LEMMA EnsureEffect ==
    ASSUME Msg!DispatchAssumption, NEW t \in MsgThreads, NEW rest \in Seq(MsgFrames),
           NEW c \in Classes, NEW todo \in Seq(Classes), NEW depth \in Nat,
           Msg!ensure_class_initialized(t, rest, c, todo, depth),
           NEW n, n = Msg!NextDue(todo)
    PROVE  EnsureResult(t, rest, c, todo, depth, n)
<1>1. n \in 0 .. Len(todo) /\ Len(todo) \in Nat /\ MAX_DEPTH \in Nat
  BY NextDueSound DEF Msg!DispatchAssumption
<1>2. /\ Msg!MarkedBefore(todo, Len(todo)) =
             initialized_classes \cup {todo[i] : i \in 1 .. Len(todo)}
      /\ Msg!MarkedBefore(todo, n) = initialized_classes \cup {todo[i] : i \in 1 .. n}
  <2>1. Len(todo) \in 0 .. Len(todo)
    BY <1>1
  <2>2. QED
    BY <1>1, <2>1, MarkedSound
<1>3. CASE n = 0 \/ depth + 1 > MAX_DEPTH
  BY <1>2, <1>3 DEF Msg!ensure_class_initialized, EnsureResult
<1>4. CASE ~ (n = 0 \/ depth + 1 > MAX_DEPTH)
  <2> DEFINE m == Msg!Message(c, SubSeq(todo, n + 1, Len(todo)))
             f == Msg!Initialize(todo[n])
  <2>1. n \in 1 .. Len(todo) /\ depth + 1 <= MAX_DEPTH
    BY <1>1, <1>4
  <2>2. /\ initialized_classes' = initialized_classes \cup {todo[i] : i \in 1 .. n}
        /\ msg_stack' = [msg_stack EXCEPT ![t] = rest \o <<m, f>>]
        /\ DISPATCH_DEPTH' = depth + 1
        /\ msg_calls' = [msg_calls EXCEPT ![todo[n]] = @ + 1]
    BY <1>2, <1>4 DEF Msg!ensure_class_initialized
  <2>3. m \in MsgFrames /\ f \in MsgFrames
    <3>1. todo[n] \in Classes /\ SubSeq(todo, n + 1, Len(todo)) \in Seq(Classes)
          /\ <<>> \in Seq(Classes)
      BY <2>1
    <3>2. QED
      BY <3>1 DEF Msg!Message, Msg!Initialize, MsgFrames
  <2> HIDE DEF m, f
  <2>4. rest \o <<m, f>> = Append(Append(rest, m), f)
    BY <2>3
  <2>5. QED
    BY <2>1, <2>2, <2>4 DEF EnsureResult, m, f
<1>5. QED
  BY <1>3, <1>4

LEMMA EnsureKeeps ==
    ASSUME Msg!DispatchAssumption, MsgInv, NEW t \in MsgThreads, NEW rest, Stacked(rest),
           NEW c \in Classes, NEW todo \in Seq(Classes), NEW depth \in 0 .. MAX_DEPTH,
           Len(rest) + 1 - Len(msg_stack[t]) = depth - DISPATCH_DEPTH,
           Msg!ensure_class_initialized(t, rest, c, todo, depth)
    PROVE  MsgInv' /\ \E s : MsgStep(t, s)
<1> DEFINE n == Msg!NextDue(todo)
<1>1. /\ rest \in Seq(MsgFrames) /\ Len(rest) \in Nat /\ Len(todo) \in Nat /\ depth \in Nat
      /\ MAX_DEPTH \in Nat /\ Len(msg_stack[t]) \in Nat /\ DISPATCH_DEPTH \in Nat
  BY DEF Stacked, Msg!DispatchAssumption, MsgInv
<1>2. EnsureResult(t, rest, c, todo, depth, n)
  BY <1>1, EnsureEffect
<1>3. n > 0 => todo[n] \notin initialized_classes
  BY NextDueSound
<1>4. \A i \in 1 .. Len(todo) : todo[i] \in Classes
  OBVIOUS
<1> HIDE DEF n
<1>5. CASE /\ initialized_classes' = initialized_classes \cup {todo[i] : i \in 1 .. Len(todo)}
           /\ msg_stack' = [msg_stack EXCEPT ![t] = Append(rest, Msg!Message(c, <<>>))]
           /\ DISPATCH_DEPTH' = depth /\ UNCHANGED msg_calls
  <2> DEFINE f == Msg!Message(c, <<>>)
  <2>1. f \in MsgFrames /\ f.sel = "message"
    BY DEF Msg!Message, MsgFrames
  <2>2. Stacked(Append(rest, f)) /\ Len(Append(rest, f)) = Len(rest) + 1
    <3> HIDE DEF f
    <3>1. QED
      BY <2>1, StackedMore
  <2>3. MsgStep(t, Append(rest, f))
    BY <1>1, <1>5, <2>2 DEF MsgStep
  <2>4. DOMAIN msg_stack' = MsgThreads /\ \A u \in MsgThreads : Stacked(msg_stack'[u])
    <3> HIDE DEF f
    <3>1. \A u \in MsgThreads : msg_stack'[u] = IF u = t THEN Append(rest, f) ELSE msg_stack[u]
      BY <1>5 DEF MsgInv, f
    <3>2. QED
      BY <1>5, <2>2, <3>1 DEF MsgInv
  <2>5. (\A u \in MsgThreads : Stacked(msg_stack[u]))'
    BY <2>4 DEF Stacked
  <2>6. /\ initialized_classes' \subseteq Classes /\ initialized_classes \subseteq initialized_classes'
        /\ DISPATCH_DEPTH' \in 0 .. MAX_DEPTH
    BY <1>4, <1>5 DEF MsgInv
  <2>7. MsgInv'
    BY <1>5, <2>4, <2>5, <2>6 DEF MsgInv
  <2>8. QED
    BY <2>3, <2>7
<1>6. CASE /\ initialized_classes' = initialized_classes \cup {todo[i] : i \in 1 .. n}
           /\ msg_stack' = [msg_stack EXCEPT ![t] =
                               Append(Append(rest, Msg!Message(c, SubSeq(todo, n + 1, Len(todo)))),
                                      Msg!Initialize(todo[n]))]
           /\ DISPATCH_DEPTH' = depth + 1 /\ depth + 1 <= MAX_DEPTH
           /\ n \in 1 .. Len(todo)
           /\ msg_calls' = [msg_calls EXCEPT ![todo[n]] = @ + 1]
  <2> DEFINE m == Msg!Message(c, SubSeq(todo, n + 1, Len(todo)))
             f == Msg!Initialize(todo[n])
             s == Append(Append(rest, m), f)
  <2>1. m \in MsgFrames /\ m.sel = "message" /\ f \in MsgFrames /\ f.todo = <<>>
    <3>1. todo[n] \in Classes /\ SubSeq(todo, n + 1, Len(todo)) \in Seq(Classes)
          /\ <<>> \in Seq(Classes)
      BY <1>4, <1>6
    <3>2. QED
      BY <3>1 DEF Msg!Message, Msg!Initialize, MsgFrames
  <2>2. Stacked(s) /\ Len(s) = Len(rest) + 2
    <3> HIDE DEF m, f
    <3>1. PICK r : r = Append(rest, m)
      OBVIOUS
    <3>2. Stacked(r) /\ Len(r) = Len(rest) + 1 /\ r[Len(r)] = m
      <4>1. Stacked(r) /\ Len(r) = Len(rest) + 1
        BY <2>1, <3>1, StackedMore
      <4>2. r[Len(rest) + 1] = m
        BY <1>1, <2>1, <3>1
      <4>3. QED
        BY <4>1, <4>2
    <3>3. Stacked(Append(r, f)) /\ Len(Append(r, f)) = Len(r) + 1
      BY <1>1, <2>1, <3>2, StackedMore
    <3>4. QED
      BY <1>1, <3>1, <3>2, <3>3
  <2>3. MsgStep(t, s)
    <3>1. msg_stack' = [msg_stack EXCEPT ![t] = s] /\ DISPATCH_DEPTH' = depth + 1
      BY <1>6
    <3> HIDE DEF s
    <3>2. Len(s) - Len(msg_stack[t]) = DISPATCH_DEPTH' - DISPATCH_DEPTH
      <4>0. Len(s) \in Nat
        BY <1>1, <2>2
      <4>1. PICK k \in Nat, r \in Nat, e \in Nat, l \in Nat :
                k = Len(msg_stack[t]) /\ r = Len(rest) /\ e = DISPATCH_DEPTH /\ l = Len(s)
        BY <1>1, <4>0, Zenon
      <4>2. r + 1 - k = depth - e /\ l = r + 2 /\ depth \in Nat
        BY <1>1, <2>2, <4>1
      <4>3. l - k = (depth + 1) - e
        BY <4>2
      <4>4. QED
        BY <3>1, <4>1, <4>3
    <3>3. QED
      BY <3>1, <3>2 DEF MsgStep
  <2>4. DOMAIN msg_stack' = MsgThreads /\ \A u \in MsgThreads : Stacked(msg_stack'[u])
    <3>1. msg_stack' = [msg_stack EXCEPT ![t] = s]
      BY <1>6
    <3> HIDE DEF s
    <3>2. \A u \in MsgThreads : msg_stack'[u] = IF u = t THEN s ELSE msg_stack[u]
      BY <3>1 DEF MsgInv
    <3>3. QED
      BY <3>1, <2>2, <3>2 DEF MsgInv
  <2>5. (\A u \in MsgThreads : Stacked(msg_stack[u]))'
    BY <2>4 DEF Stacked
  <2>6. /\ initialized_classes' \subseteq Classes /\ initialized_classes \subseteq initialized_classes'
        /\ DISPATCH_DEPTH' \in 0 .. MAX_DEPTH /\ todo[n] \in initialized_classes'
        /\ todo[n] \in Classes /\ todo[n] \notin initialized_classes
    BY <1>1, <1>3, <1>4, <1>6 DEF MsgInv
  <2>7. msg_calls[todo[n]] = 0
    BY <2>6 DEF MsgInv
  <2>8. /\ msg_calls' \in [Classes -> Nat]
        /\ \A d \in Classes : msg_calls'[d] = IF d = todo[n] THEN 1 ELSE msg_calls[d]
    BY <1>6, <2>6, <2>7 DEF MsgInv
  <2>9. \A d \in Classes : msg_calls'[d] <= 1 /\ (msg_calls'[d] = 1 => d \in initialized_classes')
    BY <2>6, <2>8 DEF MsgInv
  <2>10. MsgInv'
    BY <2>4, <2>5, <2>6, <2>8, <2>9 DEF MsgInv
  <2>11. QED
    BY <2>3, <2>10
<1>7. QED
  BY <1>2, <1>5, <1>6 DEF EnsureResult

\* The dispatches of one thread.
LEMMA DispatchesStep ==
    ASSUME MsgInv, MsgInv', DispatchesCounted, NEW t \in MsgThreads, NEW s, MsgStep(t, s)
    PROVE  DispatchesCounted'
<1> DEFINE mine(n) == {t} \X (1 .. n)
           others == UNION {{u} \X DOMAIN msg_stack[u] : u \in MsgThreads \ {t}}
<1>1. /\ msg_stack'[t] = s /\ \A u \in MsgThreads \ {t} : msg_stack'[u] = msg_stack[u]
      /\ Len(s) - Len(msg_stack[t]) = DISPATCH_DEPTH' - DISPATCH_DEPTH
  BY DEF MsgStep, MsgInv
<1>2. /\ Len(s) \in Nat /\ DOMAIN s = 1 .. Len(s)
      /\ Len(msg_stack[t]) \in Nat /\ DOMAIN msg_stack[t] = 1 .. Len(msg_stack[t])
      /\ DISPATCH_DEPTH \in Nat /\ DISPATCH_DEPTH' \in Nat
  <2>1. Stacked(msg_stack[t]) /\ Stacked(s)
    BY <1>1 DEF MsgInv, Stacked
  <2>2. QED
    BY <2>1 DEF MsgInv, Stacked
<1>3. Dispatches = others \cup mine(Len(msg_stack[t])) /\ Dispatches' = others \cup mine(Len(s))
  <2>1. Dispatches = others \cup mine(Len(msg_stack[t]))
    BY <1>2 DEF Dispatches
  <2>2. Dispatches' = UNION {{u} \X DOMAIN msg_stack'[u] : u \in MsgThreads}
    BY DEF Dispatches
  <2>3. \A u \in MsgThreads : DOMAIN msg_stack'[u] =
            IF u = t THEN 1 .. Len(s) ELSE DOMAIN msg_stack[u]
    BY <1>1, <1>2
  <2>4. QED
    BY <2>1, <2>2, <2>3
<1>4. \A n : others \cap mine(n) = {}
  OBVIOUS
<1>5. ASSUME NEW n \in Nat PROVE IsFiniteSet(mine(n)) /\ Cardinality(mine(n)) = n
  <2>1. IsFiniteSet(1 .. n) /\ Cardinality(1 .. n) = n
    BY FS_Interval
  <2>2. IsFiniteSet({t}) /\ Cardinality({t}) = 1
    BY FS_Singleton
  <2>3. QED
    BY <2>1, <2>2, FS_Product
<1>6. IsFiniteSet(others) /\ Cardinality(others) \in Nat
  <2>1. others \subseteq Dispatches /\ IsFiniteSet(Dispatches)
    BY <1>3 DEF DispatchesCounted
  <2> HIDE DEF others
  <2>2. QED
    BY <2>1, FS_Subset, FS_CardinalityType
<1> HIDE DEF others, mine
<1>7. ASSUME NEW n \in Nat
      PROVE  /\ IsFiniteSet(others \cup mine(n))
             /\ Cardinality(others \cup mine(n)) = Cardinality(others) + n
  <2>1. IsFiniteSet(mine(n)) /\ Cardinality(mine(n)) = n
    BY <1>5
  <2>2. Cardinality(others \cap mine(n)) = 0
    BY <1>4, FS_EmptySet
  <2>3. QED
    BY <1>6, <2>1, <2>2, FS_Union
<1>8. PICK k \in Nat, l \in Nat : k = Len(msg_stack[t]) /\ l = Len(s)
  BY <1>2
<1>9. IsFiniteSet(Dispatches') /\ Cardinality(Dispatches') = Cardinality(others) + l
      /\ Cardinality(Dispatches) = Cardinality(others) + k
  BY <1>3, <1>7, <1>8
<1>10. DISPATCH_DEPTH = Cardinality(others) + k /\ l - k = DISPATCH_DEPTH' - DISPATCH_DEPTH
  BY <1>1, <1>8, <1>9 DEF DispatchesCounted
<1>11. DISPATCH_DEPTH' = Cardinality(others) + l
  BY <1>2, <1>6, <1>10
<1>12. QED
  BY <1>9, <1>11 DEF DispatchesCounted

LEMMA UnmarkedTypes ==
    ASSUME Msg!DispatchAssumption, NEW c \in Classes
    PROVE  Msg!Unmarked(c) \in Seq(Classes)
<1>1. PICK k \in 0 .. Len(Msg!Lineage[c]) :
          Msg!Unmarked(c) = SubSeq(Msg!Lineage[c], k + 1, Len(Msg!Lineage[c]))
  BY UnmarkedSound
<1>2. Msg!Lineage[c] \in Seq(Classes)
  BY LineageSound DEF InLine
<1>3. QED
  BY <1>1, <1>2

\* The depth is at least what one thread nests.
LEMMA DepthAtLeast ==
    ASSUME MsgInv, DispatchesCounted, NEW t \in MsgThreads
    PROVE  Len(msg_stack[t]) \in Nat /\ Len(msg_stack[t]) <= DISPATCH_DEPTH
<1>1. Len(msg_stack[t]) \in Nat /\ DOMAIN msg_stack[t] = 1 .. Len(msg_stack[t])
  BY DEF MsgInv, Stacked
<1>2. {t} \X DOMAIN msg_stack[t] \subseteq Dispatches
  BY DEF Dispatches
<1>3. Cardinality({t} \X DOMAIN msg_stack[t]) <= DISPATCH_DEPTH
  BY <1>2, FS_Subset DEF DispatchesCounted
<1>4. ASSUME NEW n \in Nat PROVE Cardinality({t} \X (1 .. n)) = n
  <2>1. IsFiniteSet(1 .. n) /\ Cardinality(1 .. n) = n
    BY FS_Interval
  <2>2. IsFiniteSet({t}) /\ Cardinality({t}) = 1
    BY FS_Singleton
  <2>3. Cardinality({t} \X (1 .. n)) = Cardinality({t}) * Cardinality(1 .. n)
    BY <2>1, <2>2, FS_Product
  <2>4. 1 * n = n
    OBVIOUS
  <2>5. QED
    BY <2>1, <2>2, <2>3, <2>4
<1>5. Cardinality({t} \X (1 .. Len(msg_stack[t]))) = Len(msg_stack[t])
  BY <1>1, <1>4
<1>6. QED
  BY <1>1, <1>3, <1>5

LEMMA SendKeeps ==
    ASSUME Msg!DispatchAssumption, MsgInv, NEW t \in MsgThreads, NEW c \in Classes,
           Msg!objc_msgSend(t, c)
    PROVE  (MsgInv' /\ \E s : MsgStep(t, s)) \/ UNCHANGED Msg!vars
<1>1. CASE DISPATCH_DEPTH + 1 > MAX_DEPTH
  BY <1>1 DEF Msg!objc_msgSend, Msg!Refuse
<1>2. CASE ~ (DISPATCH_DEPTH + 1 > MAX_DEPTH)
  <2>1. Msg!ensure_class_initialized(t, msg_stack[t], c, Msg!Unmarked(c), DISPATCH_DEPTH + 1)
    BY <1>2 DEF Msg!objc_msgSend
  <2>2. DISPATCH_DEPTH + 1 \in 0 .. MAX_DEPTH /\ DISPATCH_DEPTH \in Nat
    BY <1>2 DEF MsgInv, Msg!DispatchAssumption
  <2>3. Stacked(msg_stack[t]) /\ Len(msg_stack[t]) \in Nat
    BY DEF MsgInv, Stacked
  <2>4. Len(msg_stack[t]) + 1 - Len(msg_stack[t]) = (DISPATCH_DEPTH + 1) - DISPATCH_DEPTH
    BY <2>2, <2>3
  <2>5. Msg!Unmarked(c) \in Seq(Classes)
    BY UnmarkedTypes
  <2>6. QED
    BY <2>1, <2>2, <2>3, <2>4, <2>5, EnsureKeeps
<1>3. QED
  BY <1>1, <1>2

LEMMA SuperKeeps ==
    ASSUME Msg!DispatchAssumption, MsgInv, NEW t \in MsgThreads, Msg!objc_msgSendSuper2(t)
    PROVE  (MsgInv' /\ \E s : MsgStep(t, s)) \/ UNCHANGED Msg!vars
<1>1. CASE DISPATCH_DEPTH + 1 > MAX_DEPTH
  BY <1>1 DEF Msg!objc_msgSendSuper2, Msg!Refuse
<1>2. CASE ~ (DISPATCH_DEPTH + 1 > MAX_DEPTH)
  <2> DEFINE old == msg_stack[t]
             f == Msg!Message(Super[Msg!Last(old).class], <<>>)
  <2>1. /\ Stacked(old) /\ old # <<>> /\ Super[Msg!Last(old).class] # NoClass
        /\ msg_stack' = [msg_stack EXCEPT ![t] = Append(old, f)]
        /\ DISPATCH_DEPTH' = DISPATCH_DEPTH + 1 /\ UNCHANGED <<initialized_classes, msg_calls>>
    BY <1>2 DEF Msg!objc_msgSendSuper2, MsgInv
  <2>2. f \in MsgFrames /\ f.sel = "message"
    <3>1. old \in Seq(MsgFrames)
      BY <2>1 DEF Stacked
    <3>2. old[Len(old)] \in MsgFrames
      BY <2>1, <3>1
    <3>3. Super[Msg!Last(old).class] \in Classes
      BY <2>1, <3>2 DEF Msg!Last, MsgFrames, Msg!DispatchAssumption
    <3>4. QED
      BY <3>3 DEF Msg!Message, MsgFrames
  <2> HIDE DEF f, old
  <2>3. Stacked(Append(old, f)) /\ Len(Append(old, f)) = Len(old) + 1 /\ Len(old) \in Nat
    BY <2>1, <2>2, StackedMore
  <2>4. DISPATCH_DEPTH \in Nat /\ DISPATCH_DEPTH' \in 0 .. MAX_DEPTH
    BY <1>2, <2>1 DEF MsgInv, Msg!DispatchAssumption
  <2>5. MsgStep(t, Append(old, f))
    BY <2>1, <2>3, <2>4 DEF MsgStep, old
  <2>6. DOMAIN msg_stack' = MsgThreads /\ \A u \in MsgThreads : Stacked(msg_stack'[u])
    BY <2>1, <2>3 DEF MsgInv
  <2>7. (\A u \in MsgThreads : Stacked(msg_stack[u]))'
    BY <2>6 DEF Stacked
  <2>8. QED
    BY <2>1, <2>4, <2>5, <2>6, <2>7 DEF MsgInv
<1>3. QED
  BY <1>1, <1>2

LEMMA ReturnKeeps ==
    ASSUME Msg!DispatchAssumption, MsgInv, DispatchesCounted, NEW t \in MsgThreads,
           Msg!MethodReturns(t)
    PROVE  MsgInv' /\ \E s : MsgStep(t, s)
<1> DEFINE old == msg_stack[t]
           front == Msg!Front(old)
<1>1. Stacked(old) /\ old # <<>> /\ Len(old) \in Nat /\ Len(old) <= DISPATCH_DEPTH
      /\ DISPATCH_DEPTH \in Nat /\ DISPATCH_DEPTH \in 0 .. MAX_DEPTH /\ MAX_DEPTH \in Nat
  BY DepthAtLeast DEF MsgInv, Msg!MethodReturns, Msg!DispatchAssumption
<1>2. /\ Len(old) > 0 /\ Len(front) = Len(old) - 1 /\ Stacked(front)
      /\ \A i \in 1 .. Len(old) - 1 : front[i] = old[i]
  <2> HIDE DEF old
  <2>1. QED
    BY <1>1, StackedLess
<1>3. old \in Seq(MsgFrames) /\ old[Len(old)] \in MsgFrames
      /\ (old[Len(old)].sel = "initialize" =>
             Len(old) > 1 /\ old[Len(old) - 1].sel = "message")
  <2>1. old \in Seq(MsgFrames) /\ Len(old) \in 1 .. Len(old)
    BY <1>1, <1>2 DEF Stacked
  <2>2. QED
    BY <1>1, <2>1 DEF Stacked
<1>4. DISPATCH_DEPTH - 1 \in 0 .. MAX_DEPTH
  BY <1>1, <1>2
<1>5. CASE Msg!Last(old).sel = "message"
  <2>1. msg_stack' = [msg_stack EXCEPT ![t] = front] /\ DISPATCH_DEPTH' = DISPATCH_DEPTH - 1
        /\ UNCHANGED <<initialized_classes, msg_calls>>
    BY <1>5 DEF Msg!MethodReturns
  <2> HIDE DEF front
  <2>2. MsgStep(t, front)
    BY <1>1, <1>2, <2>1 DEF MsgStep
  <2>3. DOMAIN msg_stack' = MsgThreads /\ \A u \in MsgThreads : Stacked(msg_stack'[u])
    BY <1>2, <2>1 DEF MsgInv
  <2>4. (\A u \in MsgThreads : Stacked(msg_stack[u]))'
    BY <2>3 DEF Stacked
  <2>5. QED
    BY <1>4, <2>1, <2>2, <2>3, <2>4 DEF MsgInv
<1>6. CASE Msg!Last(old).sel # "message"
  <2> DEFINE m == Msg!Last(front)
             rest == Msg!Front(front)
  <2>1. Msg!ensure_class_initialized(t, rest, m.class, m.todo, DISPATCH_DEPTH - 1)
    BY <1>6 DEF Msg!MethodReturns
  <2>2. old[Len(old)].sel = "initialize"
    BY <1>3, <1>6 DEF Msg!Last, MsgFrames
  <2>3. Len(front) > 0 /\ front # <<>>
    <3> HIDE DEF front
    <3>1. QED
      BY <1>1, <1>2, <1>3, <2>2
  <2>4. Stacked(rest) /\ Len(rest) = Len(front) - 1
    <3> HIDE DEF front
    <3>1. QED
      BY <1>2, <2>3, StackedLess
  <2>5. m.class \in Classes /\ m.todo \in Seq(Classes)
    <3> HIDE DEF front
    <3>1. front \in Seq(MsgFrames)
      BY <1>2 DEF Stacked
    <3>2. front[Len(front)] \in MsgFrames
      BY <2>3, <3>1
    <3>3. QED
      BY <3>2 DEF Msg!Last, MsgFrames
  <2> HIDE DEF m, rest, front
  <2>6. Len(rest) + 1 - Len(msg_stack[t]) = (DISPATCH_DEPTH - 1) - DISPATCH_DEPTH
    <3>1. Len(rest) = Len(old) - 1 - 1
      BY <1>2, <2>4
    <3>2. QED
      BY <1>1, <3>1
  <2>7. QED
    BY <1>4, <2>1, <2>4, <2>5, <2>6, EnsureKeeps
<1>7. QED
  BY <1>5, <1>6

LEMMA MsgInitial == Msg!DispatchAssumption /\ Msg!Init => MsgInv /\ DispatchesCounted
<1> SUFFICES ASSUME Msg!DispatchAssumption, Msg!Init PROVE MsgInv /\ DispatchesCounted
  OBVIOUS
<1>1. MsgInv
  BY DEF Msg!Init, Msg!DispatchAssumption, MsgInv, Stacked
<1>2. Dispatches = {}
  BY DEF Msg!Init, Dispatches
<1>3. QED
  BY <1>1, <1>2, FS_EmptySet DEF DispatchesCounted, Msg!Init

LEMMA MsgNext ==
    ASSUME Msg!DispatchAssumption, MsgInv, DispatchesCounted, [Msg!Next]_(Msg!vars)
    PROVE  MsgInv' /\ DispatchesCounted'
<1>1. CASE UNCHANGED Msg!vars
  BY <1>1 DEF Msg!vars, MsgInv, Stacked, DispatchesCounted, Dispatches
<1>2. CASE \E t \in MsgThreads : MsgInv' /\ \E s : MsgStep(t, s)
  BY <1>2, DispatchesStep
<1>3. CASE Msg!Next
  <2>1. PICK t \in MsgThreads : \/ \E c \in Classes : Msg!objc_msgSend(t, c)
                                \/ Msg!objc_msgSendSuper2(t)
                                \/ Msg!MethodReturns(t)
    BY <1>3 DEF Msg!Next
  <2>2. (MsgInv' /\ \E s : MsgStep(t, s)) \/ UNCHANGED Msg!vars
    BY <2>1, SendKeeps, SuperKeeps, ReturnKeeps
  <2>3. QED
    BY <1>1, <1>2, <2>2
<1>4. QED
  BY <1>1, <1>3

\* The depth is the number of dispatches in progress, and +initialize is run at most
\* once for a class ("exactly once per class"), whatever messages it sends itself and
\* however many threads come to the class and its subclasses at once.
THEOREM InitializeOnce ==
    ASSUME Msg!DispatchAssumption
    PROVE  Msg!Spec => [](Msg!TypeOK /\ Msg!DepthCounted /\ Msg!OncePerClass)
<1>1. Msg!Init => MsgInv /\ DispatchesCounted
  BY MsgInitial
<1>2. MsgInv /\ DispatchesCounted /\ [Msg!Next]_(Msg!vars) => MsgInv' /\ DispatchesCounted'
  BY MsgNext
<1>3. MsgInv /\ DispatchesCounted => Msg!DepthCounted /\ Msg!OncePerClass
  BY DEF MsgInv, DispatchesCounted, Dispatches, Msg!DepthCounted, Msg!OncePerClass,
     Msg!Cardinality, Cardinality
<1>4. MsgInv => Msg!TypeOK
  BY DEF MsgInv, Stacked, MsgFrames, Msg!TypeOK
<1>5. QED
  BY <1>1, <1>2, <1>3, <1>4, PTL DEF Msg!Spec

(***************************************************************************)
(* Superclasses first                                                      *)
(***************************************************************************)
\* Each class still to see to has a superclass that is marked or comes before it.
Chain(todo, marked) == \A k \in 1 .. Len(todo) :
    \/ Super[todo[k]] = NoClass \/ Super[todo[k]] \in marked
    \/ k > 1 /\ todo[k - 1] = Super[todo[k]]

\* A message that has classes to see to sees to its own last.
FrameOrdered(f, marked) ==
    /\ f.todo = <<>> => f.class \in marked
    /\ f.todo # <<>> => f.todo[Len(f.todo)] = f.class
    /\ Chain(f.todo, marked)

\* Only a message below a +initialize has any.
Ordered(s, marked) == \A i \in 1 .. Len(s) :
    /\ FrameOrdered(s[i], marked)
    /\ s[i].todo # <<>> => i < Len(s) /\ s[i + 1].sel = "initialize"

OrderInv ==
    /\ ClosedUp(initialized_classes)
    /\ \A c \in initialized_classes : Msg!HasInitialize(c) => msg_calls[c] > 0
    /\ \A t \in MsgThreads : Ordered(msg_stack[t], initialized_classes)

LEMMA OrderedKept ==
    ASSUME NEW S, NEW T, S \subseteq T, NEW s, Ordered(s, S)
    PROVE  Ordered(s, T)
  BY DEF Ordered, FrameOrdered, Chain

LEMMA OrderedMore ==
    ASSUME NEW S, NEW s \in Seq(MsgFrames), Ordered(s, S),
           NEW f \in MsgFrames, FrameOrdered(f, S), f.todo = <<>>
    PROVE  Ordered(Append(s, f), S)
<1>1. PICK r : r = Append(s, f)
  OBVIOUS
<1>2. Len(s) \in Nat /\ Len(r) = Len(s) + 1 /\ r[Len(s) + 1] = f
      /\ \A i \in 1 .. Len(s) : r[i] = s[i]
  BY <1>1
<1>3. ASSUME NEW i \in 1 .. Len(r)
      PROVE  /\ FrameOrdered(r[i], S)
             /\ r[i].todo # <<>> => i < Len(r) /\ r[i + 1].sel = "initialize"
  <2>1. CASE i = Len(s) + 1
    BY <1>2, <2>1
  <2>2. CASE i # Len(s) + 1
    <3>1. i \in 1 .. Len(s) /\ i < Len(r) /\ r[i] = s[i]
      BY <1>2, <2>2
    <3>2. FrameOrdered(s[i], S) /\ (s[i].todo # <<>> => i < Len(s) /\ s[i + 1].sel = "initialize")
      BY <3>1 DEF Ordered
    <3>3. i < Len(s) => r[i + 1] = s[i + 1]
      BY <1>2, <3>1
    <3>4. QED
      BY <3>1, <3>2, <3>3
  <2>3. QED
    BY <2>1, <2>2
<1>4. QED
  BY <1>1, <1>3 DEF Ordered

LEMMA OrderedTwo ==
    ASSUME NEW S, NEW s \in Seq(MsgFrames), Ordered(s, S),
           NEW m \in MsgFrames, FrameOrdered(m, S),
           NEW f \in MsgFrames, FrameOrdered(f, S), f.todo = <<>>, f.sel = "initialize"
    PROVE  Ordered(Append(Append(s, m), f), S)
<1>1. PICK r : r = Append(Append(s, m), f)
  OBVIOUS
<1>2. Len(s) \in Nat /\ Len(r) = Len(s) + 2 /\ r[Len(s) + 1] = m /\ r[Len(s) + 2] = f
      /\ \A i \in 1 .. Len(s) : r[i] = s[i]
  BY <1>1
<1>3. ASSUME NEW i \in 1 .. Len(r)
      PROVE  /\ FrameOrdered(r[i], S)
             /\ r[i].todo # <<>> => i < Len(r) /\ r[i + 1].sel = "initialize"
  <2>1. CASE i = Len(s) + 2
    BY <1>2, <2>1
  <2>2. CASE i = Len(s) + 1
    <3>1. i < Len(r) /\ i + 1 = Len(s) + 2
      BY <1>2, <2>2
    <3>2. QED
      BY <1>2, <2>2, <3>1
  <2>3. CASE i # Len(s) + 1 /\ i # Len(s) + 2
    <3>1. i \in 1 .. Len(s) /\ i < Len(r) /\ r[i] = s[i]
      BY <1>2, <2>3
    <3>2. FrameOrdered(s[i], S) /\ (s[i].todo # <<>> => i < Len(s) /\ s[i + 1].sel = "initialize")
      BY <3>1 DEF Ordered
    <3>3. i < Len(s) => r[i + 1] = s[i + 1]
      BY <1>2, <3>1
    <3>4. QED
      BY <3>1, <3>2, <3>3
  <2>4. QED
    BY <2>1, <2>2, <2>3
<1>4. QED
  BY <1>1, <1>3 DEF Ordered

\* What is left when messages return, if the first that does has a method.
LEMMA OrderedLess ==
    ASSUME NEW S, NEW s \in Seq(MsgFrames), Ordered(s, S),
           NEW r \in Seq(MsgFrames), Len(r) < Len(s),
           \A i \in 1 .. Len(r) : r[i] = s[i], s[Len(r) + 1].sel = "message"
    PROVE  Ordered(r, S)
<1>1. Len(s) \in Nat /\ Len(r) \in Nat
  OBVIOUS
<1>2. ASSUME NEW i \in 1 .. Len(r)
      PROVE  /\ FrameOrdered(r[i], S)
             /\ r[i].todo # <<>> => i < Len(r) /\ r[i + 1].sel = "initialize"
  <2>1. i \in 1 .. Len(s) /\ r[i] = s[i]
    BY <1>1
  <2>2. FrameOrdered(s[i], S) /\ (s[i].todo # <<>> => s[i + 1].sel = "initialize")
    BY <2>1 DEF Ordered
  <2>3. s[i].todo # <<>> => i # Len(r)
    BY <2>2
  <2>4. i # Len(r) => i < Len(r) /\ r[i + 1] = s[i + 1]
    BY <1>1
  <2>5. QED
    BY <2>1, <2>2, <2>3, <2>4
<1>3. QED
  BY <1>2 DEF Ordered

\* Each thread's messages when one thread's stack is replaced.
LEMMA OrderedOthers ==
    ASSUME MsgInv, OrderInv, NEW t \in MsgThreads, NEW s,
           initialized_classes \subseteq initialized_classes',
           msg_stack' = [msg_stack EXCEPT ![t] = s], Ordered(s, initialized_classes')
    PROVE  (\A u \in MsgThreads : Ordered(msg_stack[u], initialized_classes))'
<1>1. ASSUME NEW u \in MsgThreads PROVE Ordered(msg_stack'[u], initialized_classes')
  <2>1. CASE u = t
    BY <2>1 DEF MsgInv
  <2>2. CASE u # t
    <3>1. msg_stack'[u] = msg_stack[u] /\ Ordered(msg_stack[u], initialized_classes)
      BY <2>2 DEF MsgInv, OrderInv
    <3>2. QED
      BY <3>1, OrderedKept
  <2>3. QED
    BY <2>1, <2>2
<1>2. QED
  BY <1>1 DEF Ordered, FrameOrdered, Chain

LEMMA EnsureOrdered ==
    ASSUME Msg!DispatchAssumption, MsgInv, OrderInv, NEW t \in MsgThreads,
           NEW rest \in Seq(MsgFrames), Ordered(rest, initialized_classes),
           NEW c \in Classes, NEW todo \in Seq(Classes), Chain(todo, initialized_classes),
           todo = <<>> => c \in initialized_classes,
           todo # <<>> => todo[Len(todo)] = c,
           NEW depth \in Nat, NEW n, n = Msg!NextDue(todo),
           EnsureResult(t, rest, c, todo, depth, n), DISPATCH_DEPTH' < MAX_DEPTH
    PROVE  OrderInv'
<1>1. /\ n \in 0 .. Len(todo) /\ Len(todo) \in Nat /\ MAX_DEPTH \in Nat
      /\ \A i \in 1 .. Len(todo) : i < n \/ n = 0 =>
            (Msg!HasInitialize(todo[i]) => todo[i] \in initialized_classes)
  BY NextDueSound DEF Msg!DispatchAssumption
<1>2. \A i \in 1 .. Len(todo) : todo[i] \in Classes
  OBVIOUS
<1>3. initialized_classes \subseteq Classes /\ DOMAIN msg_stack = MsgThreads
      /\ msg_calls \in [Classes -> Nat]
  BY DEF MsgInv
<1>4. ASSUME NEW m \in 0 .. Len(todo),
             initialized_classes' = initialized_classes \cup {todo[i] : i \in 1 .. m}
      PROVE  ClosedUp(initialized_classes)'
  <2>1. ASSUME NEW d \in initialized_classes'
        PROVE  Super[d] = NoClass \/ Super[d] \in initialized_classes'
    <3>1. CASE d \in initialized_classes
      BY <1>4, <3>1 DEF OrderInv, ClosedUp
    <3>2. CASE d \notin initialized_classes
      <4>1. PICK i \in 1 .. m : d = todo[i]
        BY <1>4, <2>1, <3>2
      <4>2. i \in 1 .. Len(todo) /\ (i > 1 => i - 1 \in 1 .. m)
        BY <1>1
      <4>3. \/ Super[d] = NoClass \/ Super[d] \in initialized_classes
            \/ i > 1 /\ todo[i - 1] = Super[d]
        BY <4>1, <4>2 DEF Chain
      <4>4. QED
        BY <1>4, <4>2, <4>3
    <3>3. QED
      BY <3>1, <3>2
  <2>2. QED
    BY <2>1 DEF ClosedUp
<1>5. CASE /\ initialized_classes' = initialized_classes \cup {todo[i] : i \in 1 .. Len(todo)}
           /\ msg_stack' = [msg_stack EXCEPT ![t] = Append(rest, Msg!Message(c, <<>>))]
           /\ DISPATCH_DEPTH' = depth /\ UNCHANGED msg_calls
           /\ n = 0 \/ depth + 1 > MAX_DEPTH
  <2>1. n = 0
    BY <1>1, <1>5
  <2>2. Len(todo) \in 0 .. Len(todo)
    BY <1>1
  <2>3. ClosedUp(initialized_classes)'
    BY <1>4, <1>5, <2>2
  <2>4. \A d \in initialized_classes' : Msg!HasInitialize(d) => msg_calls'[d] > 0
    BY <1>1, <1>5, <2>1 DEF OrderInv
  <2>5. c \in initialized_classes'
    <3>1. CASE todo = <<>>
      BY <1>5, <3>1
    <3>2. CASE todo # <<>>
      <4>1. Len(todo) \in 1 .. Len(todo)
        BY <3>2
      <4>2. QED
        BY <1>5, <3>2, <4>1
    <3>3. QED
      BY <3>1, <3>2
  <2> DEFINE f == Msg!Message(c, <<>>)
  <2>6. f \in MsgFrames /\ f.todo = <<>> /\ f.class = c
    BY DEF Msg!Message, MsgFrames
  <2>7. initialized_classes \subseteq initialized_classes'
        /\ msg_stack' = [msg_stack EXCEPT ![t] = Append(rest, f)]
    BY <1>5
  <2> HIDE DEF f
  <2>8. FrameOrdered(f, initialized_classes')
    BY <2>5, <2>6 DEF FrameOrdered, Chain
  <2>9. Ordered(Append(rest, f), initialized_classes')
    BY <2>6, <2>7, <2>8, OrderedKept, OrderedMore
  <2>10. (\A u \in MsgThreads : Ordered(msg_stack[u], initialized_classes))'
    BY <2>7, <2>9, OrderedOthers
  <2>11. QED
    BY <2>3, <2>4, <2>10 DEF OrderInv
<1>6. CASE /\ initialized_classes' = initialized_classes \cup {todo[i] : i \in 1 .. n}
           /\ msg_stack' = [msg_stack EXCEPT ![t] =
                               Append(Append(rest, Msg!Message(c, SubSeq(todo, n + 1, Len(todo)))),
                                      Msg!Initialize(todo[n]))]
           /\ DISPATCH_DEPTH' = depth + 1 /\ depth + 1 <= MAX_DEPTH
           /\ n \in 1 .. Len(todo)
           /\ msg_calls' = [msg_calls EXCEPT ![todo[n]] = @ + 1]
  <2>1. ClosedUp(initialized_classes)'
    BY <1>1, <1>4, <1>6
  <2>2. /\ initialized_classes \subseteq initialized_classes' /\ todo[n] \in initialized_classes'
        /\ todo[n] \in Classes
    BY <1>1, <1>2, <1>6
  <2>3. \A d \in Classes : msg_calls'[d] = IF d = todo[n] THEN msg_calls[d] + 1 ELSE msg_calls[d]
    BY <1>3, <1>6
  <2>4. ASSUME NEW d \in initialized_classes', Msg!HasInitialize(d) PROVE msg_calls'[d] > 0
    <3>1. CASE d = todo[n]
      BY <1>3, <2>2, <2>3, <3>1
    <3>2. CASE d # todo[n]
      <4>1. d \in initialized_classes
        <5>1. CASE d \in {todo[i] : i \in 1 .. n}
          <6>1. PICK i \in 1 .. n : d = todo[i]
            BY <5>1
          <6>2. i \in 1 .. Len(todo) /\ i < n
            BY <1>1, <3>2, <6>1
          <6>3. QED
            BY <1>1, <2>4, <6>1, <6>2
        <5>2. QED
          BY <1>6, <5>1
      <4>2. QED
        BY <1>3, <2>3, <2>4, <3>2, <4>1 DEF OrderInv
    <3>3. QED
      BY <3>1, <3>2
  <2> DEFINE left == SubSeq(todo, n + 1, Len(todo))
             m == Msg!Message(c, left)
             f == Msg!Initialize(todo[n])
  <2>5. left \in Seq(Classes) /\ Len(left) = Len(todo) - n
        /\ \A k \in 1 .. Len(todo) - n : left[k] = todo[n + k]
    BY <1>1, <1>6
  <2>6. /\ m \in MsgFrames /\ m.todo = left /\ m.class = c
        /\ f \in MsgFrames /\ f.todo = <<>> /\ f.class = todo[n] /\ f.sel = "initialize"
    <3> HIDE DEF left
    <3>1. QED
      BY <2>2, <2>5 DEF Msg!Message, Msg!Initialize, MsgFrames
  <2>7. msg_stack' = [msg_stack EXCEPT ![t] = Append(Append(rest, m), f)]
    BY <1>6
  <2> HIDE DEF left, m, f
  <2>8. FrameOrdered(f, initialized_classes')
    BY <2>2, <2>6 DEF FrameOrdered, Chain
  <2>9. Chain(left, initialized_classes')
    <3>1. ASSUME NEW k \in 1 .. Len(left)
          PROVE  \/ Super[left[k]] = NoClass \/ Super[left[k]] \in initialized_classes'
                 \/ k > 1 /\ left[k - 1] = Super[left[k]]
      <4>1. /\ k \in 1 .. Len(todo) - n /\ n + k \in 1 .. Len(todo) /\ n + k > 1
            /\ left[k] = todo[n + k]
        BY <1>1, <1>6, <2>5
      <4>2. \/ Super[left[k]] = NoClass \/ Super[left[k]] \in initialized_classes
            \/ todo[(n + k) - 1] = Super[left[k]]
        BY <4>1 DEF Chain
      <4>3. CASE k = 1
        <5>1. (n + k) - 1 = n
          BY <1>1, <4>3
        <5>2. QED
          BY <2>2, <4>2, <5>1
      <4>4. CASE k # 1
        <5>1. k > 1 /\ k - 1 \in 1 .. Len(todo) - n /\ n + (k - 1) = (n + k) - 1
          BY <1>1, <4>1, <4>4
        <5>2. left[k - 1] = todo[(n + k) - 1]
          BY <2>5, <5>1
        <5>3. QED
          BY <2>2, <4>2, <5>1, <5>2
      <4>5. QED
        BY <4>3, <4>4
    <3>2. QED
      BY <3>1 DEF Chain
  <2>10. FrameOrdered(m, initialized_classes')
    <3>1. todo # <<>> /\ todo[Len(todo)] = c
      BY <1>1, <1>6
    <3>2. CASE left = <<>>
      <4>1. Len(todo) = n
        BY <1>1, <2>5, <3>2
      <4>2. QED
        BY <2>2, <2>6, <2>9, <3>1, <3>2, <4>1 DEF FrameOrdered
    <3>3. CASE left # <<>>
      <4>1. Len(left) > 0 /\ Len(left) \in 1 .. Len(todo) - n /\ n + Len(left) = Len(todo)
        BY <1>1, <2>5, <3>3
      <4>2. left[Len(left)] = c
        BY <2>5, <3>1, <4>1
      <4>3. QED
        BY <2>6, <2>9, <3>3, <4>2 DEF FrameOrdered
    <3>4. QED
      BY <3>2, <3>3
  <2>11. Ordered(Append(Append(rest, m), f), initialized_classes')
    BY <2>2, <2>6, <2>8, <2>10, OrderedKept, OrderedTwo
  <2>12. (\A u \in MsgThreads : Ordered(msg_stack[u], initialized_classes))'
    BY <2>2, <2>7, <2>11, OrderedOthers
  <2>13. QED
    BY <2>1, <2>4, <2>12 DEF OrderInv
<1>7. QED
  BY <1>5, <1>6 DEF EnsureResult

LEMMA UnmarkedOrdered ==
    ASSUME Msg!DispatchAssumption, NEW c \in Classes, NEW todo, todo = Msg!Unmarked(c)
    PROVE  /\ todo \in Seq(Classes) /\ Chain(todo, initialized_classes)
           /\ todo = <<>> => c \in initialized_classes
           /\ todo # <<>> => todo[Len(todo)] = c
<1>1. PICK k \in 0 .. Len(Msg!Lineage[c]) :
          /\ Msg!Unmarked(c) = SubSeq(Msg!Lineage[c], k + 1, Len(Msg!Lineage[c]))
          /\ k > 0 => Msg!Lineage[c][k] \in initialized_classes
  BY UnmarkedSound
<1>2. PICK line : line = Msg!Lineage[c] /\ InLine(c, line)
  BY LineageSound
<1>3. /\ line \in Seq(Classes) /\ Len(line) \in Nat /\ Len(line) > 0 /\ line[Len(line)] = c
      /\ \A j \in 1 .. Len(line) : Super[line[j]] = IF j = 1 THEN NoClass ELSE line[j - 1]
  BY <1>2 DEF InLine
<1>4. /\ k \in 0 .. Len(line) /\ todo = SubSeq(line, k + 1, Len(line))
      /\ k > 0 => line[k] \in initialized_classes
  BY <1>1, <1>2
<1>5. /\ todo \in Seq(Classes) /\ Len(todo) = Len(line) - k
      /\ \A j \in 1 .. Len(line) - k : todo[j] = line[k + j]
  BY <1>3, <1>4
<1>6. ASSUME NEW j \in 1 .. Len(todo)
      PROVE  \/ Super[todo[j]] = NoClass \/ Super[todo[j]] \in initialized_classes
             \/ j > 1 /\ todo[j - 1] = Super[todo[j]]
  <2>1. k + j \in 1 .. Len(line) /\ todo[j] = line[k + j]
    BY <1>3, <1>4, <1>5
  <2>2. Super[todo[j]] = IF k + j = 1 THEN NoClass ELSE line[(k + j) - 1]
    BY <1>3, <2>1
  <2>3. CASE j = 1
    <3>1. (k + j) - 1 = k /\ (k + j # 1 => k > 0)
      BY <1>4, <2>3
    <3>2. QED
      BY <1>4, <2>2, <3>1
  <2>4. CASE j # 1
    <3>1. j > 1 /\ k + j # 1 /\ j - 1 \in 1 .. Len(line) - k /\ k + (j - 1) = (k + j) - 1
      BY <1>3, <1>4, <1>5, <2>4
    <3>2. todo[j - 1] = line[(k + j) - 1]
      BY <1>5, <3>1
    <3>3. QED
      BY <2>2, <3>1, <3>2
  <2>5. QED
    BY <2>3, <2>4
<1>7. CASE todo = <<>>
  <2>0. Len(todo) = 0
    BY <1>7
  <2>1. k = Len(line)
    BY <1>3, <1>4, <1>5, <2>0
  <2>2. QED
    BY <1>3, <1>4, <1>5, <1>6, <1>7, <2>1 DEF Chain
<1>8. CASE todo # <<>>
  <2>1. Len(todo) > 0 /\ Len(todo) \in 1 .. Len(line) - k /\ k + Len(todo) = Len(line)
    BY <1>3, <1>4, <1>5, <1>8
  <2>2. todo[Len(todo)] = c
    BY <1>3, <1>5, <2>1
  <2>3. QED
    BY <1>5, <1>6, <1>8, <2>2 DEF Chain
<1>9. QED
  BY <1>7, <1>8

\* What runs is of a class that is marked.
LEMMA LastMarked ==
    ASSUME MsgInv, OrderInv, NEW t \in MsgThreads, msg_stack[t] # <<>>
    PROVE  /\ Msg!Last(msg_stack[t]) \in MsgFrames
           /\ Msg!Last(msg_stack[t]).class \in initialized_classes
<1>1. msg_stack[t] \in Seq(MsgFrames) /\ Len(msg_stack[t]) \in 1 .. Len(msg_stack[t])
      /\ Ordered(msg_stack[t], initialized_classes)
  BY DEF MsgInv, Stacked, OrderInv
<1>2. PICK n \in Nat : n = Len(msg_stack[t]) /\ n \in 1 .. Len(msg_stack[t])
  BY <1>1
<1>3. FrameOrdered(msg_stack[t][n], initialized_classes) /\ msg_stack[t][n].todo = <<>>
      /\ msg_stack[t][n] \in MsgFrames
  BY <1>1, <1>2 DEF Ordered
<1>4. QED
  BY <1>2, <1>3 DEF FrameOrdered, Msg!Last

LEMMA SendOrdered ==
    ASSUME Msg!DispatchAssumption, MsgInv, OrderInv, DISPATCH_DEPTH < MAX_DEPTH,
           DISPATCH_DEPTH' < MAX_DEPTH, NEW t \in MsgThreads, NEW c \in Classes,
           Msg!objc_msgSend(t, c)
    PROVE  OrderInv'
<1>1. DISPATCH_DEPTH \in Nat /\ DISPATCH_DEPTH + 1 \in Nat /\ ~ (DISPATCH_DEPTH + 1 > MAX_DEPTH)
  BY DEF MsgInv, Msg!DispatchAssumption
<1>2. PICK todo : todo = Msg!Unmarked(c)
  OBVIOUS
<1>3. PICK n : n = Msg!NextDue(todo)
  OBVIOUS
<1>4. Msg!ensure_class_initialized(t, msg_stack[t], c, todo, DISPATCH_DEPTH + 1)
  BY <1>1, <1>2 DEF Msg!objc_msgSend
<1>5. /\ todo \in Seq(Classes) /\ Chain(todo, initialized_classes)
      /\ todo = <<>> => c \in initialized_classes
      /\ todo # <<>> => todo[Len(todo)] = c
  BY <1>2, UnmarkedOrdered
<1>6. msg_stack[t] \in Seq(MsgFrames) /\ Ordered(msg_stack[t], initialized_classes)
  BY DEF MsgInv, Stacked, OrderInv
<1>7. EnsureResult(t, msg_stack[t], c, todo, DISPATCH_DEPTH + 1, n)
  BY <1>1, <1>3, <1>4, <1>5, <1>6, EnsureEffect
<1>8. QED
  BY <1>1, <1>3, <1>5, <1>6, <1>7, EnsureOrdered

LEMMA SuperOrdered ==
    ASSUME Msg!DispatchAssumption, MsgInv, OrderInv, DISPATCH_DEPTH < MAX_DEPTH,
           NEW t \in MsgThreads, Msg!objc_msgSendSuper2(t)
    PROVE  OrderInv'
<1> DEFINE old == msg_stack[t]
           f == Msg!Message(Super[Msg!Last(old).class], <<>>)
<1>1. DISPATCH_DEPTH \in Nat /\ ~ (DISPATCH_DEPTH + 1 > MAX_DEPTH)
  BY DEF MsgInv, Msg!DispatchAssumption
<1>2. /\ old # <<>> /\ Super[Msg!Last(old).class] # NoClass
      /\ msg_stack' = [msg_stack EXCEPT ![t] = Append(old, f)]
      /\ UNCHANGED <<initialized_classes, msg_calls>>
  BY <1>1 DEF Msg!objc_msgSendSuper2, MsgInv
<1>3. Msg!Last(old).class \in initialized_classes
  BY <1>2, LastMarked
<1>4. Super[Msg!Last(old).class] \in initialized_classes
      /\ Super[Msg!Last(old).class] \in Classes
  BY <1>2, <1>3 DEF OrderInv, ClosedUp, MsgInv
<1>5. f \in MsgFrames /\ f.todo = <<>> /\ f.class \in initialized_classes
  BY <1>4 DEF Msg!Message, MsgFrames
<1>6. old \in Seq(MsgFrames) /\ Ordered(old, initialized_classes)
  BY DEF MsgInv, Stacked, OrderInv
<1> HIDE DEF f, old
<1>7. FrameOrdered(f, initialized_classes)
  BY <1>5 DEF FrameOrdered, Chain
<1>8. Ordered(Append(old, f), initialized_classes')
  BY <1>2, <1>5, <1>6, <1>7, OrderedMore
<1>9. (\A u \in MsgThreads : Ordered(msg_stack[u], initialized_classes))'
  BY <1>2, <1>8, OrderedOthers
<1>10. QED
  BY <1>2, <1>9 DEF OrderInv, ClosedUp

LEMMA ReturnOrdered ==
    ASSUME Msg!DispatchAssumption, MsgInv, DispatchesCounted, OrderInv,
           DISPATCH_DEPTH' < MAX_DEPTH, NEW t \in MsgThreads, Msg!MethodReturns(t)
    PROVE  OrderInv'
<1> DEFINE old == msg_stack[t]
           front == Msg!Front(old)
<1>1. /\ Stacked(old) /\ old # <<>> /\ Len(old) \in Nat /\ Len(old) <= DISPATCH_DEPTH
      /\ DISPATCH_DEPTH \in Nat /\ Ordered(old, initialized_classes)
  BY DepthAtLeast DEF MsgInv, Msg!MethodReturns, OrderInv
<1>2. /\ Len(old) > 0 /\ Len(front) = Len(old) - 1 /\ Stacked(front)
      /\ \A i \in 1 .. Len(old) - 1 : front[i] = old[i]
  <2> HIDE DEF old
  <2>1. QED
    BY <1>1, StackedLess
<1>3. old \in Seq(MsgFrames) /\ old[Len(old)] \in MsgFrames
      /\ (old[Len(old)].sel = "initialize" =>
             Len(old) > 1 /\ old[Len(old) - 1].sel = "message")
  <2>1. old \in Seq(MsgFrames) /\ Len(old) \in 1 .. Len(old)
    BY <1>1, <1>2 DEF Stacked
  <2>2. QED
    BY <1>1, <2>1 DEF Stacked
<1>4. CASE Msg!Last(old).sel = "message"
  <2>1. /\ msg_stack' = [msg_stack EXCEPT ![t] = front]
        /\ UNCHANGED <<initialized_classes, msg_calls>> /\ old[Len(old)].sel = "message"
    BY <1>4 DEF Msg!MethodReturns, Msg!Last
  <2> HIDE DEF front, old
  <2>2. front \in Seq(MsgFrames) /\ Len(front) < Len(old)
        /\ (\A i \in 1 .. Len(front) : front[i] = old[i]) /\ Len(front) + 1 = Len(old)
    BY <1>1, <1>2 DEF Stacked
  <2>3. Ordered(front, initialized_classes')
    BY <1>1, <1>3, <2>1, <2>2, OrderedLess
  <2>4. (\A u \in MsgThreads : Ordered(msg_stack[u], initialized_classes))'
    BY <2>1, <2>3, OrderedOthers
  <2>5. QED
    BY <2>1, <2>4 DEF OrderInv, ClosedUp
<1>5. CASE Msg!Last(old).sel # "message"
  <2> DEFINE m == Msg!Last(front)
             rest == Msg!Front(front)
  <2>1. Msg!ensure_class_initialized(t, rest, m.class, m.todo, DISPATCH_DEPTH - 1)
    BY <1>5 DEF Msg!MethodReturns
  <2>2. old[Len(old)].sel = "initialize"
    BY <1>3, <1>5 DEF Msg!Last, MsgFrames
  <2>3. Len(old) > 1 /\ old[Len(old) - 1].sel = "message"
    BY <1>3, <2>2
  <2>4. front # <<>> /\ Len(front) > 0
    <3> HIDE DEF front
    <3>1. QED
      BY <1>1, <1>2, <2>3
  <2>5. Stacked(rest) /\ Len(rest) = Len(front) - 1
        /\ \A i \in 1 .. Len(front) - 1 : rest[i] = front[i]
    <3> HIDE DEF front
    <3>1. QED
      BY <1>2, <2>4, StackedLess
  <2>6. m = old[Len(old) - 1] /\ m \in MsgFrames /\ FrameOrdered(m, initialized_classes)
    <3> HIDE DEF front, old
    <3>1. Len(old) - 1 \in 1 .. Len(old) - 1 /\ Len(old) - 1 \in 1 .. Len(old)
      BY <1>1, <2>3
    <3>2. m = old[Len(old) - 1]
      BY <1>2, <3>1 DEF Msg!Last
    <3>3. old[Len(old) - 1] \in MsgFrames
          /\ FrameOrdered(old[Len(old) - 1], initialized_classes)
      BY <1>1, <1>3, <3>1 DEF Ordered
    <3>4. QED
      BY <3>2, <3>3
  <2> HIDE DEF m, rest, front, old
  <2>7. rest \in Seq(MsgFrames) /\ Len(rest) < Len(old) /\ Len(rest) + 1 = Len(old) - 1
        /\ \A i \in 1 .. Len(rest) : rest[i] = old[i]
    BY <1>1, <1>2, <2>3, <2>5 DEF Stacked
  <2>8. Ordered(rest, initialized_classes)
    BY <1>1, <1>3, <2>3, <2>7, OrderedLess
  <2>9. /\ m.class \in Classes /\ m.todo \in Seq(Classes)
        /\ Chain(m.todo, initialized_classes)
        /\ m.todo = <<>> => m.class \in initialized_classes
        /\ m.todo # <<>> => m.todo[Len(m.todo)] = m.class
    BY <2>6 DEF MsgFrames, FrameOrdered
  <2>10. DISPATCH_DEPTH - 1 \in Nat
    BY <1>1, <1>2
  <2>11. PICK n : n = Msg!NextDue(m.todo)
    OBVIOUS
  <2>12. EnsureResult(t, rest, m.class, m.todo, DISPATCH_DEPTH - 1, n)
    BY <2>1, <2>7, <2>9, <2>10, <2>11, EnsureEffect
  <2>13. QED
    BY <2>7, <2>8, <2>9, <2>10, <2>11, <2>12, EnsureOrdered
<1>6. QED
  BY <1>4, <1>5

LEMMA OrderNext ==
    ASSUME Msg!DispatchAssumption, MsgInv, DispatchesCounted, OrderInv,
           DISPATCH_DEPTH < MAX_DEPTH, DISPATCH_DEPTH' < MAX_DEPTH, [Msg!Next]_(Msg!vars)
    PROVE  OrderInv'
<1>1. CASE UNCHANGED Msg!vars
  BY <1>1 DEF Msg!vars, OrderInv, ClosedUp, Ordered, FrameOrdered, Chain
<1>2. CASE Msg!Next
  <2>1. PICK t \in MsgThreads : \/ \E c \in Classes : Msg!objc_msgSend(t, c)
                                \/ Msg!objc_msgSendSuper2(t)
                                \/ Msg!MethodReturns(t)
    BY <1>2 DEF Msg!Next
  <2>2. QED
    BY <2>1, SendOrdered, SuperOrdered, ReturnOrdered
<1>3. QED
  BY <1>1, <1>2

LEMMA OrderSound ==
    ASSUME Msg!DispatchAssumption, MsgInv, OrderInv
    PROVE  Msg!SentBeforeMessage /\ Msg!SuperclassesFirst
<1>1. ASSUME NEW c \in initialized_classes, NEW k \in Msg!ToSet(Msg!Lineage[c]),
             Msg!HasInitialize(k)
      PROVE  msg_calls[k] > 0
  <2>1. c \in Classes
    BY DEF MsgInv
  <2>2. PICK line : line = Msg!Lineage[c] /\ InLine(c, line)
    BY <2>1, LineageSound
  <2>3. line \in Seq(Classes) /\ Len(line) \in 1 .. Len(line) /\ line[Len(line)] = c
        /\ DOMAIN line = 1 .. Len(line)
    BY <2>2 DEF InLine
  <2>4. PICK n : n = Len(line) /\ n \in 1 .. Len(line)
    BY <2>3
  <2>5. \A i \in 1 .. n : line[i] \in initialized_classes
    BY <2>2, <2>3, <2>4, ClosedHasLine DEF OrderInv
  <2>6. k \in initialized_classes
    BY <1>1, <2>2, <2>3, <2>4, <2>5 DEF Msg!ToSet
  <2>7. QED
    BY <1>1, <2>6 DEF OrderInv
<1>2. Msg!SentBeforeMessage
  BY <1>1, LastMarked DEF Msg!SentBeforeMessage
<1>3. ASSUME NEW c \in Classes, msg_calls[c] > 0 PROVE c \in initialized_classes
  BY <1>3 DEF MsgInv
<1>4. Msg!SuperclassesFirst
  BY <1>1, <1>3 DEF Msg!SuperclassesFirst
<1>5. QED
  BY <1>2, <1>4

\* "Superclasses receive this message before their subclasses", and a class and its
\* superclasses are sent it before a method of the class runs, on whatever thread, as
\* long as the messages in progress never reach the recursion limit: the +initialize
\* that is refused there was already marked as sent, and is not sent again.
THEOREM SuperclassesInitialized ==
    ASSUME Msg!DispatchAssumption
    PROVE  Msg!Spec /\ [](DISPATCH_DEPTH < MAX_DEPTH) =>
               [](Msg!SentBeforeMessage /\ Msg!SuperclassesFirst)
<1>1. Msg!Init => MsgInv /\ DispatchesCounted
  BY MsgInitial
<1>2. Msg!Init => OrderInv
  BY DEF Msg!Init, OrderInv, ClosedUp, Ordered
<1>3. MsgInv /\ DispatchesCounted /\ [Msg!Next]_(Msg!vars) => MsgInv' /\ DispatchesCounted'
  BY MsgNext
<1>4. (/\ MsgInv /\ DispatchesCounted /\ OrderInv
       /\ DISPATCH_DEPTH < MAX_DEPTH /\ (DISPATCH_DEPTH < MAX_DEPTH)'
       /\ [Msg!Next]_(Msg!vars)) => OrderInv'
  BY OrderNext
<1>5. MsgInv /\ OrderInv => Msg!SentBeforeMessage /\ Msg!SuperclassesFirst
  BY OrderSound
<1>6. QED
  BY <1>1, <1>2, <1>3, <1>4, <1>5, PTL DEF Msg!Spec

(***************************************************************************)
(* Key-value observing                                                     *)
(***************************************************************************)
CONSTANTS KvoThreads, Observers, MaxValue, KvoDepth, RegisterInChange
VARIABLES value, KVO_OBSERVERS, PENDING_KVO_OLD_VALUES, changes
Kvo == INSTANCE KeyValueObserving WITH Threads <- KvoThreads, MaxDepth <- KvoDepth

Entries == [observer : Observers, old : BOOLEAN]
Changes == {c \in [at : {"announced", "reporting", "called"}, was : Nat, old : Nat,
                  rest : Seq(Entries)] : c.at = "called" => c.rest # <<>>}

\* The changes of a thread: what they tell is a value there was.
ChangesOK(s, v) ==
    /\ s \in Seq(Changes) /\ Len(s) <= KvoDepth
    /\ \A i \in 1 .. Len(s) : /\ i < Len(s) => s[i].at # "reporting"
                             /\ s[i].was \in 1 .. v /\ s[i].old \in 0 .. v

PendingOK(p, v) == p \in Seq(Nat) /\ \A i \in 1 .. Len(p) : p[i] \in 1 .. v

KvoTypes ==
    /\ value \in 1 .. MaxValue /\ KVO_OBSERVERS \in Seq(Entries)
    /\ PendingOK(PENDING_KVO_OLD_VALUES, value)
    /\ DOMAIN changes = KvoThreads /\ changes = [t \in KvoThreads |-> changes[t]]
    /\ \A t \in KvoThreads : ChangesOK(changes[t], value)

\* The announced changes of a thread, and those of all threads.
Announced(s) == {i \in 1 .. Len(s) : s[i].at = "announced"}

KvoInv == KvoTypes /\ Kvo!KeptForOpen

\* A list without the entries of an observer is a list.
KeptEntries(o, list, f, i) ==
    IF i = 0 THEN <<>>
    ELSE IF list[i].observer = o THEN f[i - 1] ELSE Append(f[i - 1], list[i])

LEMMA EntriesLeft ==
    ASSUME NEW o, NEW list \in Seq(Entries)
    PROVE  Kvo!Without(list, o) \in Seq(Entries)
<1>1. Len(list) \in Nat /\ DOMAIN list = 1 .. Len(list)
      /\ \A i \in 1 .. Len(list) : list[i] \in Entries
  OBVIOUS
<1> DEFINE T == {n \in Nat : n \in 0 .. Len(list) =>
                    \E f : f = [i \in 0 .. n |-> KeptEntries(o, list, f, i)]}
<1>2. 0 \in T
  <2> DEFINE g == [i \in 0 .. 0 |-> <<>>]
  <2>1. g = [i \in 0 .. 0 |-> KeptEntries(o, list, g, i)]
    BY DEF KeptEntries
  <2> HIDE DEF g
  <2>2. QED
    BY <2>1
<1>3. ASSUME NEW n \in Nat, n \in T PROVE n + 1 \in T
  <2>1. CASE n + 1 \notin 0 .. Len(list)
    BY <2>1
  <2>2. CASE n + 1 \in 0 .. Len(list)
    <3>1. PICK f : f = [i \in 0 .. n |-> KeptEntries(o, list, f, i)]
      <4>1. n \in 0 .. Len(list)
        BY <1>1, <2>2
      <4>2. QED
        BY <1>3, <4>1
    <3> DEFINE g == [i \in 0 .. n + 1 |-> KeptEntries(o, list, f, i)]
    <3>2. ASSUME NEW i \in 0 .. n + 1 PROVE KeptEntries(o, list, f, i) = KeptEntries(o, list, g, i)
      <4>1. CASE i = 0
        BY <4>1 DEF KeptEntries
      <4>2. CASE i # 0
        <5>1. i - 1 \in 0 .. n /\ i - 1 \in 0 .. n + 1
          BY <4>2
        <5>2. f[i - 1] = g[i - 1]
          BY <3>1, <5>1
        <5> HIDE DEF g
        <5>3. QED
          BY <4>2, <5>2 DEF KeptEntries
      <4>3. QED
        BY <4>1, <4>2
    <3>3. g = [i \in 0 .. n + 1 |-> KeptEntries(o, list, g, i)]
      BY <3>2
    <3> HIDE DEF g
    <3>4. \E h : h = [i \in 0 .. n + 1 |-> KeptEntries(o, list, h, i)]
      BY <3>3
    <3>5. QED
      BY <3>4
  <2>3. QED
    BY <2>1, <2>2
<1>4. Nat \subseteq T
  <2> HIDE DEF T
  <2>1. QED
    BY <1>2, <1>3, Counting
<1>5. PICK f : /\ f = [i \in 0 .. Len(list) |-> KeptEntries(o, list, f, i)]
               /\ Kvo!Without(list, o) = f[Len(list)]
  <2> DEFINE f == CHOOSE f : f = [i \in 0 .. Len(list) |-> KeptEntries(o, list, f, i)]
  <2>1. Len(list) \in T /\ Len(list) \in 0 .. Len(list)
    BY <1>1, <1>4
  <2>2. \E h : h = [i \in 0 .. Len(list) |-> KeptEntries(o, list, h, i)]
    BY <2>1
  <2>3. f = [i \in 0 .. Len(list) |-> KeptEntries(o, list, f, i)]
    BY <2>2
  <2>4. Kvo!Without(list, o) = f[Len(list)]
    BY DEF Kvo!Without, KeptEntries
  <2>5. QED
    BY <2>3, <2>4
<1> DEFINE R == {n \in Nat : n \in 0 .. Len(list) => f[n] \in Seq(Entries)}
<1>6. 0 \in R
  <2>1. f[0] = <<>>
    BY <1>1, <1>5 DEF KeptEntries
  <2>2. <<>> \in Seq(Entries)
    OBVIOUS
  <2>3. QED
    BY <2>1, <2>2
<1>7. ASSUME NEW n \in Nat, n \in R PROVE n + 1 \in R
  <2> SUFFICES ASSUME n + 1 \in 0 .. Len(list) PROVE f[n + 1] \in Seq(Entries)
    OBVIOUS
  <2>1. n \in 0 .. Len(list) /\ n + 1 \in 1 .. Len(list) /\ (n + 1) - 1 = n /\ n + 1 # 0
    BY <1>1
  <2>2. f[n + 1] = KeptEntries(o, list, f, n + 1)
    BY <1>5
  <2>3. f[n + 1] = IF list[n + 1].observer = o THEN f[n] ELSE Append(f[n], list[n + 1])
    BY <2>1, <2>2 DEF KeptEntries
  <2>4. f[n] \in Seq(Entries) /\ list[n + 1] \in Entries
    BY <1>1, <1>7, <2>1
  <2>5. QED
    BY <2>3, <2>4
<1>8. Nat \subseteq R
  <2> HIDE DEF R
  <2>1. QED
    BY <1>6, <1>7, Counting
<1>9. QED
  BY <1>1, <1>5, <1>8

\* A change is announced, gets on, or is over.
LEMMA ChangePushed ==
    ASSUME NEW s, NEW v, ChangesOK(s, v), Len(s) < KvoDepth, s # <<>> => s[Len(s)].at # "reporting",
           KvoDepth \in Nat,
           NEW c \in Changes, c.at = "announced", c.was \in 1 .. v, c.old \in 0 .. v
    PROVE  /\ ChangesOK(Append(s, c), v) /\ Len(Append(s, c)) = Len(s) + 1
           /\ Append(s, c)[Len(s) + 1] = c /\ \A i \in 1 .. Len(s) : Append(s, c)[i] = s[i]
           /\ Announced(Append(s, c)) = Announced(s) \cup {Len(s) + 1}
           /\ Len(s) + 1 \notin Announced(s)
<1>0. PICK n \in Nat : n = Len(s)
  BY DEF ChangesOK
<1>1. PICK r : n = Len(s) /\ r = Append(s, c)
  BY <1>0
<1>2. r \in Seq(Changes) /\ Len(r) = n + 1 /\ r[n + 1] = c /\ \A i \in 1 .. n : r[i] = s[i]
  BY <1>1 DEF ChangesOK
<1>3. \A i \in 1 .. n + 1 : i = n + 1 \/ i \in 1 .. n
  OBVIOUS
<1>4. n + 1 \in 1 .. n + 1 /\ n + 1 \notin 1 .. n /\ \A i \in 1 .. n : i \in 1 .. n + 1
  OBVIOUS
<1>5. ASSUME NEW i \in 1 .. n + 1
      PROVE  /\ i < n + 1 => r[i].at # "reporting"
             /\ r[i].was \in 1 .. v /\ r[i].old \in 0 .. v
  <2>1. CASE i = n + 1
    BY <1>2, <2>1
  <2>2. CASE i \in 1 .. n
    <3>1. r[i] = s[i] /\ s[i].was \in 1 .. v /\ s[i].old \in 0 .. v
          /\ (i < n => s[i].at # "reporting")
      BY <1>1, <1>2, <2>2 DEF ChangesOK
    <3>2. CASE i = n
      BY <1>1, <3>1, <3>2 DEF ChangesOK
    <3>3. CASE i < n
      BY <3>1, <3>3
    <3>4. QED
      BY <2>2, <3>2, <3>3
  <2>3. QED
    BY <1>3, <2>1, <2>2
<1>6. n + 1 <= KvoDepth
  BY <1>1
<1>7. ChangesOK(r, v)
  BY <1>1, <1>2, <1>5, <1>6 DEF ChangesOK
<1>8. Announced(r) = Announced(s) \cup {n + 1} /\ n + 1 \notin Announced(s)
  BY <1>1, <1>2, <1>3, <1>4 DEF Announced
<1>9. QED
  BY <1>1, <1>2, <1>7, <1>8

LEMMA ChangeSet ==
    ASSUME NEW s, NEW v, ChangesOK(s, v), s # <<>>, NEW c \in Changes,
           c.was \in 1 .. v, c.old \in 0 .. v, NEW r, r = [s EXCEPT ![Len(s)] = c]
    PROVE  /\ ChangesOK(r, v) /\ Len(r) = Len(s) /\ r[Len(s)] = c /\ Len(s) \in 1 .. Len(s)
           /\ \A i \in 1 .. Len(s) : i # Len(s) => r[i] = s[i]
           /\ c.at # "announced" /\ s[Len(s)].at # "announced" =>
                 Announced(r) = Announced(s)
           /\ c.at # "announced" /\ s[Len(s)].at = "announced" =>
                 Len(s) \in Announced(s) /\ Announced(r) = Announced(s) \ {Len(s)}
<1>1. PICK n \in Nat : n = Len(s) /\ n \in 1 .. n
  <2>1. Len(s) \in Nat /\ Len(s) # 0
    BY DEF ChangesOK
  <2>2. QED
    BY <2>1
<1>2. /\ r \in Seq(Changes) /\ Len(r) = n /\ r[n] = c
      /\ \A i \in 1 .. n : i # n => r[i] = s[i]
  BY <1>1 DEF ChangesOK
<1>3. \A i \in 1 .. n : /\ i < n => r[i].at # "reporting"
                        /\ r[i].was \in 1 .. v /\ r[i].old \in 0 .. v
  BY <1>1, <1>2 DEF ChangesOK
<1>4. ChangesOK(r, v)
  BY <1>1, <1>2, <1>3 DEF ChangesOK
<1>5. /\ c.at # "announced" /\ s[n].at # "announced" => Announced(r) = Announced(s)
      /\ c.at # "announced" /\ s[n].at = "announced" =>
            n \in Announced(s) /\ Announced(r) = Announced(s) \ {n}
  BY <1>1, <1>2 DEF Announced
<1>6. QED
  BY <1>1, <1>2, <1>4, <1>5

LEMMA ChangePopped ==
    ASSUME NEW s, NEW v, ChangesOK(s, v), s # <<>>, s[Len(s)].at = "reporting", NEW r,
           r = Kvo!Front(s), KvoDepth \in Nat
    PROVE  /\ ChangesOK(r, v) /\ Len(r) = Len(s) - 1
           /\ \A i \in 1 .. Len(s) - 1 : r[i] = s[i]
           /\ Announced(r) = Announced(s)
<1>1. PICK n \in Nat : n + 1 = Len(s)
  <2>1. Len(s) \in Nat /\ Len(s) > 0
    BY DEF ChangesOK
  <2>2. Len(s) - 1 \in Nat /\ (Len(s) - 1) + 1 = Len(s)
    BY <2>1
  <2>3. QED
    BY <2>2
<1>2. /\ r \in Seq(Changes) /\ Len(r) = n /\ \A i \in 1 .. n : r[i] = s[i]
  <2>1. ASSUME NEW q \in Seq(Changes), NEW k \in Nat, k <= Len(q)
        PROVE  SubSeq(q, 1, k) \in Seq(Changes) /\ Len(SubSeq(q, 1, k)) = k
    BY <2>1
  <2>2. ASSUME NEW q \in Seq(Changes), NEW k \in Nat, k <= Len(q), NEW i \in 1 .. k
        PROVE  SubSeq(q, 1, k)[i] = q[i]
    BY <2>2
  <2>3. n <= Len(s) /\ s \in Seq(Changes) /\ r = SubSeq(s, 1, n)
    <3>1. Len(s) - 1 = n /\ n <= Len(s)
      BY <1>1
    <3>2. QED
      BY <3>1 DEF ChangesOK, Kvo!Front
  <2>4. QED
    BY <2>1, <2>2, <2>3
<1>3. \A i \in 1 .. n + 1 : i = n + 1 \/ i \in 1 .. n
  OBVIOUS
<1>4. \A i \in 1 .. n : i \in 1 .. n + 1 /\ i < n + 1
  OBVIOUS
<1>5. ChangesOK(r, v)
  <2>1. \A i \in 1 .. n : s[i].at # "reporting" /\ s[i].was \in 1 .. v /\ s[i].old \in 0 .. v
    BY <1>1, <1>4 DEF ChangesOK
  <2>2. n + 1 <= KvoDepth
    BY <1>1 DEF ChangesOK
  <2>3. n <= KvoDepth
    BY <2>2
  <2>4. QED
    BY <1>2, <2>1, <2>3 DEF ChangesOK
<1>6. Announced(r) = Announced(s)
  BY <1>1, <1>2, <1>3, <1>4 DEF Announced
<1>7. QED
  BY <1>1, <1>2, <1>5, <1>6

\* Who has a change open: the announced changes of all threads.
OpenIn(ch) == {c \in KvoThreads \X (1 .. KvoDepth) :
                 c[2] \in DOMAIN ch[c[1]] /\ ch[c[1]][c[2]].at = "announced"}

LEMMA OpenExact ==
    ASSUME Kvo!KvoAssumption, NEW ch, NEW v, \A u \in KvoThreads : ChangesOK(ch[u], v)
    PROVE  /\ IsFiniteSet(OpenIn(ch)) /\ Cardinality(OpenIn(ch)) \in Nat
           /\ OpenIn(ch) \subseteq KvoThreads \X (1 .. KvoDepth)
           /\ \A u \in KvoThreads : \A i : <<u, i>> \in OpenIn(ch) <=> i \in Announced(ch[u])
<1>1. KvoDepth \in Nat /\ IsFiniteSet(KvoThreads)
  BY DEF Kvo!KvoAssumption, Kvo!IsFiniteSet, IsFiniteSet
<1>2. OpenIn(ch) \subseteq KvoThreads \X (1 .. KvoDepth)
  BY DEF OpenIn
<1>3. IsFiniteSet(KvoThreads \X (1 .. KvoDepth))
  <2>1. IsFiniteSet(1 .. KvoDepth)
    BY <1>1, FS_Interval
  <2>2. QED
    BY <1>1, <2>1, FS_Product
<1>4. IsFiniteSet(OpenIn(ch)) /\ Cardinality(OpenIn(ch)) \in Nat
  BY <1>2, <1>3, FS_Subset, FS_CardinalityType
<1>5. ASSUME NEW u \in KvoThreads, NEW i
      PROVE  <<u, i>> \in OpenIn(ch) <=> i \in Announced(ch[u])
  <2>1. PICK s : s = ch[u] /\ s \in Seq(Changes) /\ Len(s) <= KvoDepth
    BY DEF ChangesOK
  <2>2. DOMAIN s = 1 .. Len(s) /\ Len(s) \in Nat
    BY <2>1
  <2>3. i \in 1 .. Len(s) => i \in 1 .. KvoDepth
    BY <1>1, <2>1, <2>2
  <2>4. QED
    BY <2>1, <2>2, <2>3 DEF OpenIn, Announced
<1>6. QED
  BY <1>2, <1>4, <1>5

LEMMA SameOpen == Kvo!Open = OpenIn(changes) /\ Kvo!Open' = OpenIn(changes')
BY DEF Kvo!Open, OpenIn

LEMMA SameNumber == \A S : Kvo!Cardinality(S) = Cardinality(S)
BY DEF Kvo!Cardinality, Cardinality

\* A step deals with the changes of one thread.
LEMMA ChangesStep ==
    ASSUME KvoTypes, Kvo!KvoAssumption, NEW t \in KvoThreads, NEW r, ChangesOK(r, value),
           changes' = [changes EXCEPT ![t] = r], UNCHANGED <<value, KVO_OBSERVERS>>,
           PendingOK(PENDING_KVO_OLD_VALUES', value), NEW n
    PROVE  /\ KvoTypes' /\ changes'[t] = r
           /\ Announced(r) = Announced(changes[t]) =>
                 Cardinality(OpenIn(changes')) = Cardinality(OpenIn(changes))
           /\ n \notin Announced(changes[t]) /\ Announced(r) = Announced(changes[t]) \cup {n} =>
                 Cardinality(OpenIn(changes')) = Cardinality(OpenIn(changes)) + 1
           /\ n \in Announced(changes[t]) /\ Announced(r) = Announced(changes[t]) \ {n} =>
                 Cardinality(OpenIn(changes')) = Cardinality(OpenIn(changes)) - 1
<1>1. /\ DOMAIN changes' = KvoThreads /\ changes'[t] = r
      /\ \A u \in KvoThreads : u # t => changes'[u] = changes[u]
  BY DEF KvoTypes
<1>2. KvoTypes'
  <2>1. \A u \in KvoThreads : ChangesOK(changes'[u], value')
    BY <1>1 DEF KvoTypes
  <2>2. changes' = [u \in KvoThreads |-> changes'[u]]
    BY <1>1 DEF KvoTypes
  <2>3. QED
    BY <1>1, <2>1, <2>2 DEF KvoTypes
<1>3. PICK a : /\ a = OpenIn(changes) /\ IsFiniteSet(a) /\ Cardinality(a) \in Nat
               /\ a \subseteq KvoThreads \X (1 .. KvoDepth)
               /\ \A u \in KvoThreads : \A i : <<u, i>> \in a <=> i \in Announced(changes[u])
  <2>1. \A u \in KvoThreads : ChangesOK(changes[u], value)
    BY DEF KvoTypes
  <2>2. QED
    BY <2>1, OpenExact
<1>4. PICK b : /\ b = OpenIn(changes') /\ b \subseteq KvoThreads \X (1 .. KvoDepth)
               /\ \A u \in KvoThreads : \A i : <<u, i>> \in b <=> i \in Announced(changes'[u])
  <2>1. PICK ch, v : ch = changes' /\ v = value'
    OBVIOUS
  <2>2. \A u \in KvoThreads : ChangesOK(ch[u], v)
    BY <1>2, <2>1 DEF KvoTypes
  <2>3. /\ OpenIn(ch) \subseteq KvoThreads \X (1 .. KvoDepth)
        /\ \A u \in KvoThreads : \A i : <<u, i>> \in OpenIn(ch) <=> i \in Announced(ch[u])
    BY <2>2, OpenExact
  <2>4. QED
    BY <2>1, <2>3
<1>5. a = OpenIn(changes) /\ b = OpenIn(changes')
  BY <1>3, <1>4
<1>6. \A x \in a \cup b : \E u \in KvoThreads : \E i : x = <<u, i>>
  BY <1>3, <1>4, <1>5
<1>7. CASE Announced(r) = Announced(changes[t])
  <2>1. \A u \in KvoThreads : \A i : <<u, i>> \in a <=> <<u, i>> \in b
    BY <1>1, <1>3, <1>4, <1>7
  <2>2. a = b
    BY <1>6, <2>1
  <2>3. QED
    BY <1>1, <1>2, <1>5, <1>7, <2>2
<1>8. CASE n \notin Announced(changes[t]) /\ Announced(r) = Announced(changes[t]) \cup {n}
  <2>1. \A u \in KvoThreads : \A i : <<u, i>> \in b <=> <<u, i>> \in a \/ (u = t /\ i = n)
    BY <1>1, <1>3, <1>4, <1>8
  <2>2. \A x \in b : x \in a \/ x = <<t, n>>
    BY <1>6, <2>1
  <2>3. \A x \in a : x \in b
    BY <1>6, <2>1
  <2>4. <<t, n>> \in b /\ <<t, n>> \notin a
    BY <1>3, <1>8, <2>1
  <2>5. b = a \cup {<<t, n>>}
    BY <2>2, <2>3, <2>4
  <2>6. Cardinality(b) = Cardinality(a) + 1
    BY <1>3, <2>4, <2>5, FS_AddElement
  <2>7. QED
    BY <1>1, <1>2, <1>5, <1>8, <2>6
<1>9. CASE n \in Announced(changes[t]) /\ Announced(r) = Announced(changes[t]) \ {n}
  <2>1. \A u \in KvoThreads : \A i : <<u, i>> \in b <=> <<u, i>> \in a /\ ~ (u = t /\ i = n)
    BY <1>1, <1>3, <1>4, <1>9
  <2>2. <<t, n>> \notin b /\ <<t, n>> \in a
    BY <1>3, <1>9, <2>1
  <2>3. \A x \in b : x \in a
    BY <1>6, <2>1
  <2>4. \A x \in a : x \in b \/ x = <<t, n>>
    BY <1>6, <2>1
  <2>5. b = a \ {<<t, n>>}
    BY <2>2, <2>3, <2>4
  <2>6. Cardinality(b) = Cardinality(a) - 1
    BY <1>3, <2>2, <2>5, FS_RemoveElement
  <2>7. QED
    BY <1>1, <1>2, <1>5, <1>9, <2>6
<1>10. QED
  BY <1>1, <1>2, <1>7, <1>8, <1>9

\* A value is kept, or the last one taken.
LEMMA PendingKept ==
    ASSUME NEW p, NEW v \in Nat, PendingOK(p, v), NEW x \in 1 .. v, NEW q, q = Append(p, x)
    PROVE  /\ PendingOK(q, v) /\ Len(q) = Len(p) + 1 /\ q[Len(p) + 1] = x
           /\ \A i \in 1 .. Len(p) : q[i] = p[i]
<1>1. PICK n \in Nat : n = Len(p)
  BY DEF PendingOK
<1>2. q \in Seq(Nat) /\ Len(q) = n + 1 /\ q[n + 1] = x /\ \A i \in 1 .. n : q[i] = p[i]
  BY <1>1 DEF PendingOK
<1>3. \A i \in 1 .. n + 1 : i = n + 1 \/ i \in 1 .. n
  OBVIOUS
<1>4. \A i \in 1 .. n + 1 : q[i] \in 1 .. v
  BY <1>1, <1>2, <1>3 DEF PendingOK
<1>5. QED
  BY <1>1, <1>2, <1>4 DEF PendingOK

LEMMA PendingTaken ==
    ASSUME NEW p, NEW v \in Nat, PendingOK(p, v), p # <<>>, NEW q, q = Kvo!Front(p)
    PROVE  /\ PendingOK(q, v) /\ Len(q) = Len(p) - 1 /\ Len(p) \in 1 .. Len(p)
           /\ Kvo!Last(p) = p[Len(p)] /\ Kvo!Last(p) \in 1 .. v
           /\ \A i \in 1 .. Len(p) - 1 : q[i] = p[i]
<1>1. PICK n \in Nat : n + 1 = Len(p)
  <2>1. Len(p) \in Nat /\ Len(p) > 0
    BY DEF PendingOK
  <2>2. Len(p) - 1 \in Nat /\ (Len(p) - 1) + 1 = Len(p)
    BY <2>1
  <2>3. QED
    BY <2>2
<1>2. /\ q \in Seq(Nat) /\ Len(q) = n /\ \A i \in 1 .. n : q[i] = p[i]
  <2>1. ASSUME NEW z \in Seq(Nat), NEW k \in Nat, k <= Len(z)
        PROVE  SubSeq(z, 1, k) \in Seq(Nat) /\ Len(SubSeq(z, 1, k)) = k
    BY <2>1
  <2>2. ASSUME NEW z \in Seq(Nat), NEW k \in Nat, k <= Len(z), NEW i \in 1 .. k
        PROVE  SubSeq(z, 1, k)[i] = z[i]
    BY <2>2
  <2>3. n <= Len(p) /\ p \in Seq(Nat) /\ q = SubSeq(p, 1, n)
    <3>1. Len(p) - 1 = n /\ n <= Len(p)
      BY <1>1
    <3>2. QED
      BY <3>1 DEF PendingOK, Kvo!Front
  <2>4. QED
    BY <2>1, <2>2, <2>3
<1>3. \A i \in 1 .. n : i \in 1 .. n + 1
  OBVIOUS
<1>4. \A i \in 1 .. n : q[i] \in 1 .. v
  BY <1>1, <1>2, <1>3 DEF PendingOK
<1>5. n + 1 \in 1 .. n + 1 /\ (n + 1) - 1 = n
  OBVIOUS
<1>6. Kvo!Last(p) = p[n + 1] /\ p[n + 1] \in 1 .. v
  BY <1>1, <1>5 DEF Kvo!Last, PendingOK
<1>7. QED
  BY <1>1, <1>2, <1>4, <1>5, <1>6 DEF PendingOK

KvoFacts(t, s, p, v) ==
    /\ s = changes[t] /\ p = PENDING_KVO_OLD_VALUES /\ v = value
    /\ v \in Nat /\ v \in 1 .. v /\ ChangesOK(s, v) /\ PendingOK(p, v)
    /\ Len(p) \in Nat /\ Len(p) <= Cardinality(OpenIn(changes))
    /\ Cardinality(OpenIn(changes)) \in Nat /\ KVO_OBSERVERS \in Seq(Entries)
    /\ KvoDepth \in Nat
    /\ s # <<>> => /\ Kvo!Last(s) = s[Len(s)] /\ s[Len(s)] \in Changes /\ Len(s) \in 1 .. Len(s)
                   /\ s[Len(s)].was \in 1 .. v /\ s[Len(s)].old \in 0 .. v

LEMMA FactsOf ==
    ASSUME KvoInv, Kvo!KvoAssumption, NEW t \in KvoThreads
    PROVE  \E s, p, v : KvoFacts(t, s, p, v)
<1>1. PICK s, p, v : s = changes[t] /\ p = PENDING_KVO_OLD_VALUES /\ v = value
  OBVIOUS
<1>2. /\ v \in Nat /\ v \in 1 .. v /\ ChangesOK(s, v) /\ PendingOK(p, v)
      /\ KVO_OBSERVERS \in Seq(Entries) /\ KvoDepth \in Nat
  BY <1>1 DEF KvoInv, KvoTypes, Kvo!KvoAssumption
<1>3. Len(p) \in Nat /\ s \in Seq(Changes)
  BY <1>2 DEF PendingOK, ChangesOK
<1>4. Cardinality(OpenIn(changes)) \in Nat
  <2>1. \A u \in KvoThreads : ChangesOK(changes[u], v)
    BY <1>1 DEF KvoInv, KvoTypes
  <2>2. QED
    BY <2>1, OpenExact
<1>5. Len(p) <= Cardinality(OpenIn(changes))
  BY <1>1, SameOpen, SameNumber DEF KvoInv, Kvo!KeptForOpen
<1>6. ASSUME s # <<>>
      PROVE  /\ Kvo!Last(s) = s[Len(s)] /\ s[Len(s)] \in Changes /\ Len(s) \in 1 .. Len(s)
             /\ s[Len(s)].was \in 1 .. v /\ s[Len(s)].old \in 0 .. v
  <2>1. Len(s) \in 1 .. Len(s)
    BY <1>3, <1>6
  <2>2. QED
    BY <1>2, <1>3, <2>1 DEF Kvo!Last, ChangesOK
<1>7. QED
  BY <1>1, <1>2, <1>3, <1>4, <1>5, <1>6 DEF KvoFacts

LEMMA ChangeAnnounced ==
    ASSUME KvoInv, Kvo!KvoAssumption, NEW t \in KvoThreads, Kvo!willChangeValueForKey(t)
    PROVE  KvoInv'
<1>1. PICK s, p, v : KvoFacts(t, s, p, v)
  BY FactsOf
<1>2. PICK c : c = Kvo!Change("announced", value, Kvo!nil, <<>>)
  OBVIOUS
<1>3. c \in Changes /\ c.at = "announced" /\ c.was \in 1 .. v /\ c.old \in 0 .. v
  <2>1. <<>> \in Seq(Entries) /\ 0 \in 0 .. v /\ v \in 1 .. v
    BY <1>1 DEF KvoFacts
  <2>2. c = [at |-> "announced", was |-> v, old |-> 0, rest |-> <<>>]
    BY <1>1, <1>2 DEF Kvo!Change, Kvo!nil, KvoFacts
  <2>3. QED
    BY <2>1, <2>2 DEF Changes
<1>4. PICK r : r = Append(s, c)
  OBVIOUS
<1>5. /\ changes' = [changes EXCEPT ![t] = r] /\ UNCHANGED <<value, KVO_OBSERVERS>>
      /\ Len(s) < KvoDepth /\ (s # <<>> => s[Len(s)].at # "reporting")
      /\ PENDING_KVO_OLD_VALUES' = (IF Kvo!WantsOld THEN Append(p, v) ELSE p)
  BY <1>1, <1>2, <1>4 DEF Kvo!willChangeValueForKey, Kvo!GuestRuns, Kvo!KeepOld, KvoFacts
<1>6. /\ ChangesOK(r, v) /\ Announced(r) = Announced(s) \cup {Len(s) + 1}
      /\ Len(s) + 1 \notin Announced(s)
  BY <1>1, <1>3, <1>4, <1>5, ChangePushed DEF KvoFacts
<1>7. PICK q : /\ q = PENDING_KVO_OLD_VALUES' /\ PendingOK(q, v) /\ Len(q) <= Len(p) + 1
  <2>1. CASE Kvo!WantsOld
    <3>1. PICK q : q = Append(p, v)
      OBVIOUS
    <3>2. PendingOK(q, v) /\ Len(q) = Len(p) + 1
      BY <1>1, <3>1, PendingKept DEF KvoFacts
    <3>3. Len(q) <= Len(p) + 1
      BY <1>1, <3>2 DEF KvoFacts
    <3>4. QED
      BY <1>5, <2>1, <3>1, <3>2, <3>3
  <2>2. CASE ~ Kvo!WantsOld
    <3>1. Len(p) <= Len(p) + 1
      BY <1>1 DEF KvoFacts
    <3>2. QED
      BY <1>1, <1>5, <2>2, <3>1 DEF KvoFacts
  <2>3. QED
    BY <2>1, <2>2
<1>8. /\ KvoTypes' /\ Cardinality(OpenIn(changes')) = Cardinality(OpenIn(changes)) + 1
  <2>1. PICK n : n = Len(s) + 1
    OBVIOUS
  <2>2. n \notin Announced(changes[t]) /\ Announced(r) = Announced(changes[t]) \cup {n}
    BY <1>1, <1>6, <2>1 DEF KvoFacts
  <2>3. ChangesOK(r, value) /\ PendingOK(PENDING_KVO_OLD_VALUES', value) /\ KvoTypes
    BY <1>1, <1>6, <1>7 DEF KvoFacts, KvoInv
  <2>4. QED
    BY <1>5, <2>2, <2>3, ChangesStep
<1>9. Len(q) <= Cardinality(OpenIn(changes'))
  <2>1. PICK a \in Nat, b \in Nat : a = Len(p) /\ b = Cardinality(OpenIn(changes)) /\ a <= b
    BY <1>1 DEF KvoFacts
  <2>2. Len(q) \in Nat
    BY <1>7 DEF PendingOK
  <2>3. QED
    BY <1>7, <1>8, <2>1, <2>2
<1>10. Kvo!KeptForOpen'
  BY <1>7, <1>9, SameOpen, SameNumber DEF Kvo!KeptForOpen
<1>11. QED
  BY <1>8, <1>10 DEF KvoInv

\* didChangeValueForKey: takes a value, if one was kept, and closes the change.
LEMMA ChangeReported ==
    ASSUME KvoInv, Kvo!KvoAssumption, NEW t \in KvoThreads, Kvo!didChangeValueForKey(t)
    PROVE  KvoInv'
<1>1. PICK s, p, v : KvoFacts(t, s, p, v)
  BY FactsOf
<1>2. s # <<>> /\ s[Len(s)].at = "announced"
  BY <1>1 DEF Kvo!didChangeValueForKey, KvoFacts
<1>3. PICK c : c = Kvo!Change("reporting", s[Len(s)].was, Kvo!LastOld(p), KVO_OBSERVERS)
  OBVIOUS
<1>4. PICK q : /\ q = Kvo!TakeOld(p) /\ PendingOK(q, v) /\ Kvo!LastOld(p) \in 0 .. v
               /\ Len(q) = (IF p = <<>> THEN 0 ELSE Len(p) - 1)
  <2>1. CASE p = <<>>
    <3>1. Kvo!TakeOld(p) = p /\ Kvo!LastOld(p) = 0 /\ Len(p) = 0
      BY <2>1 DEF Kvo!TakeOld, Kvo!LastOld, Kvo!nil
    <3>2. 0 \in 0 .. v /\ PendingOK(p, v)
      BY <1>1 DEF KvoFacts
    <3>3. QED
      BY <2>1, <3>1, <3>2
  <2>2. CASE p # <<>>
    <3>1. PICK q : q = Kvo!Front(p)
      OBVIOUS
    <3>2. /\ PendingOK(q, v) /\ Len(q) = Len(p) - 1 /\ Kvo!Last(p) \in 1 .. v
      BY <1>1, <2>2, <3>1, PendingTaken DEF KvoFacts
    <3>3. Kvo!TakeOld(p) = q /\ Kvo!LastOld(p) = Kvo!Last(p)
      BY <2>2, <3>1 DEF Kvo!TakeOld, Kvo!LastOld
    <3>4. Kvo!Last(p) \in 0 .. v
      BY <3>2
    <3>5. QED
      BY <2>2, <3>2, <3>3, <3>4
  <2>3. QED
    BY <2>1, <2>2
<1>5. /\ c \in Changes /\ c.at = "reporting" /\ c.was \in 1 .. v /\ c.old \in 0 .. v
  <2>1. PICK w \in 1 .. v, o \in 0 .. v : w = s[Len(s)].was /\ o = Kvo!LastOld(p)
    BY <1>1, <1>2, <1>4 DEF KvoFacts
  <2>2. c = [at |-> "reporting", was |-> w, old |-> o, rest |-> KVO_OBSERVERS]
    BY <1>3, <2>1 DEF Kvo!Change
  <2>3. KVO_OBSERVERS \in Seq(Entries) /\ w \in Nat /\ o \in Nat
    BY <1>1 DEF KvoFacts
  <2>4. QED
    BY <2>2, <2>3 DEF Changes
<1>6. PICK r : r = [s EXCEPT ![Len(s)] = c]
  OBVIOUS
<1>7. /\ changes' = [changes EXCEPT ![t] = r] /\ UNCHANGED <<value, KVO_OBSERVERS>>
      /\ PENDING_KVO_OLD_VALUES' = q
  BY <1>1, <1>3, <1>4, <1>6 DEF Kvo!didChangeValueForKey, KvoFacts
<1>8. /\ ChangesOK(r, v) /\ Len(s) \in Announced(s) /\ Announced(r) = Announced(s) \ {Len(s)}
  <2>1. c.at # "announced"
    BY <1>5
  <2>2. QED
    BY <1>1, <1>2, <1>5, <1>6, <2>1, ChangeSet DEF KvoFacts
<1>9. /\ KvoTypes' /\ Cardinality(OpenIn(changes')) = Cardinality(OpenIn(changes)) - 1
  <2>1. PICK n : n = Len(s)
    OBVIOUS
  <2>2. n \in Announced(changes[t]) /\ Announced(r) = Announced(changes[t]) \ {n}
    BY <1>1, <1>8, <2>1 DEF KvoFacts
  <2>3. ChangesOK(r, value) /\ PendingOK(PENDING_KVO_OLD_VALUES', value) /\ KvoTypes
    BY <1>1, <1>4, <1>7, <1>8 DEF KvoFacts, KvoInv
  <2>4. QED
    BY <1>7, <2>2, <2>3, ChangesStep
<1>10. Len(q) <= Cardinality(OpenIn(changes'))
  <2>1. PICK a \in Nat, b \in Nat : a = Len(p) /\ b = Cardinality(OpenIn(changes)) /\ a <= b
    BY <1>1 DEF KvoFacts
  <2>2. Cardinality(OpenIn(changes')) \in Nat
    <3>1. PICK ch, w : ch = changes' /\ w = value'
      OBVIOUS
    <3>2. \A u \in KvoThreads : ChangesOK(ch[u], w)
      BY <1>9, <3>1 DEF KvoTypes
    <3>3. Cardinality(OpenIn(ch)) \in Nat
      BY <3>2, OpenExact
    <3>4. QED
      BY <3>1, <3>3
  <2>3. CASE p = <<>>
    BY <1>4, <2>2, <2>3
  <2>4. CASE p # <<>>
    BY <1>4, <1>9, <2>1, <2>4
  <2>5. QED
    BY <2>3, <2>4
<1>11. Kvo!KeptForOpen'
  BY <1>7, <1>10, SameOpen, SameNumber DEF Kvo!KeptForOpen
<1>12. QED
  BY <1>9, <1>11 DEF KvoInv

\* Observers are called, and changes end, while the values kept stay.
LEMMA ChangeQuiet ==
    ASSUME KvoInv, Kvo!KvoAssumption, NEW t \in KvoThreads, NEW r, ChangesOK(r, value),
           Announced(r) = Announced(changes[t]), changes' = [changes EXCEPT ![t] = r],
           UNCHANGED <<value, KVO_OBSERVERS, PENDING_KVO_OLD_VALUES>>
    PROVE  KvoInv'
<1>1. PICK n : n = 0
  OBVIOUS
<1>2. KvoTypes' /\ Cardinality(OpenIn(changes')) = Cardinality(OpenIn(changes))
  <2>1. KvoTypes /\ PendingOK(PENDING_KVO_OLD_VALUES', value)
    BY DEF KvoInv, KvoTypes
  <2>2. QED
    BY <1>1, <2>1, ChangesStep
<1>3. Kvo!KeptForOpen'
  BY <1>2, SameOpen, SameNumber DEF KvoInv, Kvo!KeptForOpen
<1>4. QED
  BY <1>2, <1>3 DEF KvoInv

LEMMA ObserverCalled ==
    ASSUME KvoInv, Kvo!KvoAssumption, NEW t \in KvoThreads,
           Kvo!deliver_kvo_notification(t) \/ Kvo!ObserverReturns(t)
    PROVE  \E s, p, v, f, c, r :
              /\ KvoFacts(t, s, p, v) /\ s # <<>> /\ f = s[Len(s)] /\ c \in Changes
              /\ f.at # "announced" /\ c.at # "announced"
              /\ c.was = f.was /\ c.old = f.old /\ Kvo!ToSet(c.rest) \subseteq Kvo!ToSet(f.rest)
              /\ r = [s EXCEPT ![Len(s)] = c] /\ changes' = [changes EXCEPT ![t] = r]
              /\ UNCHANGED <<value, KVO_OBSERVERS, PENDING_KVO_OLD_VALUES>>
<1>1. PICK s, p, v : KvoFacts(t, s, p, v)
  BY FactsOf
<1>2. PICK f : f = s[Len(s)]
  OBVIOUS
<1>3. s # <<>> /\ f.at \in {"reporting", "called"} /\ f \in Changes
  BY <1>1, <1>2 DEF Kvo!deliver_kvo_notification, Kvo!ObserverReturns, KvoFacts
<1>4. CASE Kvo!deliver_kvo_notification(t)
  <2>1. PICK c : c = [f EXCEPT !.at = "called"]
    OBVIOUS
  <2>2. c \in Changes /\ c.at = "called" /\ c.was = f.was /\ c.old = f.old /\ c.rest = f.rest
    <3>1. f.rest # <<>>
      BY <1>1, <1>2, <1>3, <1>4 DEF Kvo!deliver_kvo_notification, KvoFacts
    <3>2. PICK w \in Nat, o \in Nat, x \in Seq(Entries) : w = f.was /\ o = f.old /\ x = f.rest
      BY <1>3 DEF Changes
    <3>3. c = [at |-> "called", was |-> w, old |-> o, rest |-> x]
      BY <1>3, <2>1, <3>2 DEF Changes
    <3>4. QED
      BY <3>1, <3>2, <3>3 DEF Changes
  <2>3. PICK r : r = [s EXCEPT ![Len(s)] = c]
    OBVIOUS
  <2>4. changes' = [changes EXCEPT ![t] = r]
        /\ UNCHANGED <<value, KVO_OBSERVERS, PENDING_KVO_OLD_VALUES>>
    BY <1>1, <1>2, <1>4, <2>1, <2>3 DEF Kvo!deliver_kvo_notification, KvoFacts
  <2>5. QED
    BY <1>1, <1>2, <1>3, <2>2, <2>3, <2>4
<1>5. CASE Kvo!ObserverReturns(t)
  <2>1. PICK x, y : x = f.rest /\ y = Tail(x)
    OBVIOUS
  <2>2. x \in Seq(Entries) /\ x # <<>> /\ f.was \in Nat /\ f.old \in Nat
    BY <1>1, <1>2, <1>3, <1>5, <2>1 DEF Changes, Kvo!ObserverReturns, KvoFacts
  <2>3. PICK n \in Nat : n + 1 = Len(x)
    <3>1. Len(x) \in Nat /\ Len(x) > 0
      BY <2>2
    <3>2. Len(x) - 1 \in Nat /\ (Len(x) - 1) + 1 = Len(x)
      BY <3>1
    <3>3. QED
      BY <3>2
  <2>4. y \in Seq(Entries) /\ DOMAIN y = 1 .. n /\ DOMAIN x = 1 .. n + 1
        /\ \A i \in 1 .. n : y[i] = x[i + 1] /\ i + 1 \in 1 .. n + 1
    BY <2>1, <2>2, <2>3
  <2>5. Kvo!ToSet(y) \subseteq Kvo!ToSet(x)
    BY <2>4 DEF Kvo!ToSet
  <2>6. PICK c : c = Kvo!Change("reporting", f.was, f.old, y)
    OBVIOUS
  <2>7. c \in Changes /\ c.at = "reporting" /\ c.was = f.was /\ c.old = f.old /\ c.rest = y
    BY <2>2, <2>4, <2>6 DEF Changes, Kvo!Change
  <2>8. PICK r : r = [s EXCEPT ![Len(s)] = c]
    OBVIOUS
  <2>9. changes' = [changes EXCEPT ![t] = r]
        /\ UNCHANGED <<value, KVO_OBSERVERS, PENDING_KVO_OLD_VALUES>>
    BY <1>1, <1>2, <1>5, <2>1, <2>6, <2>8 DEF Kvo!ObserverReturns, KvoFacts
  <2>10. QED
    BY <1>1, <1>2, <1>3, <2>1, <2>5, <2>7, <2>8, <2>9
<1>6. QED
  BY <1>3, <1>4, <1>5

\* A step of an observer, a change that ends, an assignment, an observer that comes or
\* goes (the next lemmas): none of them touches a value that is kept.
LEMMA ObserverKeeps ==
    ASSUME KvoInv, Kvo!KvoAssumption, NEW t \in KvoThreads,
           Kvo!deliver_kvo_notification(t) \/ Kvo!ObserverReturns(t)
    PROVE  KvoInv'
<1>1. PICK s, p, v, f, c, r :
              /\ KvoFacts(t, s, p, v) /\ s # <<>> /\ f = s[Len(s)] /\ c \in Changes
              /\ f.at # "announced" /\ c.at # "announced"
              /\ c.was = f.was /\ c.old = f.old /\ Kvo!ToSet(c.rest) \subseteq Kvo!ToSet(f.rest)
              /\ r = [s EXCEPT ![Len(s)] = c] /\ changes' = [changes EXCEPT ![t] = r]
              /\ UNCHANGED <<value, KVO_OBSERVERS, PENDING_KVO_OLD_VALUES>>
  BY ObserverCalled
<1>2. c.was \in 1 .. v /\ c.old \in 0 .. v /\ ChangesOK(s, v)
  BY <1>1 DEF KvoFacts
<1>3. ChangesOK(r, v) /\ Announced(r) = Announced(s)
  <2>1. PICK a : a = s[Len(s)].at /\ a # "announced" /\ c.at # "announced"
    BY <1>1
  <2>2. /\ ChangesOK(s, v) /\ s # <<>> /\ c \in Changes /\ c.was \in 1 .. v /\ c.old \in 0 .. v
        /\ r = [s EXCEPT ![Len(s)] = c] /\ s[Len(s)].at # "announced"
    BY <1>1, <1>2
  <2>3. /\ ChangesOK(r, v)
        /\ c.at # "announced" /\ s[Len(s)].at # "announced" => Announced(r) = Announced(s)
    BY <1>1, <1>2, <2>2, ChangeSet DEF KvoFacts
  <2>4. QED
    BY <2>1, <2>2, <2>3
<1>4. s = changes[t] /\ v = value
  BY <1>1 DEF KvoFacts
<1>5. ChangesOK(r, value) /\ Announced(r) = Announced(changes[t])
  BY <1>3, <1>4
<1>6. QED
  BY <1>1, <1>5, ChangeQuiet

LEMMA ChangeEnds ==
    ASSUME KvoInv, Kvo!KvoAssumption, NEW t \in KvoThreads, Kvo!didReturns(t)
    PROVE  KvoInv'
<1>1. PICK s, p, v : KvoFacts(t, s, p, v)
  BY FactsOf
<1>2. PICK r : r = Kvo!Front(s)
  OBVIOUS
<1>3. /\ s # <<>> /\ s[Len(s)].at = "reporting" /\ changes' = [changes EXCEPT ![t] = r]
      /\ UNCHANGED <<value, KVO_OBSERVERS, PENDING_KVO_OLD_VALUES>>
  BY <1>1, <1>2 DEF Kvo!didReturns, KvoFacts
<1>4. ChangesOK(r, v) /\ Announced(r) = Announced(s)
  BY <1>1, <1>2, <1>3, ChangePopped DEF KvoFacts
<1>5. s = changes[t] /\ v = value
  BY <1>1 DEF KvoFacts
<1>6. ChangesOK(r, value) /\ Announced(r) = Announced(changes[t])
  BY <1>4, <1>5
<1>7. QED
  BY <1>3, <1>6, ChangeQuiet

LEMMA ValueAssigned ==
    ASSUME KvoInv, Kvo!KvoAssumption, NEW t \in KvoThreads, Kvo!Assign(t)
    PROVE  KvoInv'
<1>1. PICK v \in Nat : v = value /\ v + 1 \in 1 .. MaxValue /\ value' = v + 1
  BY DEF Kvo!Assign, Kvo!KvoAssumption, KvoInv, KvoTypes
<1>2. /\ UNCHANGED <<KVO_OBSERVERS, PENDING_KVO_OLD_VALUES, changes>>
  BY DEF Kvo!Assign
<1>3. \A x : /\ x \in 1 .. v => x \in 1 .. v + 1
             /\ x \in 0 .. v => x \in 0 .. v + 1
  OBVIOUS
<1>4. PendingOK(PENDING_KVO_OLD_VALUES, v + 1)
  BY <1>1, <1>3 DEF KvoInv, KvoTypes, PendingOK
<1>5. ASSUME NEW u \in KvoThreads PROVE ChangesOK(changes[u], v + 1)
  BY <1>1, <1>3 DEF KvoInv, KvoTypes, ChangesOK
<1>6. KvoTypes'
  BY <1>1, <1>2, <1>4, <1>5 DEF KvoInv, KvoTypes
<1>7. Kvo!KeptForOpen'
  BY <1>2 DEF KvoInv, Kvo!KeptForOpen, Kvo!Open
<1>8. QED
  BY <1>6, <1>7 DEF KvoInv

LEMMA ObserversChange ==
    ASSUME KvoInv, NEW o \in Observers, NEW old \in BOOLEAN,
           Kvo!addObserver(o, old) \/ Kvo!removeObserver(o)
    PROVE  KvoInv'
<1>1. UNCHANGED <<value, PENDING_KVO_OLD_VALUES, changes>>
  BY DEF Kvo!addObserver, Kvo!removeObserver
<1>2. KVO_OBSERVERS' \in Seq(Entries)
  <2>1. KVO_OBSERVERS \in Seq(Entries)
    BY DEF KvoInv, KvoTypes
  <2>2. CASE Kvo!removeObserver(o)
    BY <2>1, <2>2, EntriesLeft DEF Kvo!removeObserver
  <2>3. CASE Kvo!addObserver(o, old)
    <3>1. [observer |-> o, old |-> old] \in Entries
      BY DEF Entries
    <3>2. QED
      BY <2>1, <2>3, <3>1 DEF Kvo!addObserver
  <2>4. QED
    BY <2>2, <2>3
<1>3. KvoTypes'
  BY <1>1, <1>2 DEF KvoInv, KvoTypes
<1>4. Kvo!KeptForOpen'
  BY <1>1 DEF KvoInv, Kvo!KeptForOpen, Kvo!Open
<1>5. QED
  BY <1>3, <1>4 DEF KvoInv

LEMMA KvoNext ==
    ASSUME KvoInv, Kvo!KvoAssumption, [Kvo!Next]_(Kvo!vars)
    PROVE  KvoInv'
<1>1. CASE UNCHANGED Kvo!vars
  BY <1>1 DEF Kvo!vars, KvoInv, KvoTypes, Kvo!KeptForOpen, Kvo!Open
<1>2. ASSUME NEW t \in KvoThreads,
             \/ Kvo!willChangeValueForKey(t) \/ Kvo!Assign(t) \/ Kvo!didChangeValueForKey(t)
             \/ Kvo!deliver_kvo_notification(t) \/ Kvo!ObserverReturns(t) \/ Kvo!didReturns(t)
      PROVE  KvoInv'
  BY <1>2, ChangeAnnounced, ValueAssigned, ChangeReported, ObserverKeeps, ChangeEnds
<1>3. ASSUME NEW o \in Observers,
             Kvo!removeObserver(o) \/ \E old \in BOOLEAN : Kvo!addObserver(o, old)
      PROVE  KvoInv'
  BY <1>3, ObserversChange
<1>4. QED
  BY <1>1, <1>2, <1>3 DEF Kvo!Next

LEMMA KvoInit ==
    ASSUME Kvo!KvoAssumption, Kvo!Init
    PROVE  KvoInv
<1>1. /\ value = 1 /\ KVO_OBSERVERS = <<>> /\ PENDING_KVO_OLD_VALUES = <<>>
      /\ changes = [t \in KvoThreads |-> <<>>] /\ KvoDepth \in Nat /\ MaxValue \in Nat \ {0}
  BY DEF Kvo!Init, Kvo!KvoAssumption
<1>2. ASSUME NEW v PROVE ChangesOK(<<>>, v) /\ PendingOK(<<>>, v)
  BY <1>1 DEF ChangesOK, PendingOK
<1>3. KvoTypes
  <2>1. <<>> \in Seq(Entries) /\ 1 \in 1 .. MaxValue
    BY <1>1
  <2>2. QED
    BY <1>1, <1>2, <2>1 DEF KvoTypes
<1>4. PICK b : b = OpenIn(changes) /\ Cardinality(b) \in Nat
  <2>1. \A u \in KvoThreads : ChangesOK(changes[u], 1)
    BY <1>1, <1>2
  <2>2. QED
    BY <2>1, OpenExact
<1>5. Kvo!KeptForOpen
  <2>1. Len(PENDING_KVO_OLD_VALUES) = 0
    BY <1>1
  <2>2. QED
    BY <1>4, <2>1, SameOpen, SameNumber DEF Kvo!KeptForOpen
<1>6. QED
  BY <1>3, <1>5 DEF KvoInv

LEMMA KvoSound ==
    ASSUME KvoInv
    PROVE  Kvo!TypeOK /\ Kvo!KeptForOpen
<1>1. /\ value \in 1 .. MaxValue /\ KVO_OBSERVERS \in Seq([observer : Observers, old : BOOLEAN])
  BY DEF KvoInv, KvoTypes, Entries
<1>2. PENDING_KVO_OLD_VALUES \in Seq(1 .. value)
  <2>1. PICK p : p = PENDING_KVO_OLD_VALUES
    OBVIOUS
  <2>2. p \in Seq(Nat) /\ \A i \in 1 .. Len(p) : p[i] \in 1 .. value
    BY <2>1 DEF KvoInv, KvoTypes, PendingOK
  <2>3. p \in Seq(1 .. value)
    <3>1. p = [i \in 1 .. Len(p) |-> p[i]] /\ Len(p) \in Nat
      BY <2>2
    <3>2. ASSUME NEW S, NEW n \in Nat, NEW q, q = [i \in 1 .. n |-> q[i]],
                 \A i \in 1 .. n : q[i] \in S
          PROVE  q \in Seq(S)
      BY <3>2
    <3>3. QED
      BY <2>2, <3>1, <3>2
  <2>4. QED
    BY <2>1, <2>3
<1>3. ASSUME NEW t \in KvoThreads, NEW i \in DOMAIN changes[t]
      PROVE  /\ i < Len(changes[t]) => changes[t][i].at \in {"announced", "called"}
             /\ changes[t][i].was \in 1..value /\ changes[t][i].old \in Kvo!nil..value
  <2>1. PICK s : s = changes[t] /\ ChangesOK(s, value)
    BY DEF KvoInv, KvoTypes
  <2>2. DOMAIN s = 1 .. Len(s) /\ s[i] \in Changes
    BY <2>1 DEF ChangesOK
  <2>3. s[i].at \in {"announced", "reporting", "called"}
    BY <2>2 DEF Changes
  <2>4. QED
    BY <2>1, <2>2, <2>3 DEF ChangesOK, Kvo!nil
<1>4. QED
  BY <1>1, <1>2, <1>3 DEF KvoInv, Kvo!TypeOK

\* However threads nest their changes and whatever observers come and go meanwhile
\* (willChangeValueForKey:, didChangeValueForKey:), an old value is kept only for a
\* change that is open, and every value told is one that the property had, or nil.
THEOREM OldValuesKept ==
    ASSUME Kvo!KvoAssumption
    PROVE  Kvo!Spec => [](Kvo!TypeOK /\ Kvo!KeptForOpen)
<1>1. Kvo!Init => KvoInv
  BY KvoInit
<1>2. KvoInv /\ [Kvo!Next]_(Kvo!vars) => KvoInv'
  BY KvoNext
<1>3. KvoInv => Kvo!TypeOK /\ Kvo!KeptForOpen
  BY KvoSound
<1>4. QED
  BY <1>1, <1>2, <1>3, PTL DEF Kvo!Spec

\* The old values kept are those of the announced changes of the thread: k[i] are those
\* kept when its first i changes were the only ones.
KeptValue(c, before, after) ==
    /\ c.at = "announced" => after = Append(before, c.was)
    /\ c.at # "announced" => after = before

KeptValues(k, s, p) ==
    /\ k \in [0 .. Len(s) -> Seq(Nat)] /\ k[Len(s)] = p
    /\ \A i \in 1 .. Len(s) : KeptValue(s[i], k[i - 1], k[i])

OwnOld(c) == (\E e \in Kvo!ToSet(c.rest) : e.old) => c.old = c.was

Own(s, p, list) ==
    /\ \A i \in 1 .. Len(s) : OwnOld(s[i])
    /\ (\E e \in Kvo!ToSet(list) : e.old) => \E k : KeptValues(k, s, p)

LEMMA KeptPushed ==
    ASSUME NEW k, NEW s \in Seq(Changes), NEW p \in Seq(Nat), KeptValues(k, s, p),
           NEW c \in Changes, c.at = "announced"
    PROVE  \E h : KeptValues(h, Append(s, c), Append(p, c.was))
<1>1. PICK n \in Nat : n = Len(s)
  OBVIOUS
<1>2. PICK r, x : r = Append(s, c) /\ x = c.was /\ x \in Nat
  BY DEF Changes
<1>3. Len(r) = n + 1 /\ r[n + 1] = c /\ \A i \in 1 .. n : r[i] = s[i]
  BY <1>1, <1>2
<1>4. Append(p, x) \in Seq(Nat)
  BY <1>2
<1>5. PICK h : h = [i \in 0 .. n + 1 |-> IF i = n + 1 THEN Append(p, x) ELSE k[i]]
  OBVIOUS
<1>6. h[n + 1] = Append(p, x) /\ \A i \in 0 .. n : h[i] = k[i]
  BY <1>5
<1>7. h \in [0 .. n + 1 -> Seq(Nat)]
  BY <1>1, <1>4, <1>5 DEF KeptValues
<1>8. ASSUME NEW i \in 1 .. n + 1
      PROVE  KeptValue(r[i], h[i - 1], h[i])
  <2>1. CASE i = n + 1
    <3>1. i - 1 = n /\ n \in 0 .. n
      BY <2>1
    <3>2. h[i - 1] = p
      BY <1>1, <1>6, <3>1 DEF KeptValues
    <3>3. QED
      BY <1>2, <1>3, <1>6, <2>1, <3>2 DEF KeptValue
  <2>2. CASE i # n + 1
    <3>1. i \in 1 .. n /\ i \in 0 .. n /\ i - 1 \in 0 .. n
      BY <2>2
    <3>2. h[i] = k[i] /\ h[i - 1] = k[i - 1] /\ r[i] = s[i]
      BY <1>3, <1>6, <3>1
    <3>3. QED
      BY <1>1, <3>1, <3>2 DEF KeptValues
  <2>3. QED
    BY <2>1, <2>2
<1>9. KeptValues(h, r, Append(p, x))
  BY <1>3, <1>6, <1>7, <1>8 DEF KeptValues
<1>10. QED
  BY <1>2, <1>9

LEMMA KeptSet ==
    ASSUME NEW k, NEW s \in Seq(Changes), NEW p, KeptValues(k, s, p), s # <<>>,
           NEW c \in Changes, c.at # "announced", NEW r, r = [s EXCEPT ![Len(s)] = c]
    PROVE  /\ s[Len(s)].at # "announced" => KeptValues(k, r, p)
           /\ s[Len(s)].at = "announced" =>
                 /\ p # <<>> /\ Kvo!Last(p) = s[Len(s)].was
                 /\ \E h : KeptValues(h, r, Kvo!Front(p))
<1>1. PICK n \in Nat : n + 1 = Len(s)
  <2>1. Len(s) \in Nat /\ Len(s) > 0
    OBVIOUS
  <2>2. Len(s) - 1 \in Nat /\ (Len(s) - 1) + 1 = Len(s)
    BY <2>1
  <2>3. QED
    BY <2>2
<1>2. n + 1 \in 1 .. n + 1 /\ (n + 1) - 1 = n /\ n \in 0 .. n + 1
  OBVIOUS
<1>3. Len(r) = n + 1 /\ r[n + 1] = c /\ \A i \in 1 .. n + 1 : i # n + 1 => r[i] = s[i]
  BY <1>1, <1>2
<1>4. CASE s[n + 1].at # "announced"
  <2>1. \A i \in 1 .. n + 1 : KeptValue(r[i], k[i - 1], k[i])
    <3>1. KeptValue(r[n + 1], k[n], k[n + 1])
      <4>1. k[n + 1] = k[n]
        BY <1>1, <1>2, <1>4 DEF KeptValues, KeptValue
      <4>2. QED
        BY <1>3, <4>1 DEF KeptValue
    <3>2. \A i \in 1 .. n + 1 : i # n + 1 => KeptValue(r[i], k[i - 1], k[i])
      BY <1>1, <1>3 DEF KeptValues
    <3>3. QED
      BY <1>2, <3>1, <3>2
  <2>2. k \in [0 .. n + 1 -> Seq(Nat)] /\ k[n + 1] = p
    BY <1>1 DEF KeptValues
  <2>3. KeptValues(k, r, p)
    BY <1>3, <2>1, <2>2 DEF KeptValues
  <2>4. QED
    BY <1>1, <1>4, <2>3
<1>5. CASE s[n + 1].at = "announced"
  <2>1. PICK x \in Nat, q \in Seq(Nat) : x = s[n + 1].was /\ q = k[n]
    <3>1. s[n + 1] \in Changes /\ k[n] \in Seq(Nat)
      BY <1>1, <1>2 DEF KeptValues
    <3>2. QED
      BY <3>1 DEF Changes
  <2>2. p = Append(q, x)
    <3>1. KeptValue(s[n + 1], k[n], k[n + 1]) /\ k[n + 1] = p
      BY <1>1, <1>2 DEF KeptValues
    <3>2. QED
      BY <1>5, <2>1, <3>1 DEF KeptValue
  <2>3. p # <<>> /\ Kvo!Last(p) = x /\ Kvo!Front(p) = q
    <3>1. PICK m \in Nat : m = Len(q)
      OBVIOUS
    <3>2. p \in Seq(Nat) /\ Len(p) = m + 1 /\ p[m + 1] = x /\ \A i \in 1 .. m : p[i] = q[i]
      BY <2>2, <3>1
    <3>3. SubSeq(p, 1, m) \in Seq(Nat) /\ Len(SubSeq(p, 1, m)) = m
          /\ \A i \in 1 .. m : SubSeq(p, 1, m)[i] = p[i]
      <4>1. ASSUME NEW z \in Seq(Nat), NEW j \in Nat, j <= Len(z)
            PROVE  SubSeq(z, 1, j) \in Seq(Nat) /\ Len(SubSeq(z, 1, j)) = j
        BY <4>1
      <4>2. ASSUME NEW z \in Seq(Nat), NEW j \in Nat, j <= Len(z), NEW i \in 1 .. j
            PROVE  SubSeq(z, 1, j)[i] = z[i]
        BY <4>2
      <4>3. m <= m + 1
        OBVIOUS
      <4>4. QED
        BY <3>2, <4>1, <4>2, <4>3
    <3>4. SubSeq(p, 1, m) = q
      BY <3>1, <3>2, <3>3
    <3>5. (m + 1) - 1 = m
      OBVIOUS
    <3>6. QED
      BY <3>2, <3>4, <3>5 DEF Kvo!Last, Kvo!Front
  <2>4. PICK h : h = [i \in 0 .. n + 1 |-> IF i = n + 1 THEN q ELSE k[i]]
    OBVIOUS
  <2>5. h[n + 1] = q /\ (\A i \in 0 .. n : h[i] = k[i]) /\ h \in [0 .. n + 1 -> Seq(Nat)]
    <3>1. k \in [0 .. n + 1 -> Seq(Nat)]
      BY <1>1 DEF KeptValues
    <3>2. QED
      BY <2>1, <2>4, <3>1
  <2>6. ASSUME NEW i \in 1 .. n + 1
        PROVE  KeptValue(r[i], h[i - 1], h[i])
    <3>1. CASE i = n + 1
      <4>1. n \in 0 .. n
        OBVIOUS
      <4>2. h[i - 1] = q /\ h[i] = q
        BY <1>2, <2>1, <2>5, <3>1, <4>1
      <4>3. QED
        BY <1>3, <3>1, <4>2 DEF KeptValue
    <3>2. CASE i # n + 1
      <4>1. i \in 1 .. n /\ i \in 0 .. n /\ i - 1 \in 0 .. n
        BY <3>2
      <4>2. h[i] = k[i] /\ h[i - 1] = k[i - 1] /\ r[i] = s[i]
        BY <1>3, <2>5, <3>2, <4>1
      <4>3. QED
        BY <1>1, <4>1, <4>2 DEF KeptValues
    <3>3. QED
      BY <3>1, <3>2
  <2>7. KeptValues(h, r, q)
    BY <1>3, <2>5, <2>6 DEF KeptValues
  <2>8. QED
    BY <1>1, <1>5, <2>1, <2>3, <2>7
<1>6. QED
  BY <1>1, <1>4, <1>5

LEMMA KeptPopped ==
    ASSUME NEW k, NEW s \in Seq(Changes), NEW p, KeptValues(k, s, p), s # <<>>,
           s[Len(s)].at # "announced", NEW r, Len(r) = Len(s) - 1,
           \A i \in 1 .. Len(s) - 1 : r[i] = s[i]
    PROVE  \E h : KeptValues(h, r, p)
<1>1. PICK n \in Nat : n + 1 = Len(s) /\ n = Len(r)
  <2>1. Len(s) \in Nat /\ Len(s) > 0
    OBVIOUS
  <2>2. Len(s) - 1 \in Nat /\ (Len(s) - 1) + 1 = Len(s)
    BY <2>1
  <2>3. QED
    BY <2>2
<1>2. PICK h : h = [i \in 0 .. n |-> k[i]]
  OBVIOUS
<1>3. n + 1 \in 1 .. n + 1 /\ (n + 1) - 1 = n /\ n \in 0 .. n
  OBVIOUS
<1>4. h[n] = p
  <2>1. KeptValue(s[n + 1], k[n], k[n + 1]) /\ k[n + 1] = p
    BY <1>1, <1>3 DEF KeptValues
  <2>2. k[n] = p
    BY <1>1, <2>1 DEF KeptValue
  <2>3. QED
    BY <1>2, <1>3, <2>2
<1>5. \A i \in 0 .. n : i \in 0 .. n + 1 /\ h[i] = k[i]
  BY <1>2
<1>6. h \in [0 .. n -> Seq(Nat)]
  BY <1>1, <1>2, <1>5 DEF KeptValues
<1>7. ASSUME NEW i \in 1 .. n
      PROVE  KeptValue(r[i], h[i - 1], h[i])
  <2>1. i \in 1 .. n + 1 /\ i \in 0 .. n /\ i - 1 \in 0 .. n
    OBVIOUS
  <2>2. h[i] = k[i] /\ h[i - 1] = k[i - 1] /\ r[i] = s[i]
    BY <1>1, <1>3, <1>5, <2>1
  <2>3. QED
    BY <1>1, <2>1, <2>2 DEF KeptValues
<1>8. QED
  BY <1>1, <1>4, <1>6, <1>7 DEF KeptValues

\* What an action does to the changes of the thread that it is on.
LEMMA OwnSet ==
    ASSUME NEW s \in Seq(Changes), NEW p, NEW list, Own(s, p, list), s # <<>>,
           NEW c \in Changes, OwnOld(c), c.at # "announced", s[Len(s)].at # "announced",
           NEW r, r = [s EXCEPT ![Len(s)] = c]
    PROVE  Own(r, p, list)
<1>1. PICK n \in Nat : n = Len(s) /\ n \in 1 .. n
  <2>1. Len(s) \in Nat /\ Len(s) # 0
    OBVIOUS
  <2>2. QED
    BY <2>1
<1>2. Len(r) = n /\ r[n] = c /\ \A i \in 1 .. n : i # n => r[i] = s[i]
  BY <1>1
<1>3. \A i \in 1 .. n : OwnOld(r[i])
  BY <1>1, <1>2 DEF Own
<1>4. \A k : KeptValues(k, s, p) => KeptValues(k, r, p)
  BY KeptSet
<1>5. QED
  BY <1>2, <1>3, <1>4 DEF Own

LEMMA OwnObserver ==
    ASSUME KvoInv, Kvo!KvoAssumption, NEW t \in KvoThreads,
           Own(changes[t], PENDING_KVO_OLD_VALUES, KVO_OBSERVERS),
           Kvo!deliver_kvo_notification(t) \/ Kvo!ObserverReturns(t)
    PROVE  Own(changes'[t], PENDING_KVO_OLD_VALUES', KVO_OBSERVERS')
<1>1. PICK s, p, v, f, c, r :
              /\ KvoFacts(t, s, p, v) /\ s # <<>> /\ f = s[Len(s)] /\ c \in Changes
              /\ f.at # "announced" /\ c.at # "announced"
              /\ c.was = f.was /\ c.old = f.old /\ Kvo!ToSet(c.rest) \subseteq Kvo!ToSet(f.rest)
              /\ r = [s EXCEPT ![Len(s)] = c] /\ changes' = [changes EXCEPT ![t] = r]
              /\ UNCHANGED <<value, KVO_OBSERVERS, PENDING_KVO_OLD_VALUES>>
  BY ObserverCalled
<1>2. /\ s \in Seq(Changes) /\ Own(s, p, KVO_OBSERVERS) /\ p = PENDING_KVO_OLD_VALUES
      /\ Len(s) \in 1 .. Len(s)
  BY <1>1 DEF KvoFacts, ChangesOK
<1>3. OwnOld(c)
  <2>1. OwnOld(f)
    BY <1>1, <1>2 DEF Own
  <2>2. QED
    BY <1>1, <2>1 DEF OwnOld
<1>4. s[Len(s)].at # "announced"
  BY <1>1
<1>5. Own(r, p, KVO_OBSERVERS)
  BY <1>1, <1>2, <1>3, <1>4, OwnSet
<1>6. changes'[t] = r
  BY <1>1 DEF KvoInv, KvoTypes
<1>7. QED
  BY <1>1, <1>2, <1>5, <1>6

LEMMA OwnEnds ==
    ASSUME KvoInv, Kvo!KvoAssumption, NEW t \in KvoThreads,
           Own(changes[t], PENDING_KVO_OLD_VALUES, KVO_OBSERVERS), Kvo!didReturns(t)
    PROVE  Own(changes'[t], PENDING_KVO_OLD_VALUES', KVO_OBSERVERS')
<1>1. PICK s, p, v : KvoFacts(t, s, p, v)
  BY FactsOf
<1>2. PICK r : r = Kvo!Front(s)
  OBVIOUS
<1>3. /\ s # <<>> /\ s[Len(s)].at = "reporting" /\ changes' = [changes EXCEPT ![t] = r]
      /\ UNCHANGED <<value, KVO_OBSERVERS, PENDING_KVO_OLD_VALUES>>
  BY <1>1, <1>2 DEF Kvo!didReturns, KvoFacts
<1>4. Len(r) = Len(s) - 1 /\ \A i \in 1 .. Len(s) - 1 : r[i] = s[i]
  BY <1>1, <1>2, <1>3, ChangePopped DEF KvoFacts
<1>5. s \in Seq(Changes) /\ Own(s, p, KVO_OBSERVERS) /\ p = PENDING_KVO_OLD_VALUES
  BY <1>1 DEF KvoFacts, ChangesOK
<1>6. \A i \in 1 .. Len(r) : OwnOld(r[i])
  <2>1. \A i \in 1 .. Len(s) - 1 : i \in 1 .. Len(s)
    BY <1>5
  <2>2. QED
    BY <1>4, <1>5, <2>1 DEF Own
<1>7. \A k : KeptValues(k, s, p) => \E h : KeptValues(h, r, p)
  <2>1. s[Len(s)].at # "announced"
    BY <1>3
  <2>2. QED
    BY <1>3, <1>4, <1>5, <2>1, KeptPopped
<1>8. Own(r, p, KVO_OBSERVERS)
  BY <1>5, <1>6, <1>7 DEF Own
<1>9. changes'[t] = r
  BY <1>3 DEF KvoInv, KvoTypes
<1>10. QED
  BY <1>3, <1>5, <1>8, <1>9

LEMMA OwnAnnounced ==
    ASSUME KvoInv, Kvo!KvoAssumption, NEW t \in KvoThreads,
           Own(changes[t], PENDING_KVO_OLD_VALUES, KVO_OBSERVERS), Kvo!willChangeValueForKey(t)
    PROVE  Own(changes'[t], PENDING_KVO_OLD_VALUES', KVO_OBSERVERS')
<1>1. PICK s, p, v : KvoFacts(t, s, p, v)
  BY FactsOf
<1>2. PICK c : c = Kvo!Change("announced", value, Kvo!nil, <<>>)
  OBVIOUS
<1>3. PICK r : r = Append(s, c)
  OBVIOUS
<1>4. /\ changes' = [changes EXCEPT ![t] = r] /\ KVO_OBSERVERS' = KVO_OBSERVERS
      /\ PENDING_KVO_OLD_VALUES' = (IF Kvo!WantsOld THEN Append(p, v) ELSE p)
  BY <1>1, <1>2, <1>3 DEF Kvo!willChangeValueForKey, Kvo!KeepOld, KvoFacts
<1>5. c \in Changes /\ c.at = "announced" /\ c.was = v /\ OwnOld(c)
  <2>1. <<>> \in Seq(Entries) /\ v \in Nat /\ Kvo!ToSet(<<>>) = {}
    BY <1>1 DEF KvoFacts, Kvo!ToSet
  <2>2. c = [at |-> "announced", was |-> v, old |-> 0, rest |-> <<>>]
    BY <1>1, <1>2 DEF Kvo!Change, Kvo!nil, KvoFacts
  <2>3. c \in Changes /\ c.at = "announced" /\ c.was = v /\ c.rest = <<>>
    BY <2>1, <2>2 DEF Changes
  <2>4. QED
    BY <2>1, <2>3 DEF OwnOld
<1>6. /\ s \in Seq(Changes) /\ p \in Seq(Nat) /\ Own(s, p, KVO_OBSERVERS)
  BY <1>1 DEF KvoFacts, ChangesOK, PendingOK
<1>7. \A i \in 1 .. Len(r) : OwnOld(r[i])
  <2>1. PICK n \in Nat : n = Len(s)
    BY <1>6
  <2>2. Len(r) = n + 1 /\ r[n + 1] = c /\ \A i \in 1 .. n : r[i] = s[i]
    BY <1>3, <1>5, <1>6, <2>1
  <2>3. \A i \in 1 .. n + 1 : i = n + 1 \/ i \in 1 .. n
    BY <2>1
  <2>4. QED
    BY <1>5, <1>6, <2>1, <2>2, <2>3 DEF Own
<1>8. \A k : KeptValues(k, s, p) => \E h : KeptValues(h, r, Append(p, v))
  <2>1. ASSUME NEW k, KeptValues(k, s, p) PROVE \E h : KeptValues(h, r, Append(p, v))
    <3>1. \E h : KeptValues(h, Append(s, c), Append(p, c.was))
      BY <1>5, <1>6, <2>1, KeptPushed
    <3>2. QED
      BY <1>3, <1>5, <3>1
  <2>2. QED
    BY <2>1
<1>9. PICK q : q = PENDING_KVO_OLD_VALUES' /\ Own(r, q, KVO_OBSERVERS)
  <2>1. CASE Kvo!WantsOld
    <3>1. PICK k : KeptValues(k, s, p)
      BY <1>6, <2>1 DEF Own, Kvo!WantsOld
    <3>2. \E h : KeptValues(h, r, Append(p, v))
      BY <1>8, <3>1
    <3>3. Own(r, Append(p, v), KVO_OBSERVERS)
      BY <1>7, <3>2 DEF Own
    <3>4. QED
      BY <1>4, <2>1, <3>3
  <2>2. CASE ~ Kvo!WantsOld
    <3>1. Own(r, p, KVO_OBSERVERS)
      BY <1>7, <2>2 DEF Own, Kvo!WantsOld
    <3>2. QED
      BY <1>4, <2>2, <3>1
  <2>3. QED
    BY <2>1, <2>2
<1>10. changes'[t] = r
  BY <1>4 DEF KvoInv, KvoTypes
<1>11. QED
  BY <1>4, <1>9, <1>10

LEMMA OwnReported ==
    ASSUME KvoInv, Kvo!KvoAssumption, NEW t \in KvoThreads,
           Own(changes[t], PENDING_KVO_OLD_VALUES, KVO_OBSERVERS), Kvo!didChangeValueForKey(t)
    PROVE  Own(changes'[t], PENDING_KVO_OLD_VALUES', KVO_OBSERVERS')
<1>1. PICK s, p, v : KvoFacts(t, s, p, v)
  BY FactsOf
<1>2. /\ s # <<>> /\ s[Len(s)].at = "announced" /\ s \in Seq(Changes)
      /\ Own(s, p, KVO_OBSERVERS) /\ p = PENDING_KVO_OLD_VALUES
  BY <1>1 DEF Kvo!didChangeValueForKey, KvoFacts, ChangesOK
<1>3. PICK f : f = s[Len(s)] /\ f \in Changes
  BY <1>1, <1>2 DEF KvoFacts
<1>4. PICK w, o : w = f.was /\ o = Kvo!LastOld(p) /\ w \in Nat /\ o \in Nat
  <2>1. f.was \in Nat
    BY <1>3 DEF Changes
  <2>2. CASE p = <<>>
    BY <2>1, <2>2 DEF Kvo!LastOld, Kvo!nil
  <2>3. CASE p # <<>>
    <3>1. PICK q : q = Kvo!Front(p)
      OBVIOUS
    <3>2. Kvo!Last(p) \in 1 .. v
      BY <1>1, <2>3, <3>1, PendingTaken DEF KvoFacts
    <3>3. Kvo!Last(p) \in Nat
      BY <1>1, <3>2 DEF KvoFacts
    <3>4. QED
      BY <2>1, <2>3, <3>3 DEF Kvo!LastOld
  <2>4. QED
    BY <2>2, <2>3
<1>5. PICK c : c = Kvo!Change("reporting", w, o, KVO_OBSERVERS)
  OBVIOUS
<1>6. c \in Changes /\ c.at # "announced" /\ c.was = w /\ c.old = o /\ c.rest = KVO_OBSERVERS
  <2>1. c = [at |-> "reporting", was |-> w, old |-> o, rest |-> KVO_OBSERVERS]
    BY <1>5 DEF Kvo!Change
  <2>2. KVO_OBSERVERS \in Seq(Entries)
    BY <1>1 DEF KvoFacts
  <2>3. QED
    BY <1>4, <2>1, <2>2 DEF Changes
<1>7. PICK r, q : r = [s EXCEPT ![Len(s)] = c] /\ q = Kvo!TakeOld(p)
  OBVIOUS
<1>8. /\ changes' = [changes EXCEPT ![t] = r] /\ KVO_OBSERVERS' = KVO_OBSERVERS
      /\ PENDING_KVO_OLD_VALUES' = q
  BY <1>1, <1>2, <1>3, <1>4, <1>5, <1>7 DEF Kvo!didChangeValueForKey, KvoFacts
<1>9. ASSUME Kvo!WantsOld
      PROVE  c.old = c.was /\ \E h : KeptValues(h, r, q)
  <2>1. PICK k : KeptValues(k, s, p)
    BY <1>2, <1>9 DEF Own, Kvo!WantsOld
  <2>2. p # <<>> /\ Kvo!Last(p) = s[Len(s)].was /\ \E h : KeptValues(h, r, Kvo!Front(p))
    <3>1. /\ s[Len(s)].at # "announced" => KeptValues(k, r, p)
          /\ s[Len(s)].at = "announced" =>
                 /\ p # <<>> /\ Kvo!Last(p) = s[Len(s)].was
                 /\ \E h : KeptValues(h, r, Kvo!Front(p))
      <4>1. /\ s \in Seq(Changes) /\ s # <<>> /\ c \in Changes /\ c.at # "announced"
            /\ r = [s EXCEPT ![Len(s)] = c]
        BY <1>2, <1>6, <1>7
      <4>2. QED
        BY <2>1, <4>1, KeptSet
    <3>2. QED
      BY <1>2, <3>1
  <2>3. q = Kvo!Front(p) /\ o = Kvo!Last(p)
    BY <1>4, <1>7, <2>2 DEF Kvo!TakeOld, Kvo!LastOld
  <2>4. QED
    BY <1>3, <1>4, <1>6, <2>2, <2>3
<1>10. OwnOld(c)
  BY <1>6, <1>9 DEF OwnOld, Kvo!WantsOld
<1>11. \A i \in 1 .. Len(r) : OwnOld(r[i])
  <2>1. Len(r) = Len(s) /\ r[Len(s)] = c /\ \A i \in 1 .. Len(s) : i # Len(s) => r[i] = s[i]
    BY <1>2, <1>7
  <2>2. QED
    BY <1>2, <1>10, <2>1 DEF Own
<1>12. Own(r, q, KVO_OBSERVERS)
  BY <1>9, <1>11 DEF Own, Kvo!WantsOld
<1>13. changes'[t] = r
  BY <1>8 DEF KvoInv, KvoTypes
<1>14. QED
  BY <1>8, <1>12, <1>13

LEMMA OwnObservers ==
    ASSUME KvoInv, NEW t \in KvoThreads, KvoThreads = {t}, ~ RegisterInChange,
           NEW o \in Observers, NEW old \in BOOLEAN,
           Kvo!addObserver(o, old) \/ Kvo!removeObserver(o)
    PROVE  Own(changes'[t], PENDING_KVO_OLD_VALUES', KVO_OBSERVERS')
<1>1. changes[t] = <<>> /\ UNCHANGED <<PENDING_KVO_OLD_VALUES, changes>>
  BY DEF Kvo!addObserver, Kvo!removeObserver, Kvo!MayRegister
<1>2. PICK p : p = PENDING_KVO_OLD_VALUES /\ p \in Seq(Nat)
  BY DEF KvoInv, KvoTypes, PendingOK
<1>3. PICK k : k = [i \in 0 .. 0 |-> p]
  OBVIOUS
<1>4. KeptValues(k, <<>>, p)
  <2>1. k \in [0 .. 0 -> Seq(Nat)] /\ k[0] = p
    BY <1>2, <1>3
  <2>2. 0 = Len(<<>>) /\ \A i \in 1 .. 0 : FALSE
    OBVIOUS
  <2>3. QED
    BY <2>1, <2>2 DEF KeptValues
<1>5. Own(<<>>, p, KVO_OBSERVERS')
  BY <1>4 DEF Own
<1>6. QED
  BY <1>1, <1>2, <1>5

OwnInv(t) == KvoInv /\ Own(changes[t], PENDING_KVO_OLD_VALUES, KVO_OBSERVERS)

LEMMA OwnNext ==
    ASSUME Kvo!KvoAssumption, NEW t, KvoThreads = {t}, ~ RegisterInChange,
           OwnInv(t), [Kvo!Next]_(Kvo!vars)
    PROVE  OwnInv(t)'
<1>1. KvoInv /\ t \in KvoThreads /\ Own(changes[t], PENDING_KVO_OLD_VALUES, KVO_OBSERVERS)
  BY DEF OwnInv
<1>2. KvoInv'
  BY <1>1, KvoNext
<1>3. Own(changes'[t], PENDING_KVO_OLD_VALUES', KVO_OBSERVERS')
  <2>1. CASE UNCHANGED Kvo!vars
    BY <1>1, <2>1 DEF Kvo!vars
  <2>2. CASE Kvo!Assign(t)
    BY <1>1, <2>2 DEF Kvo!Assign
  <2>3. CASE \/ Kvo!willChangeValueForKey(t) \/ Kvo!didChangeValueForKey(t)
             \/ Kvo!deliver_kvo_notification(t) \/ Kvo!ObserverReturns(t) \/ Kvo!didReturns(t)
    BY <1>1, <2>3, OwnAnnounced, OwnReported, OwnObserver, OwnEnds
  <2>4. ASSUME NEW o \in Observers,
               Kvo!removeObserver(o) \/ \E old \in BOOLEAN : Kvo!addObserver(o, old)
        PROVE  Own(changes'[t], PENDING_KVO_OLD_VALUES', KVO_OBSERVERS')
    BY <1>1, <2>4, OwnObservers
  <2>5. QED
    BY <2>1, <2>2, <2>3, <2>4 DEF Kvo!Next
<1>4. QED
  BY <1>2, <1>3 DEF OwnInv

LEMMA OwnInit ==
    ASSUME Kvo!KvoAssumption, NEW t, KvoThreads = {t}, Kvo!Init
    PROVE  OwnInv(t)
<1>1. changes[t] = <<>> /\ KVO_OBSERVERS = <<>>
  BY DEF Kvo!Init
<1>2. Kvo!ToSet(<<>>) = {}
  BY DEF Kvo!ToSet
<1>3. Own(<<>>, PENDING_KVO_OLD_VALUES, <<>>)
  BY <1>2 DEF Own
<1>4. QED
  BY <1>1, <1>3, KvoInit DEF OwnInv

LEMMA OwnSound ==
    ASSUME NEW t, KvoThreads = {t}, OwnInv(t)
    PROVE  Kvo!OldIsOwn
<1>1. PICK s : s = changes[t] /\ s \in Seq(Changes) /\ \A i \in 1 .. Len(s) : OwnOld(s[i])
  BY DEF OwnInv, Own, KvoInv, KvoTypes, ChangesOK
<1>2. DOMAIN s = 1 .. Len(s)
  BY <1>1
<1>3. \A i \in DOMAIN s : (\E e \in Kvo!ToSet(s[i].rest) : e.old) => s[i].old = s[i].was
  BY <1>1, <1>2 DEF OwnOld
<1>4. QED
  BY <1>1, <1>3 DEF Kvo!OldIsOwn

\* On one thread, whose observers do not come or go while a change is open, an observer
\* that asked for the old value is told the one that its change began with, however
\* changes nest and whatever its methods assign (didChangeValueForKey: takes the last
\* value kept for the key).
THEOREM OldValueIsOwn ==
    ASSUME Kvo!KvoAssumption, NEW t, KvoThreads = {t}, ~ RegisterInChange
    PROVE  Kvo!Spec => []Kvo!OldIsOwn
<1>1. Kvo!Init => OwnInv(t)
  BY OwnInit
<1>2. OwnInv(t) /\ [Kvo!Next]_(Kvo!vars) => OwnInv(t)'
  BY OwnNext
<1>3. OwnInv(t) => Kvo!OldIsOwn
  BY OwnSound
<1>4. QED
  BY <1>1, <1>2, <1>3, PTL DEF Kvo!Spec

=============================================================================
