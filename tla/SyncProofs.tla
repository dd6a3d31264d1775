------------------------------ MODULE SyncProofs -----------------------------
(***************************************************************************)
(* Proofs about what threads wait for besides mutexes (read-write locks,   *)
(* pthread_once, named semaphores), about deferred work (dispatch,         *)
(* performed selectors, run loops, operations) and about NSThread.         *)
(*                                                                         *)
(* The read-write locks implement AbstractRwLock, and destroying one takes *)
(* its mutex away from nobody, for any number of locks, threads, mutexes.  *)
(*                                                                         *)
(* The guest may destroy a lock that is held or waited for: its word is    *)
(* wiped and no longer says which mutex the lock had. The invariant says   *)
(* that there is an assignment of mutexes to locks (Assigned), which       *)
(* outlives the words: who holds a lock holds its mutex, who waits for a   *)
(* lock waits for its mutex, and no two locks have the same one. A step    *)
(* keeps the assignment or gives a lock nobody uses a new mutex.           *)
(***************************************************************************)
EXTENDS RwLocks, Sequences, FiniteSetTheorems, SequenceTheorems,
        WellFoundedInduction, TLAPS

Waiters(id) == {t \in ThreadIds : blocked[t] = id}

Calls == [lock : Locks \cup {"none"}, mode : Modes \cup {"none"}]

\* f[l] is the mutex that lock l has, or had when its word was wiped.
Assigned(f) ==
    /\ f \in [Locks -> MutexIds \cup {NoMutex}]
    /\ \A l \in Locks : f[l] # NoMutex => f[l] < mutex_count
    /\ \A l \in Locks, m \in Locks : f[l] # NoMutex /\ f[l] = f[m] => l = m
    /\ \A l \in Locks : word[l].magic = "rwlock" =>
          /\ f[l] = word[l].rwlock_id /\ f[l] # NoMutex
          /\ Exists(mutexes, f[l])
    /\ \A l \in Locks : word[l].magic = "static" => f[l] = NoMutex
    /\ \A t \in ThreadIds : blocked[t] # NoMutex =>
          wants[t].lock \in Locks /\ wants[t].mode \in Modes
          /\ f[wants[t].lock] = blocked[t]
    /\ \A t \in ThreadIds, l \in Locks : held[t][l] # {} =>
          f[l] # NoMutex /\ mutexes[f[l]].locked_by = t

WaitersCounted == \A id \in MutexIds :
    /\ IsFiniteSet(Waiters(id))
    /\ mutexes[id].waiting_count = Cardinality(Waiters(id))
    /\ Waiters(id) # {} => Exists(mutexes, id)

RwInv == /\ TypeOK /\ wants \in [ThreadIds -> Calls]
         /\ WaitersCounted
         /\ \E f : Assigned(f)

(***************************************************************************)
(* One mutex and one thread                                                *)
(***************************************************************************)
\* The waiters of a mutex when one comes, goes, or none does.
LEMMA WaiterSets ==
    ASSUME WaitersCounted, NEW t \in ThreadIds, NEW id \in MutexIds,
           \A u \in ThreadIds \ {t} : blocked'[u] = blocked[u]
    PROVE  /\ mutexes[id].waiting_count \in Nat /\ IsFiniteSet(Waiters(id)')
           /\ (blocked'[t] = id <=> blocked[t] = id) =>
                Cardinality(Waiters(id)') = mutexes[id].waiting_count
           /\ blocked'[t] = id /\ blocked[t] # id =>
                Cardinality(Waiters(id)') = mutexes[id].waiting_count + 1
           /\ blocked'[t] # id /\ blocked[t] = id =>
                /\ mutexes[id].waiting_count > 0
                /\ Cardinality(Waiters(id)') = mutexes[id].waiting_count - 1
           /\ mutexes[id].waiting_count = 0 => \A u \in ThreadIds : blocked[u] # id
<1> DEFINE W == Waiters(id)
           n == mutexes[id].waiting_count
<1>1. IsFiniteSet(W) /\ n = Cardinality(W) /\ n \in Nat
  BY FS_CardinalityType DEF WaitersCounted
<1>2. W' = IF blocked'[t] = id THEN W \cup {t} ELSE W \ {t}
  BY DEF Waiters
<1>3. t \in W <=> blocked[t] = id
  BY DEF Waiters
<1>4. IsFiniteSet(W \cup {t}) /\ IsFiniteSet(W \ {t})
  BY <1>1, FS_AddElement, FS_RemoveElement
<1>5. Cardinality(W \cup {t}) = IF t \in W THEN n ELSE n + 1
  BY <1>1, FS_AddElement
<1>6. Cardinality(W \ {t}) = IF t \in W THEN n - 1 ELSE n
  BY <1>1, FS_RemoveElement
<1>7. Cardinality(W \ {t}) \in Nat
  BY <1>4, FS_CardinalityType
<1>8. n = 0 => \A u \in ThreadIds : blocked[u] # id
  BY <1>1, FS_EmptySet DEF Waiters
<1> HIDE DEF W, n
<1>9. IsFiniteSet(W') /\ n \in Nat
  BY <1>1, <1>2, <1>4
<1>10. CASE blocked'[t] = id
  BY <1>1, <1>2, <1>3, <1>5, <1>8, <1>9, <1>10 DEF W, n
<1>11. CASE blocked'[t] # id
  BY <1>1, <1>2, <1>3, <1>6, <1>7, <1>8, <1>9, <1>11 DEF W, n
<1>12. QED
  BY <1>10, <1>11

\* What a step that writes mutex id only, for thread t, has to say of its waiters.
LEMMA CountsKept ==
    ASSUME WaitersCounted, NEW t \in ThreadIds, NEW id \in MutexIds,
           \A u \in ThreadIds \ {t} : blocked'[u] = blocked[u],
           blocked[t] \in {NoMutex, id}, blocked'[t] \in {NoMutex, id},
           \A j \in MutexIds \ {id} : mutexes'[j] = mutexes[j],
           mutexes'[id].waiting_count = Cardinality(Waiters(id)'),
           Waiters(id)' # {} => mutexes'[id].type # "absent"
    PROVE  WaitersCounted'
<1> SUFFICES ASSUME NEW j \in MutexIds
             PROVE  /\ IsFiniteSet(Waiters(j)')
                    /\ mutexes'[j].waiting_count = Cardinality(Waiters(j)')
                    /\ Waiters(j)' # {} => Exists(mutexes', j)
  BY DEF WaitersCounted, Exists
<1>1. CASE j = id
  BY <1>1, WaiterSets DEF Exists
<1>2. CASE j # id
  <2>1. Waiters(j)' = Waiters(j)
    BY <1>2, NoneIsNobody DEF Waiters
  <2>2. QED
    BY <1>2, <2>1 DEF WaitersCounted, Exists
<1>3. QED
  BY <1>1, <1>2

(***************************************************************************)
(* A step that concerns one thread and one lock                            *)
(***************************************************************************)
Unused(l) == \A u \in ThreadIds : held[u][l] = {} /\
                (blocked[u] # NoMutex => wants[u].lock # l)

\* The lock l, which t calls, has mutex id after the step: the one it had, or a new
\* one if nobody uses the lock.
Assigns(f, g, l, id) ==
    /\ \/ g = f /\ f[l] = id
       \/ id = mutex_count /\ g = [f EXCEPT ![l] = id] /\ Unused(l)
    /\ mutex_count <= mutex_count' /\ id < mutex_count'

\* Nothing but what belongs to t, to l and to id changes.
Elsewhere(t, l, id) ==
    /\ \A j \in MutexIds \ {id} : mutexes'[j] = mutexes[j]
    /\ \A u \in ThreadIds \ {t} : blocked'[u] = blocked[u] /\ wants'[u] = wants[u]
    /\ \A u \in ThreadIds, m \in Locks :
          u # t \/ m # l => held'[u][m] = held[u][m]
    /\ \A m \in Locks \ {l} : word'[m] = word[m]

LockStep(t, l, id) ==
    /\ word'[l].magic # "static"
    /\ word'[l].magic = "rwlock" =>
          word'[l].rwlock_id = id /\ mutexes'[id].type # "absent"
    /\ \A u \in ThreadIds : held'[u][l] # {} => mutexes'[id].locked_by = u

WaitStep(t, l, id) ==
    /\ blocked[t] \in {NoMutex, id} /\ blocked'[t] \in {NoMutex, id}
    /\ blocked'[t] # NoMutex => wants'[t].lock = l /\ wants'[t].mode \in Modes
    /\ mutexes'[id].waiting_count = Cardinality(Waiters(id)')
    /\ Waiters(id)' # {} => mutexes'[id].type # "absent"

LEMMA StepKeeps ==
    ASSUME RwInv, NEW f, Assigned(f), TypeOK', wants' \in [ThreadIds -> Calls],
           NEW g, NEW t \in ThreadIds, NEW l \in Locks, NEW id \in MutexIds,
           Assigns(f, g, l, id), Elsewhere(t, l, id), LockStep(t, l, id),
           WaitStep(t, l, id)
    PROVE  RwInv'
<1> USE NoneIsNobody
<1>1. WaitersCounted'
  <2>1. WaitersCounted /\ \A u \in ThreadIds \ {t} : blocked'[u] = blocked[u]
    BY DEF RwInv, Elsewhere
  <2>2. /\ blocked[t] \in {NoMutex, id} /\ blocked'[t] \in {NoMutex, id}
        /\ \A j \in MutexIds \ {id} : mutexes'[j] = mutexes[j]
        /\ mutexes'[id].waiting_count = Cardinality(Waiters(id)')
        /\ Waiters(id)' # {} => mutexes'[id].type # "absent"
    BY DEF WaitStep, Elsewhere
  <2>3. QED
    BY <2>1, <2>2, CountsKept
<1>2. /\ mutex_count \in Nat /\ mutex_count' \in Nat /\ MutexIds \subseteq Nat
      /\ mutex_count <= mutex_count' /\ id < mutex_count'
  BY DEF RwInv, TypeOK, MutexTypeOK, MutexIds, Assigns
<1>3. /\ g \in [Locks -> MutexIds \cup {NoMutex}] /\ g[l] = id
      /\ \A m \in Locks \ {l} : g[m] = f[m]
  BY DEF Assigns, Assigned
<1>4. \A m \in Locks \ {l} : g[m] # id
  <2>1. CASE f[l] = id
    BY <1>3, <2>1 DEF Assigned
  <2>2. CASE id = mutex_count
    <3>1. \A m \in Locks : f[m] # NoMutex => f[m] < mutex_count
      BY DEF Assigned
    <3>2. \A m \in Locks \ {l} : f[m] # id
      BY <1>2, <2>2, <3>1
    <3>3. QED
      BY <1>3, <3>2
  <2>3. QED
    BY <2>1, <2>2 DEF Assigns
<1>5. \A m \in Locks : g[m] # NoMutex => g[m] < mutex_count'
  <2> SUFFICES ASSUME NEW m \in Locks, g[m] # NoMutex PROVE g[m] < mutex_count'
    OBVIOUS
  <2>1. CASE m = l
    BY <1>2, <1>3, <2>1
  <2>2. CASE m # l
    <3>1. f[m] = g[m] /\ f[m] # NoMutex
      BY <1>3, <2>2
    <3>2. f[m] < mutex_count /\ f[m] \in MutexIds
      BY <3>1 DEF Assigned
    <3>3. PICK k \in Nat : k = f[m] /\ k < mutex_count
      BY <1>2, <3>2
    <3>4. k < mutex_count'
      BY <1>2, <3>3
    <3>5. QED
      BY <3>1, <3>3, <3>4
  <2>3. QED
    BY <2>1, <2>2
<1>6. \A m \in Locks, k \in Locks : g[m] # NoMutex /\ g[m] = g[k] => m = k
  BY <1>3, <1>4 DEF Assigned
<1>7. \A m \in Locks : word'[m].magic = "rwlock" =>
          g[m] = word'[m].rwlock_id /\ g[m] # NoMutex /\ Exists(mutexes', g[m])
  <2> SUFFICES ASSUME NEW m \in Locks, word'[m].magic = "rwlock"
               PROVE  /\ g[m] = word'[m].rwlock_id /\ g[m] # NoMutex
                      /\ Exists(mutexes', g[m])
    OBVIOUS
  <2>1. CASE m = l
    BY <1>3, <2>1 DEF LockStep, Exists
  <2>2. CASE m # l
    <3>1. word'[m] = word[m]
      BY <2>2 DEF Elsewhere
    <3>2. /\ f[m] = word[m].rwlock_id /\ f[m] # NoMutex /\ Exists(mutexes, f[m])
          /\ f[m] \in MutexIds
      BY <3>1 DEF Assigned
    <3>3. mutexes'[f[m]] = mutexes[f[m]]
      BY <1>3, <1>4, <2>2, <3>2 DEF Elsewhere
    <3>4. QED
      BY <1>3, <2>2, <3>1, <3>2, <3>3 DEF Exists
  <2>3. QED
    BY <2>1, <2>2
<1>8. \A m \in Locks : word'[m].magic = "static" => g[m] = NoMutex
  BY <1>3 DEF LockStep, Elsewhere, Assigned
<1>9. \A u \in ThreadIds : blocked'[u] # NoMutex =>
          /\ wants'[u].lock \in Locks /\ wants'[u].mode \in Modes
          /\ g[wants'[u].lock] = blocked'[u]
  <2> SUFFICES ASSUME NEW u \in ThreadIds, blocked'[u] # NoMutex
               PROVE  /\ wants'[u].lock \in Locks /\ wants'[u].mode \in Modes
                      /\ g[wants'[u].lock] = blocked'[u]
    OBVIOUS
  <2>1. CASE u = t
    BY <1>3, <2>1 DEF WaitStep
  <2>2. CASE u # t
    <3>1. blocked'[u] = blocked[u] /\ wants'[u] = wants[u]
      BY <2>2 DEF Elsewhere
    <3>2. /\ wants[u].lock \in Locks /\ wants[u].mode \in Modes
          /\ f[wants[u].lock] = blocked[u]
      BY <3>1 DEF Assigned
    <3>3. g[wants[u].lock] = f[wants[u].lock]
      BY <3>1, <3>2, <1>3 DEF Assigns, Unused
    <3>4. QED
      BY <3>1, <3>2, <3>3
  <2>3. QED
    BY <2>1, <2>2
<1>10. \A u \in ThreadIds, m \in Locks : held'[u][m] # {} =>
          g[m] # NoMutex /\ mutexes'[g[m]].locked_by = u
  <2> SUFFICES ASSUME NEW u \in ThreadIds, NEW m \in Locks, held'[u][m] # {}
               PROVE  g[m] # NoMutex /\ mutexes'[g[m]].locked_by = u
    OBVIOUS
  <2>1. CASE m = l
    BY <1>3, <2>1 DEF LockStep
  <2>2. CASE m # l
    <3>1. held'[u][m] = held[u][m]
      BY <2>2 DEF Elsewhere
    <3>2. f[m] # NoMutex /\ mutexes[f[m]].locked_by = u /\ f[m] \in MutexIds
      BY <3>1 DEF Assigned
    <3>3. mutexes'[f[m]] = mutexes[f[m]]
      BY <1>3, <1>4, <2>2, <3>2 DEF Elsewhere
    <3>4. QED
      BY <1>3, <2>2, <3>2, <3>3
  <2>3. QED
    BY <2>1, <2>2
<1>11. Assigned(g)'
  BY <1>3, <1>5, <1>6, <1>7, <1>8, <1>9, <1>10 DEF Assigned, Exists
<1>12. QED
  BY <1>1, <1>11 DEF RwInv

(***************************************************************************)
(* What the steps look like                                                *)
(***************************************************************************)
\* t is granted l, which nobody holds; or unlocks it; or nobody's hold changes.
Granted(t, l, mode) ==
    /\ held' = [held EXCEPT ![t][l] = @ \cup {mode}] /\ mode \in Modes
    /\ \A u \in ThreadIds : held[u][l] = {}

Seen == \/ \E t \in ThreadIds, l \in Locks, mode \in Modes : Granted(t, l, mode)
        \/ \E t \in ThreadIds, l \in Locks : /\ held[t][l] # {}
                                             /\ held' = [held EXCEPT ![t][l] = {}]
        \/ UNCHANGED held

LEMMA InvFacts ==
    ASSUME RwInv
    PROVE  /\ MutexMapOK(mutexes) /\ mutex_count \in 0 .. MaxMutexes
           /\ word \in [Locks -> [magic : {"static", "rwlock", "wiped"},
                                  rwlock_id : MutexIds \cup {NoMutex}]]
           /\ blocked \in [ThreadIds -> MutexIds \cup {NoMutex}]
           /\ wants \in [ThreadIds -> Calls]
           /\ held \in [ThreadIds -> [Locks -> SUBSET Modes]]
           /\ WaitersCounted /\ MaxMutexes \in Nat
BY BoundsAssumption DEF RwInv, TypeOK, MutexTypeOK

\* A lock whose mutex is free is held by nobody.
LEMMA FreeUnheld ==
    ASSUME NEW f, Assigned(f), NEW l \in Locks,
           f[l] = NoMutex \/ ~mutex_is_locked(mutexes, f[l])
    PROVE  \A u \in ThreadIds : held[u][l] = {}
BY NoneIsNobody DEF Assigned, mutex_is_locked

\* A mutex that was not made yet has no waiters.
LEMMA FreshUnwaited ==
    ASSUME RwInv, NEW f, Assigned(f)
    PROVE  \A u \in ThreadIds : blocked[u] # mutex_count
<1>1. \A u \in ThreadIds : blocked[u] # NoMutex => blocked[u] < mutex_count
  BY DEF Assigned
<1>2. mutex_count \in Nat /\ NoMutex = -1
  BY DEF RwInv, TypeOK, MutexTypeOK, NoMutex
<1>3. QED
  BY <1>1, <1>2

\* The lock that Registered(l) has set up: one whose word names a mutex, or a new one.
LEMMA RegisteredFacts ==
    ASSUME RwInv, NEW f, Assigned(f), NEW l \in Locks, Usable(l)
    PROVE  LET r == Registered(l) IN
           /\ r.id \in MutexIds /\ r.count \in 0 .. MaxMutexes
           /\ mutex_count <= r.count /\ r.id < r.count
           /\ r.word \in [Locks -> [magic : {"static", "rwlock", "wiped"},
                                    rwlock_id : MutexIds \cup {NoMutex}]]
           /\ r.word[l].magic = "rwlock" /\ r.word[l].rwlock_id = r.id
           /\ \A m \in Locks \ {l} : r.word[m] = word[m]
           /\ MutexMapOK(r.mutexes) /\ Exists(r.mutexes, r.id)
           /\ \A j \in MutexIds \ {r.id} : r.mutexes[j] = mutexes[j]
           /\ r.mutexes[r.id].waiting_count = Cardinality(Waiters(r.id))
           /\ \A u \in ThreadIds : held[u][l] # {} => r.mutexes[r.id].locked_by = u
           /\ \/ f[l] = r.id
              \/ r.id = mutex_count /\ Unused(l)
<1> DEFINE r == Registered(l)
<1> USE InvFacts, NoneIsNobody
<1>1. CASE word[l].magic = "static"
  <2>1. PICK id \in MutexIds : id = mutex_count /\ mutex_count < MaxMutexes
    BY <1>1 DEF Usable, MutexIds
  <2>2. PICK m : m = init_mutex(mutexes, id, "NORMAL")
    OBVIOUS
  <2>3. Written(mutexes, m, id, Made("NORMAL", 0, NoThread, 0))
    BY <2>2, LifeMethods DEF MutexTypes
  <2>4. /\ MutexMapOK(m) /\ \A j \in MutexIds \ {id} : m[j] = mutexes[j]
        /\ m[id].type = "NORMAL" /\ m[id].waiting_count = 0
    BY <2>3, MadeChanged DEF Written, Edit
  <2>5. PICK wd : wd = [word EXCEPT ![l] = Word("rwlock", id)]
    OBVIOUS
  <2>6. /\ wd \in [Locks -> [magic : {"static", "rwlock", "wiped"},
                             rwlock_id : MutexIds \cup {NoMutex}]]
        /\ wd[l].magic = "rwlock" /\ wd[l].rwlock_id = id
        /\ \A k \in Locks \ {l} : wd[k] = word[k]
    BY <2>5 DEF Word
  <2>7. r = [word |-> wd, id |-> id, mutexes |-> m, count |-> id + 1]
    BY <1>1, <2>1, <2>2, <2>5 DEF Registered
  <2>8. f[l] = NoMutex /\ \A u \in ThreadIds : blocked[u] # id
    BY <1>1, <2>1, FreshUnwaited DEF Assigned
  <2>9. Unused(l)
    <3>1. \A u \in ThreadIds : held[u][l] = {}
      BY <2>8, FreeUnheld
    <3>2. \A u \in ThreadIds : blocked[u] # NoMutex => wants[u].lock # l
      BY <2>8 DEF Assigned
    <3>3. QED
      BY <3>1, <3>2 DEF Unused
  <2>10. 0 = Cardinality(Waiters(id))
    <3>1. Waiters(id) = {}
      BY <2>8 DEF Waiters
    <3>2. QED
      BY <3>1, FS_EmptySet
  <2>11. id + 1 \in 0 .. MaxMutexes /\ mutex_count <= id + 1 /\ id < id + 1
    BY <2>1 DEF MutexIds
  <2>12. /\ r.word = wd /\ r.id = id /\ r.mutexes = m /\ r.count = id + 1
    BY <2>7
  <2> HIDE DEF r
  <2>13. QED
    BY <2>1, <2>4, <2>6, <2>9, <2>10, <2>11, <2>12 DEF Exists, Unused, r
<1>2. CASE word[l].magic # "static"
  <2>1. word[l].magic = "rwlock"
    BY <1>2 DEF Usable
  <2>2. PICK id \in MutexIds : /\ id = word[l].rwlock_id /\ f[l] = id
                              /\ Exists(mutexes, id) /\ id < mutex_count
    BY <2>1 DEF Assigned
  <2>3. /\ r.word = word /\ r.id = id /\ r.mutexes = mutexes /\ r.count = mutex_count
    BY <1>2, <2>2 DEF Registered
  <2>4. mutexes[id].waiting_count = Cardinality(Waiters(id))
    BY DEF WaitersCounted
  <2>5. \A u \in ThreadIds : held[u][l] # {} => mutexes[id].locked_by = u
    BY <2>2 DEF Assigned
  <2> HIDE DEF r
  <2>6. QED
    BY <2>1, <2>2, <2>3, <2>4, <2>5 DEF r
<1>3. QED
  BY <1>1, <1>2

\* The lock that a call finds or sets up: its word wd names mutex id of the map ms.
Ready(l, id, ms, wd) ==
    /\ wd \in [Locks -> [magic : {"static", "rwlock", "wiped"},
                         rwlock_id : MutexIds \cup {NoMutex}]]
    /\ wd[l].magic = "rwlock" /\ wd[l].rwlock_id = id
    /\ \A m \in Locks \ {l} : wd[m] = word[m]
    /\ MutexMapOK(ms) /\ ms[id].type # "absent"
    /\ \A j \in MutexIds \ {id} : ms[j] = mutexes[j]
    /\ ms[id].waiting_count = Cardinality(Waiters(id))
    /\ \A u \in ThreadIds : held[u][l] # {} => ms[id].locked_by = u

LEMMA CallSetup ==
    ASSUME RwInv, NEW f, Assigned(f), NEW l \in Locks, Usable(l),
           mutex_count' = Registered(l).count
    PROVE  \E id, ms, wd, g :
               /\ id \in MutexIds /\ id = Registered(l).id /\ ms = Registered(l).mutexes
               /\ wd = Registered(l).word
               /\ Assigns(f, g, l, id) /\ Ready(l, id, ms, wd)
               /\ mutex_count' \in 0 .. MaxMutexes
<1>1. PICK r : r = Registered(l)
  OBVIOUS
<1>2. /\ r.id \in MutexIds /\ r.count \in 0 .. MaxMutexes
      /\ mutex_count <= r.count /\ r.id < r.count
      /\ Ready(l, r.id, r.mutexes, r.word)
      /\ \/ f[l] = r.id
         \/ r.id = mutex_count /\ Unused(l)
  BY <1>1, RegisteredFacts DEF Ready, Exists
<1>3. PICK g : \/ g = f /\ f[l] = r.id
               \/ r.id = mutex_count /\ g = [f EXCEPT ![l] = r.id] /\ Unused(l)
  <2>1. CASE f[l] = r.id
    BY <2>1
  <2>2. CASE r.id = mutex_count /\ Unused(l)
    BY <2>2
  <2>3. QED
    BY <1>2, <2>1, <2>2
<1>4. Assigns(f, g, l, r.id)
  BY <1>1, <1>2, <1>3 DEF Assigns
<1>5. QED
  BY <1>1, <1>2, <1>4

\* t takes the free mutex of l.
LEMMA TakeKeeps ==
    ASSUME RwInv, NEW f, Assigned(f), NEW g, NEW t \in ThreadIds, NEW l \in Locks,
           NEW id \in MutexIds, NEW ms, NEW wd, NEW mode \in Modes,
           Assigns(f, g, l, id), Ready(l, id, ms, wd),
           mutex_count' \in 0 .. MaxMutexes, word' = wd, Runs(t),
           ~mutex_is_locked(ms, id), mutexes' = take(ms, id, t), Grant(t, l, mode),
           UNCHANGED <<blocked, wants>>
    PROVE  RwInv' /\ Seen
<1> USE InvFacts, NoneIsNobody
<1>1. Written(ms, mutexes', id, Made(ms[id].type, ms[id].waiting_count, t, 1))
  BY LockMethods DEF Ready
<1>2. /\ MutexMapOK(mutexes') /\ \A j \in MutexIds \ {id} : mutexes'[j] = ms[j]
      /\ mutexes'[id].type = ms[id].type /\ mutexes'[id].locked_by = t
      /\ mutexes'[id].waiting_count = ms[id].waiting_count
  BY <1>1, MadeChanged DEF Written, Edit
<1>3. \A u \in ThreadIds : held[u][l] = {}
  BY DEF Ready, mutex_is_locked
<1>4. /\ held' \in [ThreadIds -> [Locks -> SUBSET Modes]]
      /\ \A u \in ThreadIds, m \in Locks : u # t \/ m # l => held'[u][m] = held[u][m]
  BY DEF Grant
<1>5. Seen
  BY <1>3 DEF Seen, Granted, Grant
<1>6. TypeOK' /\ wants' \in [ThreadIds -> Calls]
  BY <1>2, <1>4 DEF TypeOK, MutexTypeOK, Ready, MutexMapOK
<1>7. Elsewhere(t, l, id)
  BY <1>2, <1>4 DEF Elsewhere, Ready
<1>8. LockStep(t, l, id)
  BY <1>2, <1>3, <1>4 DEF LockStep, Ready
<1>9. WaitStep(t, l, id)
  <2>1. Waiters(id)' = Waiters(id)
    BY DEF Waiters
  <2>2. QED
    BY <1>2, <2>1 DEF WaitStep, Ready, Runs
<1>10. QED
  BY <1>5, <1>6, <1>7, <1>8, <1>9, StepKeeps

\* t finds the mutex of l locked, and does nothing but register l.
LEMMA RefusedKeeps ==
    ASSUME RwInv, NEW f, Assigned(f), NEW g, NEW t \in ThreadIds, NEW l \in Locks,
           NEW id \in MutexIds, NEW ms, NEW wd,
           Assigns(f, g, l, id), Ready(l, id, ms, wd),
           mutex_count' \in 0 .. MaxMutexes, word' = wd, Runs(t),
           mutexes' = ms, UNCHANGED <<blocked, wants, held>>
    PROVE  RwInv' /\ Seen
<1> USE InvFacts, NoneIsNobody
<1>1. TypeOK' /\ wants' \in [ThreadIds -> Calls]
  BY DEF TypeOK, MutexTypeOK, Ready, MutexMapOK
<1>2. Elsewhere(t, l, id) /\ LockStep(t, l, id)
  BY DEF Elsewhere, LockStep, Ready
<1>3. WaitStep(t, l, id)
  <2>1. Waiters(id)' = Waiters(id)
    BY DEF Waiters
  <2>2. QED
    BY <2>1 DEF WaitStep, Ready, Runs
<1>4. QED
  BY <1>1, <1>2, <1>3, StepKeeps DEF Seen

\* t waits for the mutex of l.
LEMMA BlockKeeps ==
    ASSUME RwInv, NEW f, Assigned(f), NEW g, NEW t \in ThreadIds, NEW l \in Locks,
           NEW id \in MutexIds, NEW ms, NEW wd, NEW mode \in Modes,
           Assigns(f, g, l, id), Ready(l, id, ms, wd),
           mutex_count' \in 0 .. MaxMutexes, word' = wd, Runs(t),
           mutexes' = add_waiter(ms, id), blocked' = [blocked EXCEPT ![t] = id],
           wants' = [wants EXCEPT ![t] = [lock |-> l, mode |-> mode]], UNCHANGED held
    PROVE  RwInv' /\ Seen
<1> USE InvFacts, NoneIsNobody
<1>1. Written(ms, mutexes', id,
          Made(ms[id].type, ms[id].waiting_count + 1, ms[id].locked_by, ms[id].lock_count))
  BY LockMethods DEF Ready
<1>2. /\ MutexMapOK(mutexes') /\ \A j \in MutexIds \ {id} : mutexes'[j] = ms[j]
      /\ mutexes'[id].type = ms[id].type /\ mutexes'[id].locked_by = ms[id].locked_by
      /\ mutexes'[id].waiting_count = ms[id].waiting_count + 1
  BY <1>1, MadeChanged DEF Written, Edit
<1>3. /\ blocked' \in [ThreadIds -> MutexIds \cup {NoMutex}] /\ blocked'[t] = id
      /\ wants' \in [ThreadIds -> Calls] /\ wants'[t].lock = l /\ wants'[t].mode = mode
      /\ \A u \in ThreadIds \ {t} : blocked'[u] = blocked[u] /\ wants'[u] = wants[u]
  BY DEF Calls
<1>4. TypeOK'
  BY <1>2, <1>3 DEF TypeOK, MutexTypeOK, Ready, MutexMapOK
<1>5. Elsewhere(t, l, id)
  BY <1>2, <1>3 DEF Elsewhere, Ready
<1>6. LockStep(t, l, id)
  BY <1>2 DEF LockStep, Ready
<1>7. WaitStep(t, l, id)
  <2>1. t \notin Waiters(id) /\ Waiters(id)' = Waiters(id) \cup {t}
    BY <1>3 DEF Waiters, Runs
  <2>2. IsFiniteSet(Waiters(id))
    BY DEF WaitersCounted
  <2>3. Cardinality(Waiters(id)') = Cardinality(Waiters(id)) + 1
    BY <2>1, <2>2, FS_AddElement
  <2>4. QED
    BY <1>2, <1>3, <2>3 DEF WaitStep, Ready, Runs
<1>8. QED
  BY <1>3, <1>4, <1>5, <1>6, <1>7, StepKeeps DEF Seen

LEMMA CallKeeps ==
    ASSUME RwInv, NEW t \in ThreadIds, NEW l \in Locks, NEW mode \in Modes,
           \/ lock_inner(t, l, mode) \/ trylock_inner(t, l, mode)
           \/ pthread_rwlock_destroy(t, l)
    PROVE  RwInv' /\ Seen
<1> USE InvFacts, NoneIsNobody
<1>1. PICK f : Assigned(f)
  BY DEF RwInv
<1>2. Usable(l) /\ Runs(t) /\ mutex_count' = Registered(l).count
  BY DEF lock_inner, trylock_inner, pthread_rwlock_destroy
<1>3. PICK id, ms, wd, g :
          /\ id \in MutexIds /\ id = Registered(l).id /\ ms = Registered(l).mutexes
          /\ wd = Registered(l).word
          /\ Assigns(f, g, l, id) /\ Ready(l, id, ms, wd)
          /\ mutex_count' \in 0 .. MaxMutexes
  BY <1>1, <1>2, CallSetup
<1>4. CASE lock_inner(t, l, mode)
  <2>1. LockInner(t, l, mode, Registered(l)) /\ word' = wd
    BY <1>3, <1>4 DEF lock_inner
  <2>2. CASE /\ ~mutex_is_locked(ms, id) /\ mutexes' = take(ms, id, t)
             /\ Grant(t, l, mode) /\ UNCHANGED <<blocked, wants>>
    BY <1>1, <1>2, <1>3, <2>1, <2>2, TakeKeeps
  <2>3. CASE mutexes' = ms /\ UNCHANGED <<blocked, wants, held>>
    BY <1>1, <1>2, <1>3, <2>1, <2>3, RefusedKeeps
  <2>4. CASE /\ mutexes' = add_waiter(ms, id) /\ blocked' = [blocked EXCEPT ![t] = id]
             /\ wants' = [wants EXCEPT ![t] = [lock |-> l, mode |-> mode]]
             /\ UNCHANGED held
    BY <1>1, <1>2, <1>3, <2>1, <2>4, BlockKeeps
  <2>5. QED
    BY <1>3, <2>1, <2>2, <2>3, <2>4 DEF LockInner
<1>5. CASE trylock_inner(t, l, mode)
  <2>1. /\ word' = wd /\ UNCHANGED <<blocked, wants>>
        /\ IF mutex_is_locked(ms, id) THEN mutexes' = ms /\ UNCHANGED held
           ELSE mutexes' = take(ms, id, t) /\ Grant(t, l, mode)
    BY <1>3, <1>5 DEF trylock_inner
  <2>2. CASE mutex_is_locked(ms, id)
    BY <1>1, <1>2, <1>3, <2>1, <2>2, RefusedKeeps
  <2>3. CASE ~mutex_is_locked(ms, id)
    BY <1>1, <1>2, <1>3, <2>1, <2>3, TakeKeeps
  <2>4. QED
    BY <2>2, <2>3
<1>6. CASE pthread_rwlock_destroy(t, l)
  <2>1. /\ mutexes' = Destroyed(ms, id) /\ UNCHANGED <<blocked, wants, held>>
        /\ word' = [word EXCEPT ![l] = Word("wiped", NoMutex)]
    BY <1>3, <1>6 DEF pthread_rwlock_destroy
  <2>2. /\ word' \in [Locks -> [magic : {"static", "rwlock", "wiped"},
                                rwlock_id : MutexIds \cup {NoMutex}]]
        /\ word'[l].magic = "wiped" /\ \A m \in Locks \ {l} : word'[m] = word[m]
    BY <1>3, <2>1 DEF Ready, Word
  <2>3. /\ MutexMapOK(mutexes') /\ \A j \in MutexIds \ {id} : mutexes'[j] = ms[j]
        /\ mutexes'[id].waiting_count = ms[id].waiting_count
        /\ ms[id].waiting_count # 0 => mutexes'[id].type = ms[id].type
        /\ ms[id].locked_by # NoThread => mutexes'[id].locked_by = ms[id].locked_by
    <3>1. CASE destroy_refused(ms, id)
      BY <1>3, <2>1, <3>1 DEF Destroyed, Ready
    <3>2. CASE ~destroy_refused(ms, id)
      <4>1. Written(ms, mutexes', id, Made("absent", 0, NoThread, 0))
        BY <1>3, <2>1, <3>2, LifeMethods DEF Destroyed, Ready
      <4>2. QED
        BY <3>2, <4>1, MadeChanged DEF Written, Edit, destroy_refused, mutex_is_locked
    <3>3. QED
      BY <3>1, <3>2
  <2>4. TypeOK' /\ wants' \in [ThreadIds -> Calls]
    BY <1>3, <2>1, <2>2, <2>3 DEF TypeOK, MutexTypeOK, MutexMapOK
  <2>5. Elsewhere(t, l, id)
    BY <1>3, <2>1, <2>2, <2>3 DEF Elsewhere, Ready
  <2>6. LockStep(t, l, id)
    BY <1>3, <2>1, <2>2, <2>3 DEF LockStep, Ready
  <2>7. WaitStep(t, l, id)
    <3>1. Waiters(id)' = Waiters(id)
      BY <2>1 DEF Waiters
    <3>2. Waiters(id) # {} => ms[id].waiting_count # 0
      BY <1>3, FS_EmptySet DEF Ready, WaitersCounted
    <3>3. QED
      BY <1>2, <1>3, <2>1, <2>3, <3>1, <3>2 DEF WaitStep, Ready, Runs
  <2>8. Seen
    BY <2>1 DEF Seen
  <2>9. QED
    BY <1>1, <1>3, <2>4, <2>5, <2>6, <2>7, <2>8, StepKeeps
<1>7. QED
  BY <1>4, <1>5, <1>6

LEMMA InitKeeps ==
    ASSUME RwInv, NEW t \in ThreadIds, NEW l \in Locks, pthread_rwlock_init(t, l)
    PROVE  RwInv' /\ Seen
<1> USE InvFacts, NoneIsNobody
<1>1. PICK f : Assigned(f)
  BY DEF RwInv
<1>2. PICK id \in MutexIds : id = mutex_count /\ id < MaxMutexes
  BY DEF pthread_rwlock_init, MutexIds
<1>3. /\ mutexes' = init_mutex(mutexes, id, "NORMAL") /\ mutex_count' = id + 1
      /\ word' = [word EXCEPT ![l] = Word("rwlock", id)]
      /\ UNCHANGED <<blocked, wants, held>> /\ ~InUse(l) /\ blocked[t] = NoMutex
  BY <1>2 DEF pthread_rwlock_init, Runs
<1>5. PICK g : g = [f EXCEPT ![l] = id]
  OBVIOUS
<1>6. Written(mutexes, mutexes', id, Made("NORMAL", 0, NoThread, 0))
  BY <1>3, LifeMethods DEF MutexTypes
<1>7. /\ MutexMapOK(mutexes') /\ \A j \in MutexIds \ {id} : mutexes'[j] = mutexes[j]
      /\ mutexes'[id].type = "NORMAL" /\ mutexes'[id].waiting_count = 0
  BY <1>6, MadeChanged DEF Written, Edit
<1>8. /\ word' \in [Locks -> [magic : {"static", "rwlock", "wiped"},
                              rwlock_id : MutexIds \cup {NoMutex}]]
      /\ word'[l].magic = "rwlock" /\ word'[l].rwlock_id = id
      /\ \A m \in Locks \ {l} : word'[m] = word[m]
  BY <1>3 DEF Word
<1>9. Assigns(f, g, l, id)
  BY <1>2, <1>3, <1>5 DEF Assigns, Unused, InUse, MutexIds
<1>10. mutex_count' \in 0 .. MaxMutexes
  BY <1>2, <1>3
<1>11. TypeOK' /\ wants' \in [ThreadIds -> Calls]
  BY <1>3, <1>7, <1>8, <1>10 DEF TypeOK, MutexTypeOK, MutexMapOK
<1>12. \A u \in ThreadIds : blocked'[u] # id /\ held'[u][l] = {}
  BY <1>1, <1>2, <1>3, FreshUnwaited DEF InUse
<1>13. Waiters(id)' = {} /\ Cardinality(Waiters(id)') = 0
  <2>1. Waiters(id)' = {}
    BY <1>12 DEF Waiters
  <2>2. QED
    BY <2>1, FS_EmptySet
<1>14. Elsewhere(t, l, id) /\ LockStep(t, l, id)
  BY <1>3, <1>7, <1>8, <1>12 DEF Elsewhere, LockStep
<1>15. WaitStep(t, l, id)
  BY <1>3, <1>7, <1>13 DEF WaitStep
<1>16. QED
  BY <1>1, <1>3, <1>9, <1>11, <1>14, <1>15, StepKeeps DEF Seen

LEMMA UnlockKeeps ==
    ASSUME RwInv, NEW t \in ThreadIds, NEW l \in Locks, pthread_rwlock_unlock(t, l)
    PROVE  RwInv' /\ Seen
<1> USE InvFacts, NoneIsNobody
<1>1. PICK f : Assigned(f)
  BY DEF RwInv
<1>2. /\ blocked[t] = NoMutex /\ held[t][l] # {} /\ word[l].magic = "rwlock"
      /\ held' = [held EXCEPT ![t][l] = {}]
      /\ UNCHANGED <<mutex_count, word, blocked, wants>>
  BY DEF pthread_rwlock_unlock, Runs
<1>3. PICK id \in MutexIds : /\ id = word[l].rwlock_id /\ f[l] = id
                            /\ mutexes[id].type # "absent" /\ id < mutex_count
                            /\ mutexes[id].locked_by = t
  BY <1>1, <1>2 DEF Assigned, Exists
<1>4. /\ mutex_is_locked(mutexes, id) /\ mutexes' = unlock_mutex(mutexes, id)
  BY <1>3 DEF pthread_rwlock_unlock, mutex_is_locked
<1>5. PICK b, n : Written(mutexes, mutexes', id,
                          Made(mutexes[id].type, mutexes[id].waiting_count, b, n))
  <2>1. CASE mutexes[id].lock_count = 1
    BY <1>4, <2>1, LockMethods
  <2>2. CASE mutexes[id].lock_count # 1
    BY <1>4, <2>2, LockMethods
  <2>3. QED
    BY <2>1, <2>2
<1>6. /\ MutexMapOK(mutexes') /\ \A j \in MutexIds \ {id} : mutexes'[j] = mutexes[j]
      /\ mutexes'[id].type = mutexes[id].type
      /\ mutexes'[id].waiting_count = mutexes[id].waiting_count
  BY <1>5, MadeChanged DEF Written, Edit
<1>7. /\ held' \in [ThreadIds -> [Locks -> SUBSET Modes]]
      /\ \A u \in ThreadIds, m \in Locks : u # t \/ m # l => held'[u][m] = held[u][m]
      /\ held'[t][l] = {}
  BY <1>2
<1>8. \A u \in ThreadIds : held'[u][l] = {}
  BY <1>1, <1>3, <1>7 DEF Assigned
<1>9. Assigns(f, f, l, id)
  BY <1>2, <1>3 DEF Assigns
<1>10. TypeOK' /\ wants' \in [ThreadIds -> Calls]
  BY <1>2, <1>6, <1>7 DEF TypeOK, MutexTypeOK, MutexMapOK
<1>11. Elsewhere(t, l, id) /\ LockStep(t, l, id)
  BY <1>2, <1>3, <1>6, <1>7, <1>8 DEF Elsewhere, LockStep
<1>12. WaitStep(t, l, id)
  <2>1. Waiters(id)' = Waiters(id)
    BY <1>2 DEF Waiters
  <2>2. QED
    BY <1>2, <1>3, <1>6, <2>1 DEF WaitStep, WaitersCounted
<1>13. Seen
  BY <1>2 DEF Seen
<1>14. QED
  BY <1>1, <1>9, <1>10, <1>11, <1>12, <1>13, StepKeeps

LEMMA RelockKeeps ==
    ASSUME RwInv, NEW t \in ThreadIds, relock_unblocked_mutex(t)
    PROVE  RwInv' /\ Seen
<1> USE InvFacts, NoneIsNobody
<1>1. PICK f : Assigned(f)
  BY DEF RwInv
<1>2. PICK l, mode, id : /\ l = wants[t].lock /\ mode = wants[t].mode
                         /\ id = blocked[t]
  OBVIOUS
<1>3. /\ id # NoMutex /\ id \in MutexIds /\ l \in Locks /\ mode \in Modes /\ f[l] = id
      /\ id < mutex_count
  BY <1>1, <1>2 DEF relock_unblocked_mutex, Runs, Assigned
<1>4. /\ ~mutex_is_locked(mutexes, id) /\ mutexes' = relock(mutexes, id, t)
      /\ blocked' = [blocked EXCEPT ![t] = NoMutex]
      /\ wants' = [wants EXCEPT ![t] = NoCall]
      /\ held' = [held EXCEPT ![t][l] = @ \cup {mode}]
      /\ UNCHANGED <<mutex_count, word>>
  BY <1>2 DEF relock_unblocked_mutex, Grant
<1>5. /\ blocked' \in [ThreadIds -> MutexIds \cup {NoMutex}] /\ blocked'[t] = NoMutex
      /\ wants' \in [ThreadIds -> Calls]
      /\ \A u \in ThreadIds \ {t} : blocked'[u] = blocked[u] /\ wants'[u] = wants[u]
      /\ held' \in [ThreadIds -> [Locks -> SUBSET Modes]]
      /\ \A u \in ThreadIds, m \in Locks : u # t \/ m # l => held'[u][m] = held[u][m]
  BY <1>3, <1>4 DEF Calls, NoCall
<1>6. /\ mutexes[id].waiting_count > 0
      /\ Cardinality(Waiters(id)') = mutexes[id].waiting_count - 1
  BY <1>2, <1>3, <1>5, WaiterSets
<1>7. /\ MutexMapOK(mutexes') /\ \A j \in MutexIds \ {id} : mutexes'[j] = mutexes[j]
      /\ mutexes'[id].type = mutexes[id].type /\ mutexes'[id].locked_by = t
      /\ mutexes'[id].waiting_count = mutexes[id].waiting_count - 1
  <2>1. Written(mutexes, mutexes', id, Made(mutexes[id].type,
            IF mutexes[id].waiting_count > 0 THEN mutexes[id].waiting_count - 1 ELSE 0,
            t, 1))
    BY <1>3, <1>4, LockMethods
  <2>2. QED
    BY <1>6, <2>1, MadeChanged DEF Written, Edit
<1>8. mutexes[id].type # "absent"
  BY <1>2, <1>3 DEF WaitersCounted, Waiters, Exists
<1>9. \A u \in ThreadIds : held[u][l] = {}
  BY <1>1, <1>3, <1>4, FreeUnheld
<1>10. Assigns(f, f, l, id)
  BY <1>3, <1>4 DEF Assigns
<1>11. TypeOK'
  BY <1>4, <1>5, <1>7 DEF TypeOK, MutexTypeOK, MutexMapOK
<1>12. Elsewhere(t, l, id)
  BY <1>4, <1>5, <1>7 DEF Elsewhere
<1>13. LockStep(t, l, id)
  BY <1>1, <1>3, <1>4, <1>5, <1>7, <1>8, <1>9 DEF LockStep, Assigned
<1>14. WaitStep(t, l, id)
  BY <1>2, <1>5, <1>6, <1>7, <1>8 DEF WaitStep
<1>15. Seen
  BY <1>3, <1>4, <1>9 DEF Seen, Granted
<1>16. QED
  BY <1>1, <1>3, <1>5, <1>10, <1>11, <1>12, <1>13, <1>14, <1>15, StepKeeps

LEMMA RwInvInit == Init => RwInv /\ Abstract!Init
<1> SUFFICES ASSUME Init PROVE RwInv /\ Abstract!Init
  OBVIOUS
<1> USE NoneIsNobody DEF Init, MutexInit
<1>1. \A id \in MutexIds : /\ WellFormed(mutexes[id]) /\ mutexes[id].waiting_count = 0
  <2>1. WellFormed(Made("absent", 0, NoThread, 0))
    <3>1. "absent" \in MutexTypes \cup {"absent"} /\ NoThread \in ThreadIds \cup {NoThread}
          /\ 0 \in Nat /\ (NoThread = NoThread <=> 0 = 0)
      OBVIOUS
    <3>2. QED
      BY <3>1, MakeMutex, Zenon
  <2>2. \A id \in MutexIds : mutexes[id] = Made("absent", 0, NoThread, 0)
    BY DEF Free, Made
  <2>3. QED
    BY <2>1, <2>2, MadeChanged
<1>2. TypeOK /\ wants \in [ThreadIds -> Calls]
  <2>1. MutexMapOK(mutexes)
    BY <1>1 DEF MutexMapOK, WellFormed
  <2>2. mutex_count \in 0 .. MaxMutexes
    BY BoundsAssumption
  <2>3. QED
    BY <2>1, <2>2 DEF TypeOK, MutexTypeOK, Word, Calls, NoCall
<1>3. WaitersCounted
  <2>1. \A id \in MutexIds : Waiters(id) = {}
    BY DEF Waiters
  <2>2. QED
    BY <1>1, <2>1, FS_EmptySet DEF WaitersCounted
<1>4. Assigned([l \in Locks |-> NoMutex])
  BY DEF Assigned, Word
<1>5. Abstract!Init
  BY DEF Abstract!Init
<1>6. QED
  BY <1>2, <1>3, <1>4, <1>5 DEF RwInv

LEMMA RwInvNext == RwInv /\ [Next]_vars => RwInv' /\ Seen
<1> SUFFICES ASSUME RwInv, [Next]_vars PROVE RwInv' /\ Seen
  OBVIOUS
<1>1. ASSUME NEW t \in ThreadIds, NEW l \in Locks, pthread_rwlock_init(t, l)
      PROVE  RwInv' /\ Seen
  BY <1>1, InitKeeps
<1>2. ASSUME NEW t \in ThreadIds, NEW l \in Locks, NEW mode \in Modes,
             lock_inner(t, l, mode) \/ trylock_inner(t, l, mode)
      PROVE  RwInv' /\ Seen
  BY <1>2, CallKeeps
<1>3. ASSUME NEW t \in ThreadIds, NEW l \in Locks, pthread_rwlock_destroy(t, l)
      PROVE  RwInv' /\ Seen
  BY <1>3, CallKeeps DEF Modes
<1>4. ASSUME NEW t \in ThreadIds, NEW l \in Locks, pthread_rwlock_unlock(t, l)
      PROVE  RwInv' /\ Seen
  BY <1>4, UnlockKeeps
<1>5. ASSUME NEW t \in ThreadIds, relock_unblocked_mutex(t)
      PROVE  RwInv' /\ Seen
  BY <1>5, RelockKeeps
<1>6. CASE UNCHANGED vars
  <2>1. UNCHANGED <<mutexes, mutex_count, word, blocked, wants, held>>
    BY <1>6 DEF vars, mutexVars
  <2>2. TypeOK' /\ WaitersCounted'
    BY <2>1 DEF RwInv, TypeOK, MutexTypeOK, MutexMapOK, WaitersCounted, Waiters, Exists
  <2>3. \A f : Assigned(f) => Assigned(f)'
    BY <2>1 DEF Assigned, Exists
  <2>4. QED
    BY <2>1, <2>2, <2>3 DEF RwInv, Seen
<1>7. QED
  BY <1>1, <1>2, <1>3, <1>4, <1>5, <1>6 DEF Next

(***************************************************************************)
(* Every step is one of AbstractRwLock, or none                            *)
(***************************************************************************)
Readers == [l \in Locks |-> {t \in ThreadIds : "read" \in held[t][l]}]
Writers == [l \in Locks |-> {t \in ThreadIds : "write" \in held[t][l]}]

LEMMA SeenIsAbstract ==
    ASSUME RwInv, RwInv', Seen
    PROVE  [Abstract!Next]_(Abstract!vars)
<1> USE InvFacts
<1>1. CASE \E t \in ThreadIds, l \in Locks, mode \in Modes : Granted(t, l, mode)
  <2>1. PICK t \in ThreadIds, l \in Locks, mode \in Modes : Granted(t, l, mode)
    BY <1>1
  <2>2. /\ held' = [held EXCEPT ![t][l] = @ \cup {mode}]
        /\ \A u \in ThreadIds : held[u][l] = {}
        /\ \A u \in ThreadIds, m \in Locks :
              held'[u][m] = IF u = t /\ m = l THEN {mode} ELSE held[u][m]
    BY <2>1 DEF Granted
  <2>3. Readers[l] = {} /\ Writers[l] = {}
    BY <2>2 DEF Readers, Writers
  <2>4. CASE mode = "read"
    <3>1. \A u \in ThreadIds, m \in Locks :
              /\ "read" \in held'[u][m] <=> "read" \in held[u][m] \/ (u = t /\ m = l)
              /\ "write" \in held'[u][m] <=> "write" \in held[u][m]
      BY <2>2, <2>4
    <3>2. Readers' = [Readers EXCEPT ![l] = @ \cup {t}]
      BY <3>1 DEF Readers
    <3>3. Writers' = Writers
      BY <3>1 DEF Writers
    <3>4. Abstract!AcquireRead(t, l)
      BY <2>3, <3>2, <3>3 DEF Abstract!AcquireRead, Readers, Writers
    <3>5. QED
      BY <3>4 DEF Abstract!Next
  <2>5. CASE mode = "write"
    <3>1. \A u \in ThreadIds, m \in Locks :
              /\ "read" \in held'[u][m] <=> "read" \in held[u][m]
              /\ "write" \in held'[u][m] <=> "write" \in held[u][m] \/ (u = t /\ m = l)
      BY <2>2, <2>5
    <3>2. Readers' = Readers
      BY <3>1 DEF Readers
    <3>3. Writers' = [Writers EXCEPT ![l] = {t}]
      <4>1. Writers' = [m \in Locks |-> {u \in ThreadIds : "write" \in held'[u][m]}]
        BY DEF Writers
      <4>2. \A m \in Locks : {u \in ThreadIds : "write" \in held'[u][m]}
                               = IF m = l THEN {t} ELSE Writers[m]
        BY <2>3, <3>1 DEF Writers
      <4>3. QED
        BY <4>1, <4>2 DEF Writers
    <3>4. Abstract!AcquireWrite(t, l)
      BY <2>3, <3>2, <3>3 DEF Abstract!AcquireWrite, Readers, Writers
    <3>5. QED
      BY <3>4 DEF Abstract!Next
  <2>6. QED
    BY <2>4, <2>5 DEF Modes
<1>2. CASE \E t \in ThreadIds, l \in Locks : /\ held[t][l] # {}
                                             /\ held' = [held EXCEPT ![t][l] = {}]
  <2>1. PICK t \in ThreadIds, l \in Locks : /\ held[t][l] # {}
                                            /\ held' = [held EXCEPT ![t][l] = {}]
    BY <1>2
  <2>2. \A u \in ThreadIds, m \in Locks :
            held'[u][m] = IF u = t /\ m = l THEN {} ELSE held[u][m]
    BY <2>1
  <2>3. t \in Readers[l] \cup Writers[l]
    BY <2>1 DEF Readers, Writers, Modes
  <2>4. Readers' = [Readers EXCEPT ![l] = @ \ {t}]
    <3>1. \A m \in Locks : {u \in ThreadIds : "read" \in held'[u][m]}
                             = IF m = l THEN Readers[l] \ {t} ELSE Readers[m]
      BY <2>2 DEF Readers
    <3>2. Readers' = [m \in Locks |-> {u \in ThreadIds : "read" \in held'[u][m]}]
      BY DEF Readers
    <3>3. QED
      BY <3>1, <3>2 DEF Readers
  <2>5. Writers' = [Writers EXCEPT ![l] = @ \ {t}]
    <3>1. \A m \in Locks : {u \in ThreadIds : "write" \in held'[u][m]}
                             = IF m = l THEN Writers[l] \ {t} ELSE Writers[m]
      BY <2>2 DEF Writers
    <3>2. Writers' = [m \in Locks |-> {u \in ThreadIds : "write" \in held'[u][m]}]
      BY DEF Writers
    <3>3. QED
      BY <3>1, <3>2 DEF Writers
  <2>6. Abstract!Release(t, l)
    BY <2>3, <2>4, <2>5 DEF Abstract!Release, Readers, Writers
  <2>7. QED
    BY <2>6 DEF Abstract!Next
<1>3. CASE UNCHANGED held
  BY <1>3 DEF Abstract!vars
<1>4. QED
  BY <1>1, <1>2, <1>3 DEF Seen

LEMMA KeptFromInv == RwInv => MutexesKept
<1> SUFFICES ASSUME RwInv PROVE MutexesKept
  OBVIOUS
<1>1. \A id \in MutexIds :
          LET waiting == {t \in ThreadIds : blocked[t] = id} IN
          /\ mutexes[id].waiting_count = Cardinality(waiting)
          /\ waiting # {} => Exists(mutexes, id)
  BY DEF RwInv, WaitersCounted, Waiters
<1>2. PICK f : Assigned(f)
  BY DEF RwInv
<1>3. ASSUME NEW t \in ThreadIds, NEW l \in Locks, held[t][l] # {}
      PROVE  \E id \in MutexIds : /\ mutexes[id].locked_by = t
                                  /\ word[l].magic = "rwlock" => word[l].rwlock_id = id
  <2>1. f[l] \in MutexIds /\ mutexes[f[l]].locked_by = t
        /\ (word[l].magic = "rwlock" => word[l].rwlock_id = f[l])
    BY <1>2, <1>3 DEF Assigned
  <2>2. QED
    BY <2>1
<1>4. QED
  BY <1>1, <1>3 DEF MutexesKept

(***************************************************************************)
(* The theorems                                                            *)
(***************************************************************************)
\* pthread_rwlock_destroy takes the mutex of a lock away from nobody: what a thread
\* waits for exists and counts it, and what a thread holds is locked by it and is the
\* mutex that the lock's word names, unless the word was wiped.
THEOREM RwMutexesKept == Spec => [](TypeOK /\ MutexesKept)
<1>1. RwInv => TypeOK /\ MutexesKept
  BY KeptFromInv DEF RwInv
<1>2. Init => RwInv
  BY RwInvInit
<1>3. RwInv /\ [Next]_vars => RwInv'
  BY RwInvNext
<1>4. QED
  BY <1>1, <1>2, <1>3, PTL DEF Spec

\* The read-write locks of rwlock.rs exclude as AbstractRwLock says: a writer is alone
\* with the lock and no reader comes while there is one, however locks are destroyed,
\* made again, tried and waited for.
THEOREM RwLocksImplement == Spec => Implements
<1>1. Init => RwInv /\ Abstract!Init
  BY RwInvInit
<1>2. RwInv /\ [Next]_vars => RwInv' /\ [Abstract!Next]_(Abstract!vars)
  BY RwInvNext, SeenIsAbstract
<1>3. QED
  BY <1>1, <1>2, PTL DEF Spec, Implements, Abstract!Spec

(***************************************************************************)
(* pthread_once                                                            *)
(***************************************************************************)
CONSTANTS OnceThreads, Controls, RoutineDepth
VARIABLES magic, init, routines, begun, passed
Control == INSTANCE PthreadOnce WITH Threads <- OnceThreads, MaxDepth <- RoutineDepth

\* The routine of a control was called if and only if its word is complete, and
\* every routine somebody is in was called.
OnceInv ==
    /\ magic \in SUBSET Controls /\ init \in SUBSET Controls
    /\ DOMAIN begun = Controls
    /\ \A c \in Controls : begun[c] \in {0, 1} /\ (begun[c] = 1 => c \in magic \cap init)
    /\ \A c \in Controls : c \in magic \cap init => begun[c] = 1
    /\ \A t \in OnceThreads, c \in Controls : <<t, c>> \in passed => begun[c] = 1
    /\ routines \in [OnceThreads -> Seq(Controls)]
    /\ \A t \in OnceThreads : \A i \in DOMAIN routines[t] : begun[routines[t][i]] = 1

\* The routine of a control is called once, whatever was in its memory, however
\* often the routine comes to it again and whoever comes in the meantime; nobody
\* returns from pthread_once before it is called.
THEOREM RoutineCalledOnce == Control!Spec => []Control!RoutineOnce
<1>1. Control!Init => OnceInv
  BY DEF Control!Init, OnceInv
<1>2. OnceInv /\ [Control!Next]_Control!vars => OnceInv'
  <2> SUFFICES ASSUME OnceInv, [Control!Next]_Control!vars PROVE OnceInv'
    OBVIOUS
  <2>1. CASE UNCHANGED Control!vars
    BY <2>1 DEF OnceInv, Control!vars
  <2>2. ASSUME NEW t \in OnceThreads, Control!RoutineReturns(t) PROVE OnceInv'
    BY <2>2 DEF OnceInv, Control!RoutineReturns, Control!Front, Control!Last
  <2>3. ASSUME NEW t \in OnceThreads, NEW c \in Controls, Control!pthread_once(t, c) PROVE OnceInv'
    <3>1. CASE c \in magic \cap init
      BY <2>3, <3>1 DEF OnceInv, Control!pthread_once
    <3>2. CASE c \notin magic \cap init
      <4>1. /\ magic' = magic \cup {c} /\ init' = init \cup {c}
            /\ begun' = [begun EXCEPT ![c] = IF @ = 2 THEN 2 ELSE @ + 1]
            /\ routines' = [routines EXCEPT ![t] = Append(@, c)] /\ UNCHANGED passed
        BY <2>3, <3>2 DEF Control!pthread_once, Control!CallRoutine, Control!Marked
      <4>2. begun[c] = 0
        BY <3>2 DEF OnceInv
      <4>3. /\ DOMAIN begun' = Controls /\ begun'[c] = 1
            /\ \A d \in Controls : d # c => begun'[d] = begun[d]
        BY <4>1, <4>2 DEF OnceInv
      <4>4. routines' \in [OnceThreads -> Seq(Controls)]
        BY <4>1 DEF OnceInv
      <4>5. ASSUME NEW u \in OnceThreads, NEW i \in DOMAIN routines'[u]
            PROVE  begun'[routines'[u][i]] = 1
        <5>1. routines[u] \in Seq(Controls)
          BY DEF OnceInv
        <5>2. routines'[u][i] = c \/ (i \in DOMAIN routines[u] /\ routines'[u][i] = routines[u][i])
          BY <4>1, <5>1 DEF OnceInv
        <5>3. QED
          BY <4>3, <5>1, <5>2 DEF OnceInv
      <4>6. QED
        BY <4>1, <4>3, <4>4, <4>5 DEF OnceInv
    <3>3. QED BY <3>1, <3>2
  <2>4. QED
    BY <2>1, <2>2, <2>3 DEF Control!Next
<1>3. OnceInv => Control!RoutineOnce
  BY DEF OnceInv, Control!RoutineOnce
<1>4. QED
  BY <1>1, <1>2, <1>3, PTL DEF Control!Spec

(***************************************************************************)
(* Named semaphores                                                        *)
(***************************************************************************)
CONSTANTS SemThreads, Names, Addresses, MaxObjects, MaxTokens, CloseWaited
VARIABLES named_semaphores, open_semaphores, objects, sem_blocked, put, taken
Sems == INSTANCE NamedSemaphores WITH Threads <- SemThreads, blocked <- sem_blocked

\* Every object made is known by at most one address and one name, an object not
\* made yet is blank, and its tokens are accounted for.
SemInv ==
    /\ Sems!TypeOK /\ Sems!HandlesExact /\ Sems!TokensKept
    /\ put \in [Sems!Objects -> Nat] /\ taken \in [Sems!Objects -> Nat]
    /\ \A o \in Sems!Objects : ~objects[o].made =>
          objects[o] = Sems!NoObject /\ put[o] = 0 /\ taken[o] = 0
    /\ \A n \in Names : named_semaphores[n] # Sems!None => objects[named_semaphores[n]].made
    /\ \A a \in Addresses : open_semaphores[a] # Sems!None => objects[open_semaphores[a]].made

\* Who waits for an object that is open is listed in it, and nobody waits for one
\* that is not.
WaitInv == \A o \in Sems!Objects, t \in SemThreads :
    t \in objects[o].waiting <=>
        objects[o].guest_sem # Sems!None /\ sem_blocked[t] = objects[o].guest_sem
WaitsOpen == \A t \in SemThreads :
    sem_blocked[t] # Sems!None => open_semaphores[sem_blocked[t]] # Sems!None

SemObject == [made : BOOLEAN, value : Nat, waiting : SUBSET SemThreads,
              guest_sem : Addresses \cup {Sems!None}]

\* The types, out of the invariant.
LEMMA SemParts ==
    ASSUME Sems!SemaphoreAssumption, SemInv
    PROVE  /\ Sems!Objects \subseteq Nat /\ Sems!None \notin Sems!Objects
           /\ Sems!None \notin Addresses
           /\ objects \in [Sems!Objects -> SemObject]
           /\ named_semaphores \in [Names -> Sems!Objects \cup {Sems!None}]
           /\ open_semaphores \in [Addresses -> Sems!Objects \cup {Sems!None}]
           /\ sem_blocked \in [SemThreads -> Addresses \cup {Sems!None}]
           /\ put \in [Sems!Objects -> Nat] /\ taken \in [Sems!Objects -> Nat]
  BY DEF SemInv, Sems!SemaphoreAssumption, Sems!Objects, Sems!None, Sems!TypeOK, SemObject

\* What sem_open makes.
LEMMA NewObject ==
    ASSUME NEW v \in 0 .. 1
    PROVE  LET object == [Sems!NoObject EXCEPT !.made = TRUE, !.value = v] IN
           object \in SemObject /\ object.made /\ object.value = v /\ object.waiting = {}
<1> DEFINE made == [Sems!NoObject EXCEPT !.made = TRUE]
           object == [made EXCEPT !.value = v]
<1>1. Sems!NoObject \in SemObject /\ Sems!NoObject.waiting = {}
  BY DEF Sems!NoObject, SemObject
<1>2. made \in SemObject /\ made.made /\ made.waiting = {}
  BY <1>1 DEF SemObject
<1> HIDE DEF made
<1>3. object \in SemObject /\ object.value = v /\ object.made /\ object.waiting = {}
  <2>1. object \in SemObject
    BY <1>2 DEF SemObject
  <2>2. object.value = v /\ object.made = made.made /\ object.waiting = made.waiting
    BY <1>2 DEF SemObject
  <2>3. QED
    BY <1>2, <2>1, <2>2
<1>4. QED
  BY <1>3 DEF made

\* An object that was made changes its value and who waits.
LEMMA SemCounted ==
    ASSUME Sems!SemaphoreAssumption, SemInv,
           NEW o \in Sems!Objects, objects[o].made,
           NEW value \in Nat, NEW waiting \in SUBSET SemThreads,
           objects' = [objects EXCEPT ![o] = [@ EXCEPT !.value = value, !.waiting = waiting]],
           NEW p \in Nat, NEW k \in Nat, value = p - k,
           put' = [put EXCEPT ![o] = p], taken' = [taken EXCEPT ![o] = k],
           sem_blocked' \in [SemThreads -> Addresses \cup {Sems!None}],
           UNCHANGED <<named_semaphores, open_semaphores>>
    PROVE  SemInv'
<1>0. objects \in [Sems!Objects -> SemObject]
  BY SemParts
<1>1. \A x \in Sems!Objects :
         objects'[x] = IF x = o THEN [objects[o] EXCEPT !.value = value, !.waiting = waiting]
                                ELSE objects[x]
  BY <1>0
<1>2. objects[o] \in SemObject
  BY <1>0
<1>3. \A x \in Sems!Objects : /\ objects'[x].made = objects[x].made
                              /\ objects'[x].guest_sem = objects[x].guest_sem
                              /\ objects'[x].value = IF x = o THEN value ELSE objects[x].value
  <2> TAKE x \in Sems!Objects
  <2>1. CASE x = o
    <3> DEFINE object == [objects[o] EXCEPT !.value = value, !.waiting = waiting]
    <3>1. /\ object.made = objects[o].made /\ object.value = value
          /\ object.guest_sem = objects[o].guest_sem
      BY <1>2 DEF SemObject
    <3>2. objects'[x] = object
      BY <1>1, <2>1
    <3> HIDE DEF object
    <3>3. QED
      BY <2>1, <3>1, <3>2
  <2>2. CASE x # o
    BY <1>1, <2>2
  <2>3. QED
    BY <2>1, <2>2
<1>4. objects' \in [Sems!Objects -> SemObject]
  <2>1. [objects[o] EXCEPT !.value = value, !.waiting = waiting] \in SemObject
    BY <1>2 DEF SemObject
  <2>2. QED
    BY <1>0, <2>1
<1>5. Sems!TypeOK'
  BY <1>4 DEF SemInv, Sems!TypeOK, SemObject
<1>6. Sems!HandlesExact'
  BY <1>3 DEF SemInv, Sems!HandlesExact
<1>7. Sems!TokensKept' /\ put' \in [Sems!Objects -> Nat] /\ taken' \in [Sems!Objects -> Nat]
  BY <1>3 DEF SemInv, Sems!TokensKept
<1>8. \A x \in Sems!Objects : ~objects'[x].made =>
          objects'[x] = Sems!NoObject /\ put'[x] = 0 /\ taken'[x] = 0
  BY <1>1, <1>3 DEF SemInv
<1>9. /\ \A n \in Names : named_semaphores'[n] # Sems!None => objects'[named_semaphores'[n]].made
      /\ \A a \in Addresses : open_semaphores'[a] # Sems!None => objects'[open_semaphores'[a]].made
  BY <1>3, SemParts DEF SemInv
<1>10. QED
  BY <1>5, <1>6, <1>7, <1>8, <1>9 DEF SemInv, Sems!Objects

\* An object that was made, or is made now, gets an address that was free.
LEMMA SemOpened ==
    ASSUME Sems!SemaphoreAssumption, SemInv,
           NEW o \in Sems!Objects, objects[o].guest_sem = Sems!None,
           NEW object \in SemObject, object.made, object.value = put'[o] - taken[o],
           Sems!AllocHandle(o, object),
           put' \in [Sems!Objects -> Nat], taken[o] <= put'[o],
           \A x \in Sems!Objects \ {o} : put'[x] = put[x],
           named_semaphores' \in [Names -> Sems!Objects \cup {Sems!None}],
           \A n, m \in Names :
              n # m /\ named_semaphores'[n] # Sems!None => named_semaphores'[n] # named_semaphores'[m],
           \A n \in Names : named_semaphores'[n] \in {named_semaphores[n], o},
           UNCHANGED <<sem_blocked, taken>>
    PROVE  SemInv'
<1>1. PICK a \in Addresses :
         /\ open_semaphores[a] = Sems!None
         /\ open_semaphores' = [open_semaphores EXCEPT ![a] = o]
         /\ objects' = [objects EXCEPT ![o] = [object EXCEPT !.guest_sem = a]]
  BY DEF Sems!AllocHandle
<1>2. /\ objects \in [Sems!Objects -> SemObject] /\ Sems!None \notin Sems!Objects
      /\ open_semaphores \in [Addresses -> Sems!Objects \cup {Sems!None}]
      /\ Sems!None \notin Addresses
  BY SemParts
<1>3. /\ objects' \in [Sems!Objects -> SemObject]
      /\ objects'[o].made /\ objects'[o].guest_sem = a /\ objects'[o].value = object.value
      /\ \A x \in Sems!Objects \ {o} : objects'[x] = objects[x]
  <2>1. [object EXCEPT !.guest_sem = a] \in SemObject
    BY DEF SemObject
  <2>2. /\ [object EXCEPT !.guest_sem = a].guest_sem = a
        /\ [object EXCEPT !.guest_sem = a].made
        /\ [object EXCEPT !.guest_sem = a].value = object.value
    BY DEF SemObject
  <2>3. QED
    BY <1>1, <1>2, <2>1, <2>2
<1>4. Sems!TypeOK'
  BY <1>1, <1>3 DEF SemInv, Sems!TypeOK, SemObject
<1>5. Sems!HandlesExact'
  <2>1. ASSUME NEW x \in Sems!Objects, NEW b \in Addresses
        PROVE  open_semaphores'[b] = x <=> objects'[x].guest_sem = b
    <3>1. \A y \in Sems!Objects, c \in Addresses :
             open_semaphores[c] = y <=> objects[y].guest_sem = c
      BY DEF SemInv, Sems!HandlesExact
    <3>2. CASE b = a
      BY <1>1, <1>2, <1>3, <3>1, <3>2
    <3>3. CASE b # a
      BY <1>1, <1>2, <1>3, <3>1, <3>3
    <3>4. QED
      BY <3>2, <3>3
  <2>2. QED
    BY <2>1 DEF Sems!HandlesExact
<1>6. Sems!TokensKept'
  BY <1>3 DEF SemInv, Sems!TokensKept
<1>7. \A x \in Sems!Objects : ~objects'[x].made =>
          objects'[x] = Sems!NoObject /\ put'[x] = 0 /\ taken'[x] = 0
  BY <1>3 DEF SemInv
<1>8. \A n \in Names : named_semaphores'[n] # Sems!None => objects'[named_semaphores'[n]].made
  BY <1>3, SemParts DEF SemInv
<1>9. \A b \in Addresses : open_semaphores'[b] # Sems!None => objects'[open_semaphores'[b]].made
  BY <1>1, <1>3, SemParts DEF SemInv
<1>10. taken' \in [Sems!Objects -> Nat]
  BY SemParts
<1>11. QED
  BY <1>4, <1>5, <1>6, <1>7, <1>8, <1>9, <1>10 DEF SemInv, Sems!Objects

\* Every operation on a semaphore keeps the invariant.
LEMMA SemSteps ==
    ASSUME Sems!SemaphoreAssumption, SemInv, [Sems!Next]_(Sems!vars)
    PROVE  SemInv'
<1>1. CASE UNCHANGED Sems!vars
  BY <1>1 DEF Sems!vars, Sems!NoObject, Sems!None, SemInv, Sems!TypeOK, Sems!HandlesExact,
              Sems!TokensKept
<1>2. ASSUME NEW t \in SemThreads, NEW n \in Names, Sems!sem_unlink(t, n) PROVE SemInv'
  BY <1>2 DEF Sems!sem_unlink, SemInv, Sems!TypeOK, Sems!HandlesExact, Sems!TokensKept,
              Sems!NoObject, Sems!None
<1>a. ASSUME NEW a \in Addresses, open_semaphores[a] # Sems!None
      PROVE  /\ open_semaphores[a] \in Sems!Objects /\ objects[open_semaphores[a]].made
             /\ objects[open_semaphores[a]] \in SemObject
             /\ objects[open_semaphores[a]].guest_sem = a
             /\ objects[open_semaphores[a]].value
                   = put[open_semaphores[a]] - taken[open_semaphores[a]]
             /\ put[open_semaphores[a]] \in Nat /\ taken[open_semaphores[a]] \in Nat
             /\ taken[open_semaphores[a]] <= put[open_semaphores[a]]
  BY <1>a, SemParts DEF SemInv, Sems!HandlesExact, Sems!TokensKept
<1>3. ASSUME NEW t \in SemThreads, NEW a \in Addresses, Sems!sem_post(t, a) PROVE SemInv'
  <2> DEFINE o == open_semaphores[a]
  <2>1. o # Sems!None
    BY <1>3 DEF Sems!sem_post
  <2>2. objects[o] \in SemObject /\ objects \in [Sems!Objects -> SemObject]
    BY <1>a, <2>1, SemParts
  <2>3. /\ objects' = [objects EXCEPT ![o] =
                         [@ EXCEPT !.value = objects[o].value + 1, !.waiting = objects[o].waiting]]
        /\ objects[o].value + 1 \in Nat /\ objects[o].waiting \in SUBSET SemThreads
    <3>1. objects' = [objects EXCEPT ![o] = [@ EXCEPT !.value = objects[o].value + 1]]
      BY <1>3, <2>2 DEF Sems!sem_post
    <3>2. [objects[o] EXCEPT !.value = objects[o].value + 1] =
            [objects[o] EXCEPT !.value = objects[o].value + 1, !.waiting = objects[o].waiting]
      BY <2>2 DEF SemObject
    <3>3. objects[o].value + 1 \in Nat /\ objects[o].waiting \in SUBSET SemThreads
      BY <2>2 DEF SemObject
    <3>4. objects' = [objects EXCEPT ![o] =
                        [@ EXCEPT !.value = objects[o].value + 1, !.waiting = objects[o].waiting]]
      BY <3>1, <3>2, Zenon
    <3> HIDE DEF o
    <3>5. QED
      BY <3>3, <3>4
  <2>4. /\ put' = [put EXCEPT ![o] = put[o] + 1] /\ taken' = [taken EXCEPT ![o] = taken[o]]
        /\ UNCHANGED <<named_semaphores, open_semaphores, sem_blocked>>
    BY <1>3, SemParts DEF Sems!sem_post
  <2>5. /\ o \in Sems!Objects /\ objects[o].made
        /\ objects[o].value + 1 = (put[o] + 1) - taken[o] /\ put[o] + 1 \in Nat /\ taken[o] \in Nat
        /\ sem_blocked' \in [SemThreads -> Addresses \cup {Sems!None}]
    BY <1>a, <2>1, <2>4, SemParts DEF SemObject
  <2> HIDE DEF o
  <2>6. QED
    BY <2>3, <2>4, <2>5, SemCounted
\* sem_decrement, whoever is left waiting.
<1>b. ASSUME NEW a \in Addresses, open_semaphores[a] # Sems!None,
             NEW waiting \in SUBSET SemThreads,
             Sems!HasToken(open_semaphores[a]), Sems!Decrement(open_semaphores[a], waiting),
             UNCHANGED <<named_semaphores, open_semaphores, put>>,
             sem_blocked' \in [SemThreads -> Addresses \cup {Sems!None}]
      PROVE  SemInv'
  <2> DEFINE o == open_semaphores[a]
  <2>2. /\ objects[o] \in SemObject /\ objects \in [Sems!Objects -> SemObject]
        /\ o \in Sems!Objects /\ objects[o].made
    BY <1>a, <1>b, SemParts
  <2>3. /\ objects' = [objects EXCEPT ![o] =
                         [@ EXCEPT !.value = objects[o].value - 1, !.waiting = waiting]]
        /\ taken' = [taken EXCEPT ![o] = taken[o] + 1]
    BY <1>b, <2>2, SemParts DEF Sems!Decrement
  <2>4. put' = [put EXCEPT ![o] = put[o]]
    BY <1>b, SemParts
  <2>5. /\ objects[o].value - 1 = put[o] - (taken[o] + 1) /\ put[o] \in Nat
        /\ taken[o] + 1 \in Nat /\ objects[o].value - 1 \in Nat
    BY <1>a, <1>b, <2>2 DEF SemObject, Sems!HasToken
  <2> HIDE DEF o
  <2>6. QED
    BY <1>b, <2>2, <2>3, <2>4, <2>5, SemCounted
<1>4. ASSUME NEW t \in SemThreads, NEW a \in Addresses, Sems!sem_wait(t, a) PROVE SemInv'
  <2> DEFINE o == open_semaphores[a]
  <2>1. o # Sems!None /\ objects[o] \in SemObject /\ objects \in [Sems!Objects -> SemObject]
    BY <1>4, <1>a, SemParts DEF Sems!sem_wait
  <2>2. CASE Sems!HasToken(o)
    BY <1>4, <1>b, <2>1, <2>2, SemParts DEF Sems!sem_wait, SemObject
  <2>3. CASE ~Sems!HasToken(o)
    <3>1. /\ objects' = [objects EXCEPT ![o] =
                           [@ EXCEPT !.value = objects[o].value, !.waiting = objects[o].waiting \cup {t}]]
          /\ objects[o].value \in Nat /\ objects[o].waiting \cup {t} \in SUBSET SemThreads
      <4>1. objects' = [objects EXCEPT ![o] = [@ EXCEPT !.waiting = objects[o].waiting \cup {t}]]
        BY <1>4, <2>1, <2>3 DEF Sems!sem_wait
      <4>2. [objects[o] EXCEPT !.waiting = objects[o].waiting \cup {t}] =
              [objects[o] EXCEPT !.value = objects[o].value, !.waiting = objects[o].waiting \cup {t}]
        BY <2>1 DEF SemObject
      <4>3. QED
        BY <2>1, <4>1, <4>2 DEF SemObject
    <3>2. /\ put' = [put EXCEPT ![o] = put[o]] /\ taken' = [taken EXCEPT ![o] = taken[o]]
          /\ UNCHANGED <<named_semaphores, open_semaphores>>
          /\ sem_blocked' \in [SemThreads -> Addresses \cup {Sems!None}]
      BY <1>4, <2>3, SemParts DEF Sems!sem_wait
    <3>3. /\ o \in Sems!Objects /\ objects[o].made /\ objects[o].value = put[o] - taken[o]
          /\ put[o] \in Nat /\ taken[o] \in Nat
      BY <1>a, <2>1
    <3> HIDE DEF o
    <3>4. QED
      BY <3>1, <3>2, <3>3, SemCounted
  <2>4. QED
    BY <2>2, <2>3
<1>5. ASSUME NEW t \in SemThreads, NEW a \in Addresses, Sems!sem_close(t, a) PROVE SemInv'
  <2> DEFINE o == open_semaphores[a]
  <2>1. /\ o \in Sems!Objects /\ objects[o] \in SemObject /\ objects[o].guest_sem = a
        /\ objects \in [Sems!Objects -> SemObject]
        /\ open_semaphores' = [open_semaphores EXCEPT ![a] = Sems!None]
        /\ objects' = [objects EXCEPT ![o] = [@ EXCEPT !.guest_sem = Sems!None]]
        /\ UNCHANGED <<named_semaphores, sem_blocked, put, taken>>
    BY <1>5, <1>a, SemParts DEF Sems!sem_close, Sems!Closed
  <2>2. /\ \A x \in Sems!Objects :
               /\ objects'[x].made = objects[x].made /\ objects'[x].value = objects[x].value
               /\ objects'[x].guest_sem = IF x = o THEN Sems!None ELSE objects[x].guest_sem
               /\ x # o => objects'[x] = objects[x]
        /\ objects' \in [Sems!Objects -> SemObject]
        /\ objects[o].made
    BY <1>5, <1>a, <2>1 DEF SemObject, Sems!sem_close
  <2> HIDE DEF o
  <2>3. Sems!TypeOK'
    BY <2>1, <2>2 DEF SemInv, Sems!TypeOK, SemObject
  <2>4. Sems!HandlesExact'
    BY <2>1, <2>2, SemParts DEF SemInv, Sems!HandlesExact
  <2>5. Sems!TokensKept'
    BY <2>1, <2>2 DEF SemInv, Sems!TokensKept
  <2>6. QED
    BY <2>1, <2>2, <2>3, <2>4, <2>5, SemParts DEF SemInv
<1>6. ASSUME NEW t \in SemThreads, Sems!Wake(t) PROVE SemInv'
  <2>1. /\ sem_blocked[t] \in Addresses
        /\ sem_blocked' \in [SemThreads -> Addresses \cup {Sems!None}]
        /\ UNCHANGED <<named_semaphores, open_semaphores, put>>
    BY <1>6, SemParts DEF Sems!Wake, Sems!Runs
  <2> DEFINE o == open_semaphores[sem_blocked[t]]
  <2>2. CASE o # Sems!None
    <3>1. objects[o].waiting \ {t} \in SUBSET SemThreads
      BY <1>a, <2>1, <2>2 DEF SemObject
    <3>2. Sems!HasToken(o) /\ Sems!Decrement(o, objects[o].waiting \ {t})
      BY <1>6, <2>2 DEF Sems!Wake, Sems!Woken
    <3>3. QED
      BY <1>b, <2>1, <2>2, <3>1, <3>2
  <2>3. CASE o = Sems!None
    <3>1. UNCHANGED <<objects, taken>>
      BY <1>6, <2>1, <2>3, SemParts DEF Sems!Wake
    <3>2. QED
      BY <2>1, <3>1 DEF SemInv, Sems!TypeOK, Sems!HandlesExact, Sems!TokensKept
  <2>4. QED
    BY <2>2, <2>3
<1>7. ASSUME NEW t \in SemThreads, NEW n \in Names, NEW v \in 0 .. 1, Sems!sem_open(t, n, v)
      PROVE  SemInv'
  <2> DEFINE o == named_semaphores[n]
  <2>0. UNCHANGED <<sem_blocked, taken>>
    BY <1>7 DEF Sems!sem_open
  <2>1. CASE o # Sems!None /\ objects[o].guest_sem # Sems!None
    <3>1. UNCHANGED <<named_semaphores, put, open_semaphores, sem_blocked, taken>>
          /\ objects' = [objects EXCEPT ![o] = @]
      BY <1>7, <2>1 DEF Sems!sem_open, Sems!Reopened
    <3>2. UNCHANGED objects
      BY <3>1, SemParts
    <3>3. QED
      BY <1>1, <3>1, <3>2 DEF Sems!vars
  <2>2. CASE o # Sems!None /\ objects[o].guest_sem = Sems!None
    <3>1. /\ Sems!AllocHandle(o, objects[o]) /\ UNCHANGED <<named_semaphores, put>>
      BY <1>7, <2>2 DEF Sems!sem_open, Sems!Reopened
    <3>2. /\ o \in Sems!Objects /\ objects[o] \in SemObject /\ objects[o].made
          /\ objects[o].value = put'[o] - taken[o] /\ taken[o] <= put'[o]
      BY <2>2, <3>1, SemParts DEF SemInv, Sems!TokensKept
    <3>3. /\ named_semaphores' \in [Names -> Sems!Objects \cup {Sems!None}]
          /\ put' \in [Sems!Objects -> Nat]
          /\ \A m, k \in Names : m # k /\ named_semaphores'[m] # Sems!None =>
                                    named_semaphores'[m] # named_semaphores'[k]
      BY <3>1, SemParts DEF SemInv, Sems!HandlesExact
    <3>4. \A m \in Names : named_semaphores'[m] \in {named_semaphores[m], o}
      BY <3>1
    <3>5. \A x \in Sems!Objects \ {o} : put'[x] = put[x]
      BY <3>1
    <3> HIDE DEF o
    <3>6. QED
      BY <2>0, <2>2, <3>1, <3>2, <3>3, <3>4, <3>5, SemOpened
  <2>3. CASE o = Sems!None
    <3>1. PICK new \in Sems!Objects :
             /\ Sems!Fresh(new)
             /\ named_semaphores' = [named_semaphores EXCEPT ![n] = new]
             /\ Sems!AllocHandle(new, [Sems!NoObject EXCEPT !.made = TRUE, !.value = v])
             /\ put' = [put EXCEPT ![new] = v]
      BY <1>7, <2>3 DEF Sems!sem_open
    <3> DEFINE object == [Sems!NoObject EXCEPT !.made = TRUE, !.value = v]
    <3>2. object \in SemObject /\ object.made /\ object.value = v
      BY NewObject
    <3>3. /\ ~objects[new].made /\ objects[new].guest_sem = Sems!None
          /\ taken[new] = 0 /\ put[new] = 0
      BY <3>1 DEF Sems!Fresh, SemInv, Sems!NoObject
    <3>4. /\ v = put'[new] - taken[new] /\ taken[new] <= put'[new]
          /\ put' \in [Sems!Objects -> Nat]
          /\ \A x \in Sems!Objects \ {new} : put'[x] = put[x]
      BY <3>1, <3>3, SemParts
    <3>5. /\ named_semaphores' \in [Names -> Sems!Objects \cup {Sems!None}]
          /\ \A m \in Names : named_semaphores'[m] \in {named_semaphores[m], new}
          /\ \A m \in Names : m # n => named_semaphores'[m] = named_semaphores[m]
          /\ named_semaphores'[n] = new
      BY <3>1, SemParts
    <3>6. \A m \in Names : named_semaphores[m] # new
      BY <3>3, SemParts DEF SemInv
    <3>7. \A m, k \in Names : m # k /\ named_semaphores'[m] # Sems!None =>
                                 named_semaphores'[m] # named_semaphores'[k]
      BY <3>5, <3>6 DEF SemInv, Sems!HandlesExact
    <3> HIDE DEF object
    <3>8. Sems!AllocHandle(new, object) /\ object.value = put'[new] - taken[new]
      BY <3>1, <3>2, <3>4 DEF object
    <3>9. QED
      BY <2>0, <3>2, <3>3, <3>4, <3>5, <3>7, <3>8, SemOpened
  <2>4. QED
    BY <2>1, <2>2, <2>3
<1>8. QED
  BY <1>1, <1>2, <1>3, <1>4, <1>5, <1>6, <1>7 DEF Sems!Next
\* No semaphore is open at first.
LEMMA SemInitial ==
    ASSUME Sems!SemaphoreAssumption, Sems!Init
    PROVE  SemInv
<1>1. Sems!NoObject \in SemObject /\ Sems!NoObject.guest_sem = Sems!None
      /\ Sems!NoObject.value = 0
  BY DEF Sems!NoObject, SemObject
<1>2. /\ \A o \in Sems!Objects : objects[o] = Sems!NoObject /\ put[o] = 0 /\ taken[o] = 0
      /\ \A n \in Names : named_semaphores[n] = Sems!None
      /\ \A a \in Addresses : open_semaphores[a] = Sems!None
  BY DEF Sems!Init
<1>3. Sems!TypeOK
  BY <1>1 DEF Sems!Init, Sems!TypeOK, SemObject
<1>4. Sems!HandlesExact
  <2>1. \A a \in Addresses, o \in Sems!Objects : o # Sems!None /\ a # Sems!None
    BY DEF Sems!SemaphoreAssumption, Sems!Objects, Sems!None
  <2>2. QED
    BY <1>1, <1>2, <2>1 DEF Sems!HandlesExact
<1>5. Sems!TokensKept
  BY <1>1, <1>2 DEF Sems!TokensKept
<1>6. QED
  BY <1>2, <1>3, <1>4, <1>5 DEF SemInv, Sems!Init

\* A semaphore's object knows the one address it is open at, through every closing
\* and opening again and under whatever name, and a wait that succeeds has taken a
\* token that was put into the same object (sem_open, sem_close, sem_decrement).
THEOREM SemaphoreObjects ==
    ASSUME Sems!SemaphoreAssumption
    PROVE  Sems!Spec => [](Sems!TypeOK /\ Sems!HandlesExact /\ Sems!TokensKept)
<1>1. Sems!Init => SemInv
  BY SemInitial
<1>2. SemInv /\ [Sems!Next]_(Sems!vars) => SemInv'
  BY SemSteps
<1>3. SemInv => Sems!TypeOK /\ Sems!HandlesExact /\ Sems!TokensKept
  BY DEF SemInv
<1>4. QED
  BY <1>1, <1>2, <1>3, PTL DEF Sems!Spec
\* Two facts carry who waits from one state to the next: an object other than o
\* keeps what it has, and o has the waiters its address has.
LEMMA WaitSteps ==
    ASSUME Sems!SemaphoreAssumption, ~CloseWaited, SemInv, WaitInv, WaitsOpen,
           [Sems!Next]_(Sems!vars)
    PROVE  WaitInv' /\ WaitsOpen'
<1>0. /\ objects \in [Sems!Objects -> SemObject]
      /\ open_semaphores \in [Addresses -> Sems!Objects \cup {Sems!None}]
      /\ sem_blocked \in [SemThreads -> Addresses \cup {Sems!None}]
      /\ Sems!None \notin Addresses /\ Sems!None \notin Sems!Objects
      /\ \A o \in Sems!Objects, a \in Addresses :
            open_semaphores[a] = o <=> objects[o].guest_sem = a
  BY SemParts DEF SemInv, Sems!HandlesExact
<1>1. CASE UNCHANGED Sems!vars
  BY <1>1 DEF Sems!vars, WaitInv, WaitsOpen, Sems!None
<1>2. ASSUME NEW t \in SemThreads, NEW n \in Names, Sems!sem_unlink(t, n)
      PROVE  WaitInv' /\ WaitsOpen'
  BY <1>2 DEF Sems!sem_unlink, WaitInv, WaitsOpen, Sems!None
\* Only the value of an object changes.
<1>a. ASSUME UNCHANGED <<open_semaphores, sem_blocked>>,
             \A o \in Sems!Objects : /\ objects'[o].waiting = objects[o].waiting
                                     /\ objects'[o].guest_sem = objects[o].guest_sem
      PROVE  WaitInv' /\ WaitsOpen'
  BY <1>a DEF WaitInv, WaitsOpen, Sems!None, Sems!Objects
<1>3. ASSUME NEW t \in SemThreads, NEW a \in Addresses, Sems!sem_post(t, a)
      PROVE  WaitInv' /\ WaitsOpen'
  <2>1. \A o \in Sems!Objects : /\ objects'[o].waiting = objects[o].waiting
                                /\ objects'[o].guest_sem = objects[o].guest_sem
    BY <1>0, <1>3 DEF Sems!sem_post, SemObject
  <2>2. QED
    BY <1>3, <1>a, <2>1 DEF Sems!sem_post
\* One object, open at a, has others waiting; the threads that are blocked change
\* in the same way.
<1>b. ASSUME NEW o \in Sems!Objects, NEW a \in Addresses, open_semaphores[a] = o,
             NEW t \in SemThreads, NEW at \in {a, Sems!None},
             sem_blocked[t] \in {a, Sems!None},
             sem_blocked' = [sem_blocked EXCEPT ![t] = at],
             objects'[o].guest_sem = a,
             objects'[o].waiting = IF at = a THEN objects[o].waiting \cup {t}
                                              ELSE objects[o].waiting \ {t},
             \A x \in Sems!Objects \ {o} : objects'[x] = objects[x],
             UNCHANGED open_semaphores
      PROVE  WaitInv' /\ WaitsOpen'
  <2>1. \A u \in SemThreads : sem_blocked'[u] = IF u = t THEN at ELSE sem_blocked[u]
    BY <1>0, <1>b
  <2>2. WaitsOpen'
    BY <1>0, <1>b, <2>1 DEF WaitsOpen, Sems!None
  <2>3. ASSUME NEW x \in Sems!Objects, NEW u \in SemThreads
        PROVE  u \in objects'[x].waiting <=>
                  objects'[x].guest_sem # Sems!None /\ sem_blocked'[u] = objects'[x].guest_sem
    <3>1. u \in objects[x].waiting <=>
             objects[x].guest_sem # Sems!None /\ sem_blocked[u] = objects[x].guest_sem
      BY DEF WaitInv
    <3>2. CASE x = o
      BY <1>0, <1>b, <2>1, <3>1, <3>2
    <3>3. CASE x # o
      <4>1. objects'[x] = objects[x] /\ objects[x].guest_sem # a
        BY <1>0, <1>b, <3>3
      <4>2. QED
        BY <1>0, <1>b, <2>1, <3>1, <4>1
    <3>4. QED
      BY <3>2, <3>3
  <2>4. QED
    BY <2>2, <2>3 DEF WaitInv, Sems!None, Sems!Objects
<1>4. ASSUME NEW t \in SemThreads, NEW a \in Addresses, Sems!sem_wait(t, a)
      PROVE  WaitInv' /\ WaitsOpen'
  <2> DEFINE o == open_semaphores[a]
  <2>1. o \in Sems!Objects /\ objects[o] \in SemObject /\ sem_blocked[t] = Sems!None
        /\ UNCHANGED open_semaphores
    BY <1>0, <1>4 DEF Sems!sem_wait, Sems!Runs
  <2>2. CASE Sems!HasToken(o)
    <3>1. /\ UNCHANGED sem_blocked
          /\ Sems!Decrement(o, objects[o].waiting)
      BY <1>4, <2>2 DEF Sems!sem_wait
    <3>2. \A x \in Sems!Objects : /\ objects'[x].waiting = objects[x].waiting
                                  /\ objects'[x].guest_sem = objects[x].guest_sem
      BY <1>0, <2>1, <3>1 DEF Sems!Decrement, SemObject
    <3>3. QED
      BY <1>a, <2>1, <3>1, <3>2
  <2>3. CASE ~Sems!HasToken(o)
    <3>1. /\ objects' = [objects EXCEPT ![o] = [@ EXCEPT !.waiting = objects[o].waiting \cup {t}]]
          /\ sem_blocked' = [sem_blocked EXCEPT ![t] = a]
      BY <1>0, <1>4, <2>1, <2>3 DEF Sems!sem_wait
    <3>2. /\ objects'[o].waiting = objects[o].waiting \cup {t} /\ objects'[o].guest_sem = a
          /\ \A x \in Sems!Objects \ {o} : objects'[x] = objects[x]
      BY <1>0, <2>1, <3>1 DEF SemObject
    <3> HIDE DEF o
    <3>3. QED
      BY <1>b, <2>1, <3>1, <3>2 DEF o
  <2>4. QED
    BY <2>2, <2>3
<1>5. ASSUME NEW t \in SemThreads, NEW a \in Addresses, Sems!sem_close(t, a)
      PROVE  WaitInv' /\ WaitsOpen'
  <2> DEFINE o == open_semaphores[a]
  <2>1. /\ o \in Sems!Objects /\ objects[o] \in SemObject
        /\ open_semaphores' = [open_semaphores EXCEPT ![a] = Sems!None]
        /\ objects' = [objects EXCEPT ![o] = [@ EXCEPT !.guest_sem = Sems!None]]
        /\ \A u \in SemThreads : sem_blocked[u] # a
        /\ UNCHANGED sem_blocked
    BY <1>0, <1>5 DEF Sems!sem_close, Sems!Closed
  <2>2. /\ objects'[o].guest_sem = Sems!None /\ objects'[o].waiting = objects[o].waiting
        /\ \A x \in Sems!Objects \ {o} : objects'[x] = objects[x]
    BY <1>0, <2>1 DEF SemObject
  <2>3. objects[o].waiting = {}
    <3>1. objects[o].waiting \subseteq SemThreads
      BY <2>1 DEF SemObject
    <3>2. QED
      BY <1>0, <2>1, <3>1 DEF WaitInv
  <2>4. WaitInv'
    BY <2>1, <2>2, <2>3 DEF WaitInv, Sems!None, Sems!Objects
  <2>5. WaitsOpen'
    BY <1>0, <2>1 DEF WaitsOpen, Sems!None
  <2>6. QED
    BY <2>4, <2>5
<1>6. ASSUME NEW t \in SemThreads, Sems!Wake(t) PROVE WaitInv' /\ WaitsOpen'
  <2> DEFINE a == sem_blocked[t]
             o == open_semaphores[a]
  <2>1. /\ a \in Addresses /\ o \in Sems!Objects /\ objects[o] \in SemObject
        /\ UNCHANGED open_semaphores
        /\ sem_blocked' = [sem_blocked EXCEPT ![t] = Sems!None]
        /\ objects[o].guest_sem = a
    BY <1>0, <1>6 DEF Sems!Wake, Sems!Runs, WaitsOpen
  <2>2. Sems!Decrement(o, objects[o].waiting \ {t})
    BY <1>0, <1>6, <2>1 DEF Sems!Wake, Sems!Woken
  <2>3. /\ objects'[o].waiting = objects[o].waiting \ {t} /\ objects'[o].guest_sem = a
        /\ \A x \in Sems!Objects \ {o} : objects'[x] = objects[x]
    BY <1>0, <2>1, <2>2 DEF Sems!Decrement, SemObject
  <2>4. Sems!None \in {a, Sems!None} /\ sem_blocked[t] \in {a, Sems!None} /\ Sems!None # a
        /\ open_semaphores[a] = o
    BY <1>0, <2>1
  <2> HIDE DEF a, o
  <2>5. QED
    BY <1>b, <2>1, <2>3, <2>4
<1>7. ASSUME NEW t \in SemThreads, NEW n \in Names, NEW v \in 0 .. 1, Sems!sem_open(t, n, v)
      PROVE  WaitInv' /\ WaitsOpen'
  <2> DEFINE o == named_semaphores[n]
  <2>0. named_semaphores \in [Names -> Sems!Objects \cup {Sems!None}] /\ UNCHANGED sem_blocked
    BY <1>7, SemParts DEF Sems!sem_open
  \* An object that is not open has no waiters, nor has a free address.
  <2>a. ASSUME NEW x \in Sems!Objects, objects[x].guest_sem = Sems!None,
               NEW object \in SemObject, object.waiting = {}, Sems!AllocHandle(x, object)
        PROVE  WaitInv' /\ WaitsOpen'
    <3>1. PICK a \in Addresses :
             /\ open_semaphores[a] = Sems!None
             /\ open_semaphores' = [open_semaphores EXCEPT ![a] = x]
             /\ objects' = [objects EXCEPT ![x] = [object EXCEPT !.guest_sem = a]]
      BY <2>a DEF Sems!AllocHandle
    <3>2. /\ objects'[x].guest_sem = a /\ objects'[x].waiting = {}
          /\ \A y \in Sems!Objects \ {x} : objects'[y] = objects[y]
      <4>1. [object EXCEPT !.guest_sem = a].guest_sem = a
            /\ [object EXCEPT !.guest_sem = a].waiting = object.waiting
        BY DEF SemObject
      <4>2. QED
        BY <1>0, <2>a, <3>1, <4>1
    <3>3. \A u \in SemThreads : sem_blocked[u] # a
      BY <1>0, <3>1 DEF WaitsOpen
    <3>4. WaitInv'
      BY <1>0, <2>0, <3>2, <3>3 DEF WaitInv, Sems!None, Sems!Objects
    <3>5. WaitsOpen'
      BY <1>0, <2>0, <3>1 DEF WaitsOpen, Sems!None
    <3>6. QED
      BY <3>4, <3>5
  <2>1. CASE o # Sems!None /\ objects[o].guest_sem # Sems!None
    <3>1. UNCHANGED open_semaphores /\ objects' = [objects EXCEPT ![o] = @]
      BY <1>7, <2>1 DEF Sems!sem_open, Sems!Reopened
    <3>2. UNCHANGED objects
      BY <1>0, <3>1
    <3>3. QED
      BY <1>a, <2>0, <3>1, <3>2
  <2>2. CASE o # Sems!None /\ objects[o].guest_sem = Sems!None
    <3>1. Sems!AllocHandle(o, objects[o]) /\ o \in Sems!Objects /\ objects[o] \in SemObject
      BY <1>0, <1>7, <2>0, <2>2 DEF Sems!sem_open, Sems!Reopened
    <3>2. objects[o].waiting = {}
      <4>1. objects[o].waiting \subseteq SemThreads
        BY <3>1 DEF SemObject
      <4>2. QED
        BY <2>2, <3>1, <4>1 DEF WaitInv
    <3> HIDE DEF o
    <3>3. QED
      BY <2>2, <2>a, <3>1, <3>2
  <2>3. CASE o = Sems!None
    <3>1. PICK new \in Sems!Objects :
             /\ Sems!Fresh(new)
             /\ Sems!AllocHandle(new, [Sems!NoObject EXCEPT !.made = TRUE, !.value = v])
      BY <1>7, <2>3 DEF Sems!sem_open
    <3> DEFINE object == [Sems!NoObject EXCEPT !.made = TRUE, !.value = v]
    <3>2. object \in SemObject /\ object.waiting = {}
      BY NewObject
    <3>3. objects[new].guest_sem = Sems!None
      BY <3>1 DEF Sems!Fresh, SemInv, Sems!NoObject
    <3> HIDE DEF object
    <3>4. Sems!AllocHandle(new, object)
      BY <3>1 DEF object
    <3>5. QED
      BY <2>a, <3>2, <3>3, <3>4
  <2>4. QED
    BY <2>1, <2>2, <2>3
<1>8. QED
  BY <1>1, <1>2, <1>3, <1>4, <1>5, <1>6, <1>7 DEF Sems!Next

\* sem_getvalue counts the threads that are blocked on the semaphore, as long as the
\* guest closes none that is waited for.
THEOREM SemaphoreWaiters ==
    ASSUME Sems!SemaphoreAssumption, ~CloseWaited
    PROVE  Sems!Spec => []Sems!WaitersReported
<1>1. Sems!Init => SemInv /\ WaitInv /\ WaitsOpen
  <2>1. Sems!NoObject.waiting = {} /\ Sems!NoObject.guest_sem = Sems!None
    BY DEF Sems!NoObject
  <2>2. QED
    BY <2>1, SemInitial DEF Sems!Init, WaitInv, WaitsOpen
<1>2. SemInv /\ WaitInv /\ WaitsOpen /\ [Sems!Next]_(Sems!vars)
        => (SemInv /\ WaitInv /\ WaitsOpen)'
  BY SemSteps, WaitSteps
<1>3. SemInv /\ WaitInv => Sems!WaitersReported
  <2> SUFFICES ASSUME SemInv, WaitInv, NEW o \in Sems!Objects, objects[o].guest_sem # Sems!None
               PROVE  objects[o].waiting = {t \in SemThreads : sem_blocked[t] = objects[o].guest_sem}
    BY DEF Sems!WaitersReported
  <2>1. objects[o].waiting \subseteq SemThreads
    BY SemParts DEF SemObject
  <2>2. QED
    BY <2>1 DEF WaitInv
<1>4. QED
  BY <1>1, <1>2, <1>3, PTL DEF Sems!Spec

(***************************************************************************)
(* Dispatch                                                                *)
(***************************************************************************)
CONSTANTS GcdThreads, Tokens, MaxHandles, MaxCount, GcdDepth
VARIABLES once_tokens, current_queue_stack, queue_specifics, next_queue_handle,
          queues, gcd_semaphores, gcd_frames, ran
Gcd == INSTANCE Dispatch WITH
    Threads <- GcdThreads, MaxDepth <- GcdDepth,
    semaphores <- gcd_semaphores, frames <- gcd_frames

\* A block is called once by the call that dispatches it; only functions come again.
BlockKinds == Tokens \cup {"block", "function", "group"}
BlockFrames == [kind : BlockKinds, queue : Gcd!Queues, again : 0 .. 1]
GcdInv ==
    /\ gcd_frames \in [GcdThreads -> Seq(BlockFrames)]
    /\ current_queue_stack \in Seq(Gcd!Queues)
    /\ \A t \in GcdThreads : \A i \in DOMAIN gcd_frames[t] :
          gcd_frames[t][i].kind = "block" => gcd_frames[t][i].again = 0

\* The blocks in progress: where their frames are.
Blocks == UNION {{t} \X Gcd!Indices(t, "block") : t \in GcdThreads}

BlocksStacked == IsFiniteSet(Blocks) /\ Cardinality(Blocks) = Len(current_queue_stack)

\* A step adds a frame to one thread, takes its last one away, or counts it down.
GcdPushed(t, f) ==
    /\ gcd_frames' = [gcd_frames EXCEPT ![t] = Append(@, f)]
    /\ current_queue_stack' = IF f.kind = "block" THEN Append(current_queue_stack, f.queue)
                              ELSE current_queue_stack

GcdPopped(t) ==
    LET f == gcd_frames[t][Len(gcd_frames[t])] IN
    /\ gcd_frames[t] # <<>>
    /\ gcd_frames' = [gcd_frames EXCEPT ![t] = SubSeq(@, 1, Len(@) - 1)]
    /\ current_queue_stack' = IF f.kind = "block"
                              THEN SubSeq(current_queue_stack, 1, Len(current_queue_stack) - 1)
                              ELSE current_queue_stack

GcdAgain(t) ==
    LET f == gcd_frames[t][Len(gcd_frames[t])] IN
    /\ gcd_frames[t] # <<>> /\ f.kind # "block"
    /\ gcd_frames' = [gcd_frames EXCEPT ![t] =
                          Append(SubSeq(@, 1, Len(@) - 1), [f EXCEPT !.again = @ - 1])]
    /\ UNCHANGED current_queue_stack

GcdStep ==
    \/ UNCHANGED <<gcd_frames, current_queue_stack>>
    \/ \E t \in GcdThreads : GcdPopped(t) \/ (GcdAgain(t) /\ GcdInv')
    \/ \E t \in GcdThreads, f \in BlockFrames :
          GcdPushed(t, f) /\ (f.kind = "block" => f.again = 0)

LEMMA SeqOfMore ==
    ASSUME NEW S, NEW T, S \subseteq T
    PROVE  Seq(S) \subseteq Seq(T)
  OBVIOUS

LEMMA GcdNext ==
    ASSUME Gcd!DispatchAssumption, GcdInv, [Gcd!Next]_(Gcd!vars)
    PROVE  GcdInv' /\ GcdStep
<1>1. UNCHANGED queues \/ \E h : queues' = queues \cup {h}
  BY DEF Gcd!Next, Gcd!vars, Gcd!dispatch_queue_create, Gcd!dispatch_semaphore_create,
         Gcd!dispatch_queue_set_specific, Gcd!dispatch_once, Gcd!dispatch_async, Gcd!dispatch_async_f,
         Gcd!dispatch_group_async, Gcd!dispatch_group_notify, Gcd!BlockReturns,
         Gcd!dispatch_semaphore_wait, Gcd!dispatch_semaphore_signal
<1>2. Gcd!Queues \subseteq Gcd!Queues' /\ BlockFrames \subseteq BlockFrames'
  BY <1>1 DEF Gcd!Queues, BlockFrames
<1>3. Seq(Gcd!Queues) \subseteq Seq(Gcd!Queues') /\ Seq(BlockFrames) \subseteq Seq(BlockFrames')
  BY <1>2, SeqOfMore
<1>4. ASSUME UNCHANGED <<gcd_frames, current_queue_stack>> PROVE GcdInv' /\ GcdStep
  BY <1>3, <1>4 DEF GcdInv, GcdStep
<1>5. ASSUME NEW t \in GcdThreads, NEW f \in BlockFrames, GcdPushed(t, f),
             f.kind = "block" => f.again = 0
      PROVE  GcdInv' /\ GcdStep
  <2>1. /\ gcd_frames[t] \in Seq(BlockFrames) /\ f.queue \in Gcd!Queues /\ f \in BlockFrames'
        /\ current_queue_stack \in Seq(Gcd!Queues')
    BY <1>2, <1>3 DEF GcdInv, BlockFrames
  <2>2. gcd_frames' \in [GcdThreads -> Seq(BlockFrames')]
    BY <1>3, <1>5, <2>1 DEF GcdInv, GcdPushed
  <2>3. current_queue_stack' \in Seq(Gcd!Queues')
    BY <1>2, <1>5, <2>1 DEF GcdPushed
  <2>4. ASSUME NEW u \in GcdThreads, NEW i \in DOMAIN gcd_frames'[u],
               gcd_frames'[u][i].kind = "block"
        PROVE  gcd_frames'[u][i].again = 0
    <3>1. CASE u = t
      <4>1. gcd_frames'[u] = Append(gcd_frames[t], f)
        BY <1>5, <3>1 DEF GcdInv, GcdPushed
    <4>2. (i \in DOMAIN gcd_frames[t] /\ gcd_frames'[u][i] = gcd_frames[t][i]) \/ gcd_frames'[u][i] = f
        BY <2>1, <4>1
      <4>3. QED
        BY <1>5, <2>4, <4>2 DEF GcdInv
    <3>2. CASE u # t
      BY <1>5, <2>4, <3>2 DEF GcdInv, GcdPushed
    <3>3. QED
      BY <3>1, <3>2
  <2>5. QED
    BY <1>5, <2>2, <2>3, <2>4 DEF GcdInv, GcdStep
<1>6. ASSUME NEW t \in GcdThreads, Gcd!BlockReturns(t) PROVE GcdInv' /\ GcdStep
  <2> DEFINE n == Len(gcd_frames[t])
             f == gcd_frames[t][n]
             front == SubSeq(gcd_frames[t], 1, n - 1)
  <2>1. gcd_frames[t] \in Seq(BlockFrames) /\ gcd_frames[t] # <<>> /\ n \in Nat /\ n > 0
    BY <1>6 DEF GcdInv, Gcd!BlockReturns
  <2>2. Gcd!Last(gcd_frames[t]) = f /\ Gcd!Front(gcd_frames[t]) = front
    BY DEF Gcd!Last, Gcd!Front
  <2>3. f \in BlockFrames /\ front \in Seq(BlockFrames) /\ Len(front) = n - 1
        /\ \A i \in 1 .. n - 1 : front[i] = gcd_frames[t][i]
    BY <2>1
  <2>4. f.kind = "block" => f.again = 0
    BY <2>1 DEF GcdInv
  <2> HIDE DEF f, front
  <2>5. CASE f.again = 0
    <3>1. GcdPopped(t)
      <4>1. /\ gcd_frames' = [gcd_frames EXCEPT ![t] = front]
            /\ current_queue_stack' = IF f.kind = "block"
                 THEN Gcd!Front(current_queue_stack) ELSE current_queue_stack
        BY <1>6, <2>2, <2>5 DEF Gcd!BlockReturns, Gcd!LeaveQueue
      <4>2. QED
        BY <2>1, <4>1 DEF GcdPopped, f, front, Gcd!Front
    <3>2. gcd_frames' = [gcd_frames EXCEPT ![t] = front]
      BY <3>1 DEF GcdPopped, front
    <3>3. gcd_frames' \in [GcdThreads -> Seq(BlockFrames')]
      BY <1>3, <2>3, <3>2 DEF GcdInv
    <3>4. current_queue_stack' \in Seq(Gcd!Queues)
      <4>1. current_queue_stack \in Seq(Gcd!Queues)
        BY DEF GcdInv
      <4>2. \/ current_queue_stack' = current_queue_stack
            \/ current_queue_stack' = SubSeq(current_queue_stack, 1, Len(current_queue_stack) - 1)
        BY <3>1 DEF GcdPopped
      <4>3. QED
        BY <4>1, <4>2
    <3>5. ASSUME NEW u \in GcdThreads, NEW i \in DOMAIN gcd_frames'[u]
          PROVE  gcd_frames'[u][i].kind = "block" => gcd_frames'[u][i].again = 0
      <4>1. CASE u = t
        <5>1. gcd_frames'[u] = front
          BY <3>2, <4>1 DEF GcdInv
        <5>2. i \in 1 .. n - 1
          BY <2>3, <5>1
        <5>3. i \in DOMAIN gcd_frames[t] /\ gcd_frames'[u][i] = gcd_frames[t][i]
          BY <2>1, <2>3, <5>1, <5>2
        <5>4. QED
          BY <5>3 DEF GcdInv
      <4>2. CASE u # t
        BY <3>2, <4>2 DEF GcdInv
      <4>3. QED
        BY <4>1, <4>2
    <3>6. QED
      BY <1>3, <3>1, <3>3, <3>4, <3>5 DEF GcdInv, GcdStep
  <2>6. CASE f.again # 0
    <3> DEFINE g == [f EXCEPT !.again = @ - 1]
    <3>1. g \in BlockFrames /\ f.kind # "block" /\ g.kind = f.kind
      BY <2>3, <2>4, <2>6 DEF BlockFrames
    <3>2. GcdAgain(t)
      BY <1>6, <2>1, <2>2, <2>6, <3>1 DEF GcdAgain, Gcd!BlockReturns, Gcd!LeaveQueue, f, front
    <3> HIDE DEF g
    <3>3. gcd_frames' = [gcd_frames EXCEPT ![t] = Append(front, g)]
      BY <3>2 DEF GcdAgain, f, front, g
    <3>4. Append(front, g) \in Seq(BlockFrames') /\ \A i \in DOMAIN Append(front, g) :
              \/ i \in DOMAIN gcd_frames[t] /\ Append(front, g)[i] = gcd_frames[t][i]
              \/ Append(front, g)[i] = g
      BY <1>2, <1>3, <2>1, <2>3, <3>1
    <3>5. gcd_frames' \in [GcdThreads -> Seq(BlockFrames')]
      BY <1>3, <3>3, <3>4 DEF GcdInv
    <3>6. \A u \in GcdThreads : \A i \in DOMAIN gcd_frames'[u] :
              gcd_frames'[u][i].kind = "block" => gcd_frames'[u][i].again = 0
      BY <3>1, <3>3, <3>4 DEF GcdInv
    <3>7. GcdInv'
      BY <1>3, <3>2, <3>5, <3>6 DEF GcdInv, GcdAgain
    <3>8. QED
      BY <3>2, <3>7 DEF GcdStep
  <2>7. QED
    BY <2>5, <2>6
<1>7. ASSUME NEW t \in GcdThreads, NEW q \in Gcd!Queues, NEW kind \in {"block", "function", "group"},
             NEW k \in 0 .. 1
      PROVE  Gcd!Frame(kind, q, k) \in BlockFrames
  BY DEF Gcd!Frame, BlockFrames, BlockKinds
<1>8. ASSUME NEW t \in GcdThreads, NEW q \in Gcd!Queues,
             \/ Gcd!dispatch_async(t, q) \/ Gcd!dispatch_async_f(t, q)
             \/ Gcd!dispatch_group_async(t, q) \/ Gcd!dispatch_group_notify(t, q)
      PROVE  GcdInv' /\ GcdStep
  <2>1. PICK f \in BlockFrames : GcdPushed(t, f) /\ (f.kind = "block" => f.again = 0)
    <3>1. \A kind, k : Gcd!Frame(kind, q, k).kind = kind /\ Gcd!Frame(kind, q, k).queue = q
                       /\ Gcd!Frame(kind, q, k).again = k
      BY DEF Gcd!Frame
    <3>2. PICK kind \in {"block", "function", "group"}, k \in 0 .. 1 :
              /\ Gcd!Call(t, Gcd!Frame(kind, q, k)) /\ (kind = "block" => k = 0)
              /\ current_queue_stack' = IF kind = "block" THEN Append(current_queue_stack, q)
                                        ELSE current_queue_stack
      BY <1>8 DEF Gcd!dispatch_async, Gcd!dispatch_async_f, Gcd!dispatch_group_async,
         Gcd!dispatch_group_notify
    <3>3. GcdPushed(t, Gcd!Frame(kind, q, k))
      BY <3>1, <3>2 DEF Gcd!Call, GcdPushed
    <3>4. QED
      BY <1>7, <3>1, <3>2, <3>3
  <2>2. QED
    BY <1>5, <2>1
<1>9. ASSUME NEW t \in GcdThreads, NEW tok \in Tokens, Gcd!dispatch_once(t, tok)
      PROVE  GcdInv' /\ GcdStep
  <2> DEFINE f == Gcd!Frame(tok, Gcd!QueueOf(t), 0)
  <2>1. Gcd!QueueOf(t) \in Gcd!Queues
    <3>1. gcd_frames[t] \in Seq(BlockFrames)
      BY DEF GcdInv
    <3>2. CASE gcd_frames[t] = <<>>
      BY <3>2 DEF Gcd!QueueOf, Gcd!Queues
    <3>3. CASE gcd_frames[t] # <<>>
      <4>1. Gcd!Last(gcd_frames[t]) \in BlockFrames
        BY <3>1, <3>3 DEF Gcd!Last
      <4>2. QED
        BY <3>3, <4>1 DEF Gcd!QueueOf, BlockFrames
    <3>4. QED
      BY <3>2, <3>3
  <2>2. f \in BlockFrames /\ f.kind = tok /\ f.kind # "block"
    BY <2>1 DEF Gcd!Frame, BlockFrames, BlockKinds, Gcd!DispatchAssumption
  <2>3. GcdPushed(t, f)
    BY <1>9, <2>2 DEF Gcd!dispatch_once, Gcd!Call, GcdPushed
  <2>4. QED
    BY <1>5, <2>2, <2>3
<1>10. ASSUME \/ UNCHANGED Gcd!vars
              \/ Gcd!dispatch_queue_create \/ Gcd!dispatch_semaphore_create
              \/ \E q \in Gcd!Queues : Gcd!dispatch_queue_set_specific(q)
              \/ \E s \in DOMAIN gcd_semaphores :
                    Gcd!dispatch_semaphore_wait(s) \/ Gcd!dispatch_semaphore_signal(s)
       PROVE  UNCHANGED <<gcd_frames, current_queue_stack>>
  BY <1>10 DEF Gcd!vars, Gcd!dispatch_queue_create, Gcd!dispatch_semaphore_create,
     Gcd!dispatch_queue_set_specific, Gcd!dispatch_semaphore_wait, Gcd!dispatch_semaphore_signal
<1>11. QED
  BY <1>4, <1>6, <1>8, <1>9, <1>10 DEF Gcd!Next

LEMMA BlockAt ==
    ASSUME NEW t, NEW i
    PROVE  <<t, i>> \in Blocks <=>
               t \in GcdThreads /\ i \in DOMAIN gcd_frames[t] /\ gcd_frames[t][i].kind = "block"
  BY DEF Blocks, Gcd!Indices

LEMMA BlockPairs ==
    ASSUME NEW p \in Blocks
    PROVE  p = <<p[1], p[2]>>
  BY DEF Blocks

LEMMA BlockAtNext ==
    ASSUME NEW t, NEW i
    PROVE  <<t, i>> \in Blocks' <=>
               t \in GcdThreads /\ i \in DOMAIN gcd_frames'[t] /\ gcd_frames'[t][i].kind = "block"
  BY DEF Blocks, Gcd!Indices

LEMMA BlockPairsNext ==
    ASSUME NEW p \in Blocks'
    PROVE  p = <<p[1], p[2]>>
  BY DEF Blocks

\* The stack of current queues grows and shrinks with the blocks in progress.
LEMMA BlocksStep ==
    ASSUME GcdInv, GcdInv', GcdStep, BlocksStacked
    PROVE  BlocksStacked'
<1>1. CASE UNCHANGED <<gcd_frames, current_queue_stack>>
  BY <1>1 DEF BlocksStacked, Blocks, Gcd!Indices
<1>2. ASSUME NEW t \in GcdThreads, NEW f \in BlockFrames, GcdPushed(t, f) PROVE BlocksStacked'
  <2> DEFINE n == Len(gcd_frames[t]) + 1
  <2>1. gcd_frames[t] \in Seq(BlockFrames) /\ n \in Nat /\ n \notin DOMAIN gcd_frames[t]
    BY DEF GcdInv
  <2>2. gcd_frames'[t] = Append(gcd_frames[t], f)
        /\ \A u \in GcdThreads : u # t => gcd_frames'[u] = gcd_frames[u]
    BY <1>2 DEF GcdInv, GcdPushed
  <2>3. DOMAIN gcd_frames'[t] = DOMAIN gcd_frames[t] \cup {n} /\ gcd_frames'[t][n] = f
        /\ \A i \in DOMAIN gcd_frames[t] : gcd_frames'[t][i] = gcd_frames[t][i]
    BY <2>1, <2>2
  <2>4. <<t, n>> \notin Blocks
    BY <2>1, BlockAt
  <2> HIDE DEF n
  <2>5. \A u, i : <<u, i>> \in Blocks' <=>
            <<u, i>> \in Blocks \/ (<<u, i>> = <<t, n>> /\ f.kind = "block")
    <3> TAKE u, i
    <3>1. CASE u = t
      BY <2>1, <2>3, <3>1, BlockAt, BlockAtNext
    <3>2. CASE u # t
      BY <2>2, <3>2, BlockAt, BlockAtNext
    <3>3. QED
      BY <3>1, <3>2
  <2>6. Blocks' = IF f.kind = "block" THEN Blocks \cup {<<t, n>>} ELSE Blocks
    BY <2>5, BlockPairs, BlockPairsNext
  <2>7. CASE f.kind = "block"
    <3>1. IsFiniteSet(Blocks') /\ Cardinality(Blocks') = Cardinality(Blocks) + 1
      BY <2>4, <2>6, <2>7, FS_AddElement DEF BlocksStacked
    <3>2. Len(current_queue_stack') = Len(current_queue_stack) + 1
      BY <1>2, <2>7 DEF GcdInv, GcdPushed
    <3>3. QED
      BY <3>1, <3>2 DEF BlocksStacked
  <2>8. CASE f.kind # "block"
    BY <1>2, <2>6, <2>8 DEF BlocksStacked, GcdPushed
  <2>9. QED
    BY <2>7, <2>8
<1>3. ASSUME NEW t \in GcdThreads, GcdPopped(t) PROVE BlocksStacked'
  <2> DEFINE n == Len(gcd_frames[t])
             f == gcd_frames[t][n]
  <2>1. gcd_frames[t] \in Seq(BlockFrames) /\ n \in Nat /\ n > 0 /\ n \in DOMAIN gcd_frames[t]
    BY <1>3 DEF GcdInv, GcdPopped
  <2>2. gcd_frames'[t] = SubSeq(gcd_frames[t], 1, n - 1)
        /\ \A u \in GcdThreads : u # t => gcd_frames'[u] = gcd_frames[u]
    BY <1>3 DEF GcdInv, GcdPopped
  <2>3. DOMAIN gcd_frames'[t] = DOMAIN gcd_frames[t] \ {n}
        /\ \A i \in DOMAIN gcd_frames'[t] : gcd_frames'[t][i] = gcd_frames[t][i]
    BY <2>1, <2>2
  <2>4. current_queue_stack' = IF f.kind = "block"
            THEN SubSeq(current_queue_stack, 1, Len(current_queue_stack) - 1) ELSE current_queue_stack
    BY <1>3 DEF GcdPopped
  <2>5. <<t, n>> \in Blocks <=> f.kind = "block"
    BY <2>1, BlockAt
  <2> HIDE DEF n, f
  <2>6. \A u, i : <<u, i>> \in Blocks' <=> <<u, i>> \in Blocks /\ <<u, i>> # <<t, n>>
    <3> TAKE u, i
    <3>1. CASE u = t
      BY <2>3, <3>1, BlockAt, BlockAtNext
    <3>2. CASE u # t
      BY <2>2, <3>2, BlockAt, BlockAtNext
    <3>3. QED
      BY <3>1, <3>2
  <2>7. Blocks' = Blocks \ {<<t, n>>}
    BY <2>6, BlockPairs, BlockPairsNext
  <2>8. CASE f.kind = "block"
    <3>1. IsFiniteSet(Blocks') /\ Cardinality(Blocks') = Cardinality(Blocks) - 1
      BY <2>5, <2>7, <2>8, FS_RemoveElement DEF BlocksStacked
    <3>2. Cardinality(Blocks') \in Nat
      BY <3>1, FS_CardinalityType
    <3>3. Len(current_queue_stack') = Len(current_queue_stack) - 1
      BY <2>4, <2>8, <3>1, <3>2 DEF GcdInv, BlocksStacked
    <3>4. QED
      BY <3>1, <3>3 DEF BlocksStacked
  <2>9. CASE f.kind # "block"
    <3>1. Blocks' = Blocks
      BY <2>5, <2>7, <2>9
    <3>2. QED
      BY <2>4, <2>9, <3>1 DEF BlocksStacked
  <2>10. QED
    BY <2>8, <2>9
<1>4. ASSUME NEW t \in GcdThreads, GcdAgain(t) PROVE BlocksStacked'
  <2> DEFINE n == Len(gcd_frames[t])
             f == gcd_frames[t][n]
             g == [f EXCEPT !.again = @ - 1]
  <2>1. gcd_frames[t] \in Seq(BlockFrames) /\ n \in Nat /\ n > 0 /\ n \in DOMAIN gcd_frames[t]
        /\ f \in BlockFrames
    BY <1>4 DEF GcdInv, GcdAgain
  <2>2. f.kind # "block" /\ g.kind = f.kind
    BY <1>4, <2>1 DEF GcdAgain, BlockFrames
  <2>3. gcd_frames'[t] = Append(SubSeq(gcd_frames[t], 1, n - 1), g)
        /\ \A u \in GcdThreads : u # t => gcd_frames'[u] = gcd_frames[u]
    BY <1>4 DEF GcdInv, GcdAgain
  <2> HIDE DEF f, g
  <2>4. DOMAIN gcd_frames'[t] = DOMAIN gcd_frames[t] /\ gcd_frames'[t][n] = g
        /\ \A i \in DOMAIN gcd_frames'[t] : i # n => gcd_frames'[t][i] = gcd_frames[t][i]
    BY <2>1, <2>3
  <2>5. \A u, i : <<u, i>> \in Blocks' <=> <<u, i>> \in Blocks
    <3> TAKE u, i
    <3>1. CASE u = t
      BY <2>2, <2>4, <3>1, BlockAt, BlockAtNext DEF f
    <3>2. CASE u # t
      BY <2>3, <3>2, BlockAt, BlockAtNext
    <3>3. QED
      BY <3>1, <3>2
  <2>6. Blocks' = Blocks
    BY <2>5, BlockPairs, BlockPairsNext
  <2>7. QED
    BY <1>4, <2>6 DEF BlocksStacked, GcdAgain
<1>5. QED
  BY <1>1, <1>2, <1>3, <1>4 DEF GcdStep

LEMMA GcdInitial ==
    ASSUME Gcd!Init
    PROVE  GcdInv /\ BlocksStacked /\ Blocks = {}
<1>1. Blocks = {}
  BY DEF Gcd!Init, Blocks, Gcd!Indices
<1>2. IsFiniteSet({}) /\ Cardinality({}) = 0
  BY FS_EmptySet
<1>3. QED
  BY <1>1, <1>2 DEF Gcd!Init, GcdInv, BlocksStacked

\* The stack of current queues has an entry for each block that runs, on whatever
\* thread, however blocks of several threads overlap (current_queue_stack).
THEOREM QueueStackBalanced ==
    ASSUME Gcd!DispatchAssumption
    PROVE  Gcd!Spec => []Gcd!StackBalanced
<1>1. Gcd!Init => GcdInv /\ BlocksStacked
  BY GcdInitial
<1>2. GcdInv /\ BlocksStacked /\ [Gcd!Next]_(Gcd!vars) => GcdInv' /\ BlocksStacked'
  BY GcdNext, BlocksStep
<1>3. BlocksStacked => Gcd!StackBalanced
  BY DEF BlocksStacked, Blocks, Gcd!StackBalanced, Gcd!Cardinality, Cardinality
<1>4. QED
  BY <1>1, <1>2, <1>3, PTL DEF Gcd!Spec

\* The block of a token is called once: the token is taken before.
OnceTaken == DOMAIN ran = Tokens /\ \A tok \in Tokens :
    ran[tok] \in {0, 1} /\ (ran[tok] = 1 => tok \in once_tokens)

\* dispatch_once calls the block of a token once, from whatever threads and from
\* within whatever blocks.
THEOREM DispatchedOnce == Gcd!Spec => []Gcd!OnceAtMostOnce
<1>1. Gcd!Init => OnceTaken
  BY DEF Gcd!Init, OnceTaken
<1>2. OnceTaken /\ [Gcd!Next]_(Gcd!vars) => OnceTaken'
  <2> SUFFICES ASSUME OnceTaken, [Gcd!Next]_(Gcd!vars) PROVE OnceTaken'
    OBVIOUS
  <2>1. CASE UNCHANGED <<ran, once_tokens>>
    BY <2>1 DEF OnceTaken
  <2>2. ASSUME NEW t \in GcdThreads, NEW tok \in Tokens, Gcd!dispatch_once(t, tok)
        PROVE  OnceTaken'
    <3>1. ran[tok] = 0 /\ once_tokens' = once_tokens \cup {tok}
          /\ ran' = [ran EXCEPT ![tok] = IF @ = 2 THEN 2 ELSE @ + 1]
      BY <2>2 DEF OnceTaken, Gcd!dispatch_once, Gcd!TakeToken
    <3>2. ran'[tok] = 1 /\ DOMAIN ran' = Tokens /\ \A k \in Tokens : k # tok => ran'[k] = ran[k]
      BY <3>1 DEF OnceTaken
    <3>3. QED
      BY <3>1, <3>2 DEF OnceTaken
  <2>3. QED
    BY <2>1, <2>2 DEF Gcd!Next, Gcd!vars, Gcd!dispatch_queue_create, Gcd!dispatch_semaphore_create,
       Gcd!dispatch_queue_set_specific, Gcd!dispatch_async, Gcd!dispatch_async_f,
       Gcd!dispatch_group_async, Gcd!dispatch_group_notify, Gcd!BlockReturns,
       Gcd!dispatch_semaphore_wait, Gcd!dispatch_semaphore_signal
<1>3. OnceTaken => Gcd!OnceAtMostOnce
  BY DEF OnceTaken, Gcd!OnceAtMostOnce
<1>4. QED
  BY <1>1, <1>2, <1>3, PTL DEF Gcd!Spec

\* With one thread the stack of current queues is that of its blocks: at[j] is the
\* frame that entry j is from.
Nested(t, at) ==
    /\ at \in [1 .. Len(current_queue_stack) -> 1 .. Len(gcd_frames[t])]
    /\ \A j \in 1 .. Len(current_queue_stack) :
          /\ gcd_frames[t][at[j]].kind = "block"
          /\ gcd_frames[t][at[j]].queue = current_queue_stack[j]
          /\ \A i \in 1 .. Len(current_queue_stack) : i < j => at[i] < at[j]
    /\ \A i \in 1 .. Len(gcd_frames[t]) : gcd_frames[t][i].kind = "block" =>
          \E j \in 1 .. Len(current_queue_stack) : at[j] = i

LEMMA NestedStep ==
    ASSUME GcdInv, GcdInv', GcdStep, NEW t, GcdThreads = {t}, NEW at, Nested(t, at)
    PROVE  \E new : Nested(t, new)'
<1> DEFINE stack == gcd_frames[t]
           n == Len(stack)
           m == Len(current_queue_stack)
<1>1. /\ stack \in Seq(BlockFrames) /\ n \in Nat /\ DOMAIN stack = 1 .. n
      /\ current_queue_stack \in Seq(Gcd!Queues) /\ m \in Nat /\ DOMAIN current_queue_stack = 1 .. m
  BY DEF GcdInv
<1>2. /\ at \in [1 .. m -> 1 .. n]
      /\ \A j \in 1 .. m : /\ stack[at[j]].kind = "block" /\ stack[at[j]].queue = current_queue_stack[j]
                           /\ \A i \in 1 .. m : i < j => at[i] < at[j]
      /\ \A i \in 1 .. n : stack[i].kind = "block" => \E j \in 1 .. m : at[j] = i
  BY DEF Nested
<1>3. \A j \in 1 .. m : at[j] \in 1 .. n
  BY <1>2
<1>4. ASSUME UNCHANGED <<gcd_frames, current_queue_stack>> PROVE Nested(t, at)'
  BY <1>2, <1>4 DEF Nested
<1>5. ASSUME NEW f \in BlockFrames, GcdPushed(t, f) PROVE \E new : Nested(t, new)'
  <2>1. gcd_frames'[t] = Append(stack, f)
    BY <1>5 DEF GcdInv, GcdPushed
  <2>2. Len(gcd_frames'[t]) = n + 1 /\ gcd_frames'[t][n + 1] = f
        /\ \A i \in 1 .. n : gcd_frames'[t][i] = stack[i]
    BY <1>1, <2>1
  <2>3. CASE f.kind = "block"
    <3> DEFINE longer == [j \in 1 .. m + 1 |-> IF j = m + 1 THEN n + 1 ELSE at[j]]
    <3>1. Len(current_queue_stack') = m + 1 /\ current_queue_stack'[m + 1] = f.queue
          /\ \A j \in 1 .. m : current_queue_stack'[j] = current_queue_stack[j]
      BY <1>1, <1>5, <2>3 DEF GcdPushed
    <3> HIDE DEF n, m, stack
    <3>2. PICK new : /\ new \in [1 .. m + 1 -> 1 .. n + 1] /\ new[m + 1] = n + 1
                     /\ \A j \in 1 .. m : new[j] = at[j]
      <4>1. longer \in [1 .. m + 1 -> 1 .. n + 1] /\ longer[m + 1] = n + 1
            /\ \A j \in 1 .. m : longer[j] = at[j]
        BY <1>1, <1>3
      <4>2. QED
        BY <4>1
    <3>3. \A j \in 1 .. m + 1 : /\ gcd_frames'[t][new[j]].kind = "block"
                                /\ gcd_frames'[t][new[j]].queue = current_queue_stack'[j]
                                /\ \A i \in 1 .. m + 1 : i < j => new[i] < new[j]
      <4> TAKE j \in 1 .. m + 1
      <4>1. CASE j = m + 1
        <5>1. \A i \in 1 .. m + 1 : i < j => i \in 1 .. m
          BY <1>1, <4>1
        <5>2. \A i \in 1 .. m + 1 : i < j => new[i] < n + 1
          BY <1>1, <1>3, <3>2, <5>1
        <5>3. QED
          BY <2>2, <2>3, <3>1, <3>2, <4>1, <5>2
      <4>2. CASE j # m + 1
        <5>1. j \in 1 .. m /\ \A i \in 1 .. m + 1 : i < j => i \in 1 .. m
          BY <1>1, <4>2
        <5>2. gcd_frames'[t][at[j]] = stack[at[j]]
          BY <1>3, <2>2, <5>1
        <5>3. new[j] = at[j] /\ \A i \in 1 .. m + 1 : i < j => new[i] = at[i]
          BY <3>2, <5>1
        <5>4. stack[at[j]].kind = "block" /\ stack[at[j]].queue = current_queue_stack'[j]
          BY <1>2, <3>1, <5>1
        <5>5. \A i \in 1 .. m + 1 : i < j => at[i] < at[j]
          BY <1>2, <5>1
        <5>6. QED
          BY <5>2, <5>3, <5>4, <5>5
      <4>3. QED
        BY <4>1, <4>2
    <3>4. \A i \in 1 .. n + 1 : gcd_frames'[t][i].kind = "block" => \E j \in 1 .. m + 1 : new[j] = i
      <4> TAKE i \in 1 .. n + 1
      <4>1. CASE i = n + 1
        BY <1>1, <3>2, <4>1
      <4>2. CASE i # n + 1
        <5>1. i \in 1 .. n
          BY <1>1, <4>2
        <5>2. gcd_frames'[t][i].kind = "block" => \E j \in 1 .. m : at[j] = i
          BY <1>2, <2>2, <5>1
        <5>3. QED
          BY <1>1, <3>2, <5>2
      <4>3. QED
        BY <4>1, <4>2
    <3>5. Nested(t, new)'
      BY <2>2, <3>1, <3>2, <3>3, <3>4 DEF Nested
    <3>6. QED
      BY <3>5
  <2>4. CASE f.kind # "block"
    <3>1. current_queue_stack' = current_queue_stack
      BY <1>5, <2>4 DEF GcdPushed
    <3> HIDE DEF n, m, stack
    <3>2. at \in [1 .. m -> 1 .. n + 1]
      BY <1>1, <1>2
    <3>3. \A i \in 1 .. n + 1 : gcd_frames'[t][i].kind = "block" => \E j \in 1 .. m : at[j] = i
      <4> TAKE i \in 1 .. n + 1
      <4>1. CASE i = n + 1
        BY <2>2, <2>4, <4>1
      <4>2. CASE i # n + 1
        <5>1. i \in 1 .. n
          BY <1>1, <4>2
        <5>2. QED
          BY <1>2, <2>2, <5>1
      <4>3. QED
        BY <4>1, <4>2
    <3>4. \A j \in 1 .. m : gcd_frames'[t][at[j]] = stack[at[j]]
      BY <1>3, <2>2
    <3>5. Nested(t, at)'
      BY <1>2, <2>2, <3>1, <3>2, <3>3, <3>4 DEF Nested, m
    <3>6. QED
      BY <3>5
  <2>5. QED
    BY <2>3, <2>4
<1>6. ASSUME GcdPopped(t) PROVE \E new : Nested(t, new)'
  <2>1. n > 0 /\ gcd_frames'[t] = SubSeq(stack, 1, n - 1)
    BY <1>1, <1>6 DEF GcdInv, GcdPopped
  <2>2. Len(gcd_frames'[t]) = n - 1 /\ \A i \in 1 .. n - 1 : gcd_frames'[t][i] = stack[i]
    BY <1>1, <2>1
  <2>3. CASE stack[n].kind = "block"
    <3>1. current_queue_stack' = SubSeq(current_queue_stack, 1, m - 1)
      BY <1>6, <2>3 DEF GcdPopped
    <3>2. m > 0
      <4> HIDE DEF n, m, stack
      <4>1. n \in 1 .. n
        BY <1>1, <2>1
      <4>2. QED
        BY <1>1, <1>2, <2>3, <4>1
    <3>3. Len(current_queue_stack') = m - 1
          /\ \A j \in 1 .. m - 1 : current_queue_stack'[j] = current_queue_stack[j]
      BY <1>1, <3>1, <3>2
    <3> DEFINE shorter == [j \in 1 .. m - 1 |-> at[j]]
    <3> HIDE DEF n, m, stack
    <3>4. \A j \in 1 .. m - 1 : j \in 1 .. m /\ j < m /\ m \in 1 .. m
      BY <1>1
    <3>5. \A j \in 1 .. m - 1 : at[j] \in 1 .. n - 1
      <4> TAKE j \in 1 .. m - 1
      <4>1. at[j] \in 1 .. n /\ at[m] \in 1 .. n
        BY <1>3, <3>4
      <4>2. at[j] < at[m]
        BY <1>2, <3>4
      <4>3. QED
        BY <1>1, <4>1, <4>2
    <3>6. PICK new : new \in [1 .. m - 1 -> 1 .. n - 1] /\ \A j \in 1 .. m - 1 : new[j] = at[j]
      <4>1. shorter \in [1 .. m - 1 -> 1 .. n - 1] /\ \A j \in 1 .. m - 1 : shorter[j] = at[j]
        BY <3>5
      <4>2. QED
        BY <4>1
    <3>7. \A j \in 1 .. m - 1 : /\ gcd_frames'[t][new[j]].kind = "block"
                                /\ gcd_frames'[t][new[j]].queue = current_queue_stack'[j]
                                /\ \A i \in 1 .. m - 1 : i < j => new[i] < new[j]
      <4> TAKE j \in 1 .. m - 1
      <4>1. gcd_frames'[t][at[j]] = stack[at[j]]
        BY <2>2, <3>5
      <4>2. QED
        BY <1>2, <3>3, <3>4, <3>6, <4>1
    <3>8. \A i \in 1 .. n - 1 : gcd_frames'[t][i].kind = "block" => \E j \in 1 .. m - 1 : new[j] = i
      <4> TAKE i \in 1 .. n - 1
      <4>1. SUFFICES ASSUME gcd_frames'[t][i].kind = "block"
                     PROVE  \E j \in 1 .. m - 1 : new[j] = i
        OBVIOUS
      <4>2. i \in 1 .. n /\ n \in 1 .. n /\ i < n
        BY <1>1, <2>1
      <4>3. PICK j \in 1 .. m : at[j] = i
        BY <1>2, <2>2, <4>1, <4>2
      <4>4. PICK k \in 1 .. m : at[k] = n
        BY <1>2, <2>3, <4>2
      <4>5. j # m
        <5>1. SUFFICES ASSUME j = m PROVE FALSE
          OBVIOUS
        <5>2. m \in 1 .. m /\ (k < m \/ k = m)
          BY <1>1, <3>2
        <5>3. k < m => at[k] < at[m]
          BY <1>2, <5>2
        <5>4. QED
          BY <1>1, <4>2, <4>3, <4>4, <5>1, <5>2, <5>3
      <4>6. j \in 1 .. m - 1
        BY <1>1, <4>5
      <4>7. QED
        BY <3>6, <4>3, <4>6
    <3>9. Nested(t, new)'
      BY <2>2, <3>3, <3>6, <3>7, <3>8 DEF Nested
    <3>10. QED
      BY <3>9
  <2>4. CASE stack[n].kind # "block"
    <3>1. current_queue_stack' = current_queue_stack
      BY <1>6, <2>4 DEF GcdPopped
    <3> HIDE DEF n, m, stack
    <3>2. \A j \in 1 .. m : at[j] \in 1 .. n - 1
      <4> TAKE j \in 1 .. m
      <4>1. at[j] \in 1 .. n /\ at[j] # n
        BY <1>2, <1>3, <2>4
      <4>2. QED
        BY <1>1, <4>1
    <3>3. at \in [1 .. m -> 1 .. n - 1]
      BY <1>2, <3>2
    <3>4. \A j \in 1 .. m : gcd_frames'[t][at[j]] = stack[at[j]]
      BY <2>2, <3>2
    <3>5. \A i \in 1 .. n - 1 : gcd_frames'[t][i].kind = "block" => \E j \in 1 .. m : at[j] = i
      <4> TAKE i \in 1 .. n - 1
      <4>1. i \in 1 .. n
        BY <1>1
      <4>2. QED
        BY <1>2, <2>2, <4>1
    <3>6. Nested(t, at)'
      BY <1>2, <2>2, <3>1, <3>3, <3>4, <3>5 DEF Nested, m
    <3>7. QED
      BY <3>6
  <2>5. QED
    BY <2>3, <2>4
<1>7. ASSUME GcdAgain(t) PROVE \E new : Nested(t, new)'
  <2> DEFINE g == [stack[n] EXCEPT !.again = @ - 1]
  <2>1. n > 0 /\ stack[n] \in BlockFrames /\ stack[n].kind # "block"
    BY <1>1, <1>7 DEF GcdAgain
  <2>2. g.kind = stack[n].kind
    BY <2>1 DEF BlockFrames
  <2>3. gcd_frames'[t] = Append(SubSeq(stack, 1, n - 1), g) /\ UNCHANGED current_queue_stack
    BY <1>1, <1>7 DEF GcdInv, GcdAgain
  <2> HIDE DEF g
  <2>4. Len(gcd_frames'[t]) = n /\ gcd_frames'[t][n] = g
        /\ \A i \in 1 .. n : i # n => gcd_frames'[t][i] = stack[i]
    BY <1>1, <2>1, <2>3
  <2> HIDE DEF n, m, stack
  <2>5. \A j \in 1 .. m : at[j] # n /\ gcd_frames'[t][at[j]] = stack[at[j]]
    BY <1>2, <1>3, <2>1, <2>4
  <2>6. \A i \in 1 .. n : gcd_frames'[t][i].kind = "block" => \E j \in 1 .. m : at[j] = i
    BY <1>2, <2>1, <2>2, <2>4
  <2>7. Nested(t, at)'
    BY <1>2, <2>3, <2>4, <2>5, <2>6 DEF Nested, m
  <2>8. QED
    BY <2>7
<1>8. QED
  BY <1>4, <1>5, <1>6, <1>7 DEF GcdStep

\* "Returns the value associated with key on the queue currently executing the
\* caller": in a block, with one thread, the queue it was dispatched on, whatever ran
\* on other queues in between (dispatch_get_specific).
THEOREM SpecificOfInnermost ==
    ASSUME Gcd!DispatchAssumption, NEW t, GcdThreads = {t}
    PROVE  Gcd!Spec => []Gcd!SpecificOfCaller
<1> DEFINE Inv == GcdInv /\ \E at : Nested(t, at)
<1>1. Gcd!Init => Inv
  <2> SUFFICES ASSUME Gcd!Init PROVE Inv
    OBVIOUS
  <2>1. current_queue_stack = <<>> /\ gcd_frames[t] = <<>>
    BY DEF Gcd!Init
  <2>2. Nested(t, <<>>)
    BY <2>1 DEF Nested
  <2>3. QED
    BY <2>2, GcdInitial
<1>2. Inv /\ [Gcd!Next]_(Gcd!vars) => Inv'
  <2> SUFFICES ASSUME Inv, [Gcd!Next]_(Gcd!vars) PROVE Inv'
    OBVIOUS
  <2>1. PICK at : Nested(t, at)
    OBVIOUS
  <2>2. GcdInv' /\ GcdStep
    BY GcdNext
  <2>3. \E new : Nested(t, new)'
    BY <2>1, <2>2, NestedStep
  <2>4. QED
    BY <2>2, <2>3
<1>3. Inv => Gcd!SpecificOfCaller
  <2> SUFFICES ASSUME GcdInv, NEW at, Nested(t, at),
                      gcd_frames[t] # <<>>, Gcd!Last(gcd_frames[t]).kind = "block"
               PROVE  Gcd!CurrentQueue = Gcd!QueueOf(t)
    BY DEF Gcd!SpecificOfCaller, Gcd!dispatch_get_specific
  <2> DEFINE n == Len(gcd_frames[t])
             m == Len(current_queue_stack)
  <2>1. gcd_frames[t] \in Seq(BlockFrames) /\ n \in Nat /\ n > 0 /\ n \in 1 .. n /\ m \in Nat
    BY DEF GcdInv
  <2>2. /\ at \in [1 .. m -> 1 .. n] /\ \A j \in 1 .. m : at[j] \in 1 .. n
        /\ \A j \in 1 .. m : /\ gcd_frames[t][at[j]].queue = current_queue_stack[j]
                             /\ \A i \in 1 .. m : i < j => at[i] < at[j]
        /\ \A i \in 1 .. n : gcd_frames[t][i].kind = "block" => \E j \in 1 .. m : at[j] = i
    BY DEF Nested
  <2>3. gcd_frames[t][n].kind = "block" /\ Gcd!QueueOf(t) = gcd_frames[t][n].queue
    BY DEF Gcd!Last, Gcd!QueueOf
  <2> HIDE DEF n, m
  <2>4. PICK k \in 1 .. m : at[k] = n
    BY <2>1, <2>2, <2>3
  <2>5. k = m
    <3>1. m \in 1 .. m /\ (k < m \/ k = m)
      BY <2>1
    <3>2. k < m => at[k] < at[m]
      BY <2>2, <3>1
    <3>3. at[m] \in 1 .. n
      BY <2>2, <3>1
    <3>4. QED
      BY <2>1, <2>4, <3>1, <3>2, <3>3
  <2>6. gcd_frames[t][n].queue = current_queue_stack[m] /\ m > 0
    BY <2>1, <2>2, <2>4, <2>5
  <2>7. Gcd!CurrentQueue = current_queue_stack[m]
    BY <2>6 DEF Gcd!CurrentQueue, Gcd!Last, GcdInv, m
  <2>8. QED
    BY <2>3, <2>6, <2>7
<1>4. QED
  BY <1>1, <1>2, <1>3, PTL DEF Gcd!Spec

(***************************************************************************)
(* Performed selectors                                                     *)
(***************************************************************************)
CONSTANTS Performers, Receivers, Selectors, MaxTimers, MaxCancels, FireDepth
VARIABLES timers, SYNC_PERFORM_SEMAPHORES, posted, CANCELLED_PERFORMS, firing,
          waits, withdrawn
Perform == INSTANCE PerformSelectors WITH
    Threads <- Performers, Objects <- Receivers, MaxDepth <- FireDepth,
    cancelled <- withdrawn

Requests == [target : Receivers, selector : Selectors,
             at : {"pending", "running", "performed", "skipped"}]
Firings == [timer : Nat, waited : BOOLEAN]
Notes == Receivers \X (Selectors \cup {Perform!All})

PerformTypes ==
    /\ timers \in Seq(Requests)
    /\ DOMAIN SYNC_PERFORM_SEMAPHORES \subseteq Perform!Pending
    /\ posted \subseteq DOMAIN timers /\ Perform!PostedWhenDone
    /\ CANCELLED_PERFORMS \in Seq(Notes)
    /\ waits \in [Performers -> {0} \cup DOMAIN timers]
    /\ firing \in Seq(Firings)

\* The selectors in progress are those of the timers that run, each once.
FiringInv ==
    /\ \A i \in DOMAIN firing : /\ firing[i].timer \in DOMAIN timers
                                /\ timers[firing[i].timer].at = "running"
    /\ \A k \in DOMAIN timers : timers[k].at = "running" =>
          \E i \in DOMAIN firing : firing[i].timer = k
    /\ \A i \in DOMAIN firing, j \in DOMAIN firing : firing[i].timer = firing[j].timer => i = j

\* Threads wait for timers of their own, and a post is on its way.
OwedBy(k) == \/ k \in DOMAIN SYNC_PERFORM_SEMAPHORES
             \/ \E i \in DOMAIN firing : firing[i].timer = k /\ firing[i].waited
             \/ k \in posted
WaitsInv ==
    /\ \A t \in Performers, u \in Performers : waits[t] # 0 /\ waits[t] = waits[u] => t = u
    /\ \A t \in Performers : waits[t] # 0 => OwedBy(waits[t])

\* As long as a timer that was cancelled with all others is pending, the note is there.
Noted(o) == \E i \in DOMAIN CANCELLED_PERFORMS : CANCELLED_PERFORMS[i] = <<o, Perform!All>>
CancelInv == \A k : <<k, Perform!All>> \in withdrawn =>
    /\ k \in DOMAIN timers /\ timers[k].at \in {"pending", "skipped"}
    /\ timers[k].at = "pending" => Noted(timers[k].target)

PerformInv == PerformTypes /\ FiringInv /\ WaitsInv /\ CancelInv

\* A set of numbers has a least one.
LEMMA LeastOfNats ==
    ASSUME NEW T \in SUBSET Nat, T # {}
    PROVE  \E x \in T : \A y \in T : x <= y
<1> DEFINE R == OpToRel(<, Nat)
<1>1. \A x, y \in Nat : <<y, x>> \in R <=> y < x
  BY DEF OpToRel
<1>2. IsWellFoundedOn(R, Nat)
  BY NatLessThanWellFounded
<1> HIDE DEF R
<1>3. PICK x \in T : \A y \in T : ~ (<<y, x>> \in R)
  BY <1>2, WFMin
<1>4. \A y \in T : x <= y
  <2> SUFFICES ASSUME NEW y \in T PROVE x <= y
    OBVIOUS
  <2>1. x \in Nat /\ y \in Nat /\ ~ (y < x)
    BY <1>1, <1>3
  <2>2. QED
    BY <2>1
<1>5. QED
  BY <1>4

\* And Min is it.
LEMMA LeastNumber ==
    ASSUME NEW T \in SUBSET Nat, T # {}
    PROVE  Perform!Min(T) \in T
<1>1. \E x \in T : \A y \in T : x <= y
  BY LeastOfNats
<1>2. QED
  BY <1>1 DEF Perform!Min

\* A note for one selector is used up, the notes for all stay.
LEMMA NoteUsed ==
    ASSUME Perform!PerformAssumption, PerformTypes, NEW o, NEW sel \in Selectors,
           Perform!UseNote(o, sel)
    PROVE  CANCELLED_PERFORMS' \in Seq(Notes) /\ \A x : Noted(x) => Noted(x)'
<1> DEFINE notes == Perform!NotesFor(o, sel)
           s == CANCELLED_PERFORMS
           n == Perform!Min(notes)
<1>1. s \in Seq(Notes) /\ notes \subseteq Nat /\ \A i \in notes : i \in 1 .. Len(s) /\ s[i] = <<o, sel>>
  <2>1. s \in Seq(Notes) /\ DOMAIN s = 1 .. Len(s)
    BY DEF PerformTypes
  <2>2. notes \subseteq DOMAIN s /\ \A i \in notes : s[i] = <<o, sel>>
    BY DEF Perform!NotesFor
  <2> HIDE DEF notes
  <2>3. QED
    BY <2>1, <2>2
<1>2. CASE notes = {}
  BY <1>1, <1>2 DEF Perform!UseNote, Noted
<1>3. CASE notes # {}
  <2>1. n \in 1 .. Len(s) /\ s[n] = <<o, sel>>
    BY <1>1, <1>3, LeastNumber
  <2>2. s' = SubSeq(s, 1, n - 1) \o SubSeq(s, n + 1, Len(s))
    BY <1>3 DEF Perform!UseNote, Perform!RemoveAt
  <2> HIDE DEF notes, n
  <2>3. /\ SubSeq(s, 1, n - 1) \in Seq(Notes) /\ Len(SubSeq(s, 1, n - 1)) = n - 1
        /\ SubSeq(s, n + 1, Len(s)) \in Seq(Notes) /\ Len(SubSeq(s, n + 1, Len(s))) = Len(s) - n
        /\ \A i \in 1 .. n - 1 : SubSeq(s, 1, n - 1)[i] = s[i]
        /\ \A i \in 1 .. Len(s) - n : SubSeq(s, n + 1, Len(s))[i] = s[i + n]
    BY <1>1, <2>1
  <2> DEFINE before == SubSeq(s, 1, n - 1)
             after == SubSeq(s, n + 1, Len(s))
  <2>a. /\ before \in Seq(Notes) /\ Len(before) = n - 1 /\ after \in Seq(Notes)
        /\ Len(after) = Len(s) - n /\ CANCELLED_PERFORMS' = before \o after
    BY <2>2, <2>3
  <2>4. s' \in Seq(Notes) /\ Len(s') = Len(s) - 1 /\ DOMAIN s' = 1 .. Len(s')
    <3> HIDE DEF before, after
    <3>1. before \o after \in Seq(Notes) /\ Len(before \o after) = Len(before) + Len(after)
      BY <2>a, ConcatProperties
    <3>2. QED
      BY <1>1, <2>1, <2>a, <3>1
  <2>5. ASSUME NEW i \in 1 .. Len(s), i # n
        PROVE  \E j \in 1 .. Len(s') : s'[j] = s[i]
    <3>1. CASE i < n
      <4>1. i \in 1 .. n - 1 /\ i \in 1 .. Len(s')
        BY <1>1, <2>1, <2>4, <3>1
      <4>2. s'[i] = s[i]
        BY <2>2, <2>3, <4>1
      <4>3. QED
        BY <4>1, <4>2
    <3>2. CASE i > n
      <4>1. i - 1 \in 1 .. Len(s') /\ i - n \in 1 .. Len(s) - n /\ i - 1 = n - 1 + (i - n)
        BY <1>1, <2>1, <2>4, <3>2
      <4>2. s'[i - 1] = s[i]
        BY <1>1, <2>1, <2>2, <2>3, <4>1
      <4>3. QED
        BY <4>1, <4>2
    <3>3. QED
      BY <1>1, <2>1, <2>5, <3>1, <3>2
  <2>6. ASSUME NEW x, Noted(x) PROVE Noted(x)'
    <3>1. PICK i \in 1 .. Len(s) : s[i] = <<x, Perform!All>>
      BY <1>1, <2>6 DEF Noted
    <3>2. i # n
      BY <2>1, <3>1 DEF Perform!PerformAssumption
    <3>3. PICK j \in 1 .. Len(s') : s'[j] = s[i]
      BY <2>5, <3>2
    <3>4. j \in DOMAIN CANCELLED_PERFORMS' /\ CANCELLED_PERFORMS'[j] = <<x, Perform!All>>
      BY <2>4, <3>1, <3>3
    <3>5. QED
      BY <3>4 DEF Noted
  <2>7. QED
    BY <2>4, <2>6
<1>4. QED
  BY <1>2, <1>3

\* A timer gets on, and nothing else of it changes.
LEMMA TimerAt ==
    ASSUME PerformTypes, NEW k \in DOMAIN timers,
           NEW x \in {"pending", "running", "performed", "skipped"},
           timers' = [timers EXCEPT ![k].at = x]
    PROVE  /\ timers' \in Seq(Requests) /\ DOMAIN timers' = DOMAIN timers
           /\ timers'[k].at = x
           /\ \A j \in DOMAIN timers : /\ timers'[j].target = timers[j].target
                                       /\ j # k => timers'[j] = timers[j]
<1>1. timers \in Seq(Requests) /\ timers[k] \in Requests
  BY DEF PerformTypes
<1> DEFINE r == [timers[k] EXCEPT !.at = x]
<1>2. r \in Requests /\ r.at = x /\ r.target = timers[k].target
  BY <1>1 DEF Requests
<1>3. timers' = [timers EXCEPT ![k] = r]
  OBVIOUS
<1> HIDE DEF r
<1>4. timers' \in Seq(Requests) /\ DOMAIN timers' = DOMAIN timers
  BY <1>1, <1>2, <1>3
<1>5. QED
  BY <1>1, <1>2, <1>3, <1>4

\* A request is made.
LEMMA TimerAdded ==
    ASSUME PerformInv, NEW o \in Receivers, NEW sel \in Selectors, Perform!addTimer(o, sel)
    PROVE  /\ timers' \in Seq(Requests) /\ Len(timers') = Len(timers) + 1
           /\ Len(timers) + 1 \notin DOMAIN timers
           /\ timers'[Len(timers) + 1].at = "pending"
           /\ DOMAIN timers' = DOMAIN timers \cup {Len(timers) + 1}
           /\ \A k \in DOMAIN timers : timers'[k] = timers[k] /\ k # 0
           /\ Perform!Pending' = Perform!Pending \cup {Len(timers) + 1}
<1> DEFINE r == Perform!Timer(o, sel)
<1>1. timers \in Seq(Requests) /\ r \in Requests /\ r.at = "pending" /\ timers' = Append(timers, r)
  BY DEF PerformInv, PerformTypes, Perform!addTimer, Perform!Timer, Requests
<1> HIDE DEF r
<1>2. /\ timers' \in Seq(Requests) /\ Len(timers') = Len(timers) + 1
      /\ Len(timers) + 1 \notin DOMAIN timers
      /\ timers'[Len(timers) + 1].at = "pending"
      /\ DOMAIN timers' = DOMAIN timers \cup {Len(timers) + 1}
      /\ \A k \in DOMAIN timers : timers'[k] = timers[k] /\ k # 0
  BY <1>1
<1>3. QED
  BY <1>2 DEF Perform!Pending

LEMMA RequestMade ==
    ASSUME PerformInv, NEW o \in Receivers, NEW sel \in Selectors,
           Perform!performSelector_afterDelay(o, sel)
    PROVE  PerformInv'
<1>1. Perform!addTimer(o, sel)
      /\ UNCHANGED <<SYNC_PERFORM_SEMAPHORES, posted, CANCELLED_PERFORMS, firing, waits, withdrawn>>
  BY DEF Perform!performSelector_afterDelay
<1>2. PerformTypes'
  BY <1>1, TimerAdded DEF PerformInv, PerformTypes, Perform!PostedWhenDone
<1>3. FiringInv'
  BY <1>1, TimerAdded DEF PerformInv, FiringInv
<1>4. WaitsInv'
  BY <1>1 DEF PerformInv, WaitsInv, OwedBy
<1>5. CancelInv'
  BY <1>1, TimerAdded DEF PerformInv, CancelInv, Noted
<1>6. QED
  BY <1>2, <1>3, <1>4, <1>5 DEF PerformInv

LEMMA WaitBegun ==
    ASSUME PerformInv, NEW t \in Performers, NEW o \in Receivers, NEW sel \in Selectors,
           Perform!performSelectorOnMainThread_wait(t, o, sel)
    PROVE  PerformInv'
<1> SUFFICES ASSUME NEW k, k = Len(timers) + 1 PROVE PerformInv'
  OBVIOUS
<1>1. Perform!addTimer(o, sel) /\ waits[t] = 0 /\ waits' = [waits EXCEPT ![t] = k]
      /\ DOMAIN SYNC_PERFORM_SEMAPHORES' = DOMAIN SYNC_PERFORM_SEMAPHORES \cup {k}
      /\ UNCHANGED <<posted, CANCELLED_PERFORMS, firing, withdrawn>>
  BY DEF Perform!performSelectorOnMainThread_wait
<1>2. PerformTypes'
  <2>1. waits' \in [Performers -> {0} \cup DOMAIN timers']
    BY <1>1, TimerAdded DEF PerformInv, PerformTypes
  <2>2. QED
    BY <1>1, <2>1, TimerAdded DEF PerformInv, PerformTypes, Perform!PostedWhenDone
<1>3. FiringInv'
  BY <1>1, TimerAdded DEF PerformInv, FiringInv
<1>4. WaitsInv'
  <2>1. waits'[t] = k /\ \A u \in Performers : u # t => waits'[u] = waits[u] /\ waits[u] # k
    <3>1. waits \in [Performers -> {0} \cup DOMAIN timers] /\ k \notin DOMAIN timers /\ k # 0
      BY <1>1, TimerAdded DEF PerformInv, PerformTypes
    <3>2. QED
      BY <1>1, <3>1
  <2>2. \A j : OwedBy(j) => OwedBy(j)'
    BY <1>1 DEF OwedBy
  <2>3. OwedBy(k)'
    BY <1>1 DEF OwedBy
  <2>4. QED
    BY <2>1, <2>2, <2>3 DEF PerformInv, WaitsInv
<1>5. CancelInv'
  BY <1>1, TimerAdded DEF PerformInv, CancelInv, Noted
<1>6. QED
  BY <1>2, <1>3, <1>4, <1>5 DEF PerformInv

LEMMA WaitEnded ==
    ASSUME PerformInv, NEW t \in Performers, Perform!WaitReturns(t)
    PROVE  PerformInv'
<1>1. waits[t] \in posted /\ posted' = posted \ {waits[t]} /\ waits' = [waits EXCEPT ![t] = 0]
      /\ UNCHANGED <<timers, SYNC_PERFORM_SEMAPHORES, CANCELLED_PERFORMS, firing, withdrawn>>
  BY DEF Perform!WaitReturns
<1>2. PerformTypes'
  BY <1>1 DEF PerformInv, PerformTypes, Perform!PostedWhenDone, Perform!Pending
<1>3. FiringInv' /\ CancelInv'
  BY <1>1 DEF PerformInv, FiringInv, CancelInv, Noted
<1>4. waits'[t] = 0 /\ \A u \in Performers : u # t => waits'[u] = waits[u]
  BY <1>1 DEF PerformInv, PerformTypes
<1>5. \A j : j # waits[t] /\ OwedBy(j) => OwedBy(j)'
  BY <1>1 DEF OwedBy
<1>6. WaitsInv'
  <2>1. \A u \in Performers : waits'[u] # 0 => u # t /\ waits'[u] = waits[u] /\ waits[u] # waits[t]
    BY <1>4 DEF PerformInv, WaitsInv
  <2>2. QED
    BY <1>5, <2>1 DEF PerformInv, WaitsInv
<1>7. QED
  BY <1>2, <1>3, <1>6 DEF PerformInv

LEMMA RequestsCancelled ==
    ASSUME PerformInv, NEW o \in Receivers, NEW sel \in Selectors \cup {Perform!All},
           Perform!cancelPreviousPerformRequests(o, sel)
    PROVE  PerformInv'
<1>1. CANCELLED_PERFORMS' = Append(CANCELLED_PERFORMS, <<o, sel>>)
      /\ UNCHANGED <<timers, SYNC_PERFORM_SEMAPHORES, posted, firing, waits>>
  BY DEF Perform!cancelPreviousPerformRequests
<1>2. CANCELLED_PERFORMS \in Seq(Notes) /\ <<o, sel>> \in Notes
  BY DEF PerformInv, PerformTypes, Notes
<1>3. PerformTypes'
  BY <1>1, <1>2 DEF PerformInv, PerformTypes, Perform!PostedWhenDone, Perform!Pending
<1>4. FiringInv' /\ WaitsInv'
  BY <1>1 DEF PerformInv, FiringInv, WaitsInv, OwedBy
<1>5. (\A x : Noted(x) => Noted(x)') /\ (sel = Perform!All => Noted(o)')
  <2>1. Len(CANCELLED_PERFORMS') = Len(CANCELLED_PERFORMS) + 1
        /\ Len(CANCELLED_PERFORMS) + 1 \in DOMAIN CANCELLED_PERFORMS'
        /\ CANCELLED_PERFORMS'[Len(CANCELLED_PERFORMS) + 1] = <<o, sel>>
        /\ \A i \in DOMAIN CANCELLED_PERFORMS : /\ i \in DOMAIN CANCELLED_PERFORMS'
                                                /\ CANCELLED_PERFORMS'[i] = CANCELLED_PERFORMS[i]
    BY <1>1, <1>2
  <2>2. ASSUME NEW x, Noted(x) PROVE Noted(x)'
    <3>1. PICK i \in DOMAIN CANCELLED_PERFORMS : CANCELLED_PERFORMS[i] = <<x, Perform!All>>
      BY <2>2 DEF Noted
    <3>2. QED
      BY <2>1, <3>1 DEF Noted
  <2>3. ASSUME sel = Perform!All PROVE Noted(o)'
    <3>1. CANCELLED_PERFORMS'[Len(CANCELLED_PERFORMS) + 1] = <<o, Perform!All>>
      BY <2>1, <2>3
    <3>2. \E i \in DOMAIN CANCELLED_PERFORMS' : CANCELLED_PERFORMS'[i] = <<o, Perform!All>>
      BY <2>1, <3>1
    <3>3. QED
      BY <3>2 DEF Noted
  <2>4. QED
    BY <2>2, <2>3
<1>6. CancelInv'
  <2> SUFFICES ASSUME NEW k, <<k, Perform!All>> \in withdrawn'
               PROVE  /\ k \in DOMAIN timers /\ timers[k].at \in {"pending", "skipped"}
                      /\ timers[k].at = "pending" => Noted(timers[k].target)'
    BY <1>1 DEF CancelInv
  <2>1. CASE <<k, Perform!All>> \in withdrawn
    <3>1. /\ k \in DOMAIN timers /\ timers[k].at \in {"pending", "skipped"}
          /\ timers[k].at = "pending" => Noted(timers[k].target)
      BY <2>1 DEF PerformInv, CancelInv
    <3>2. ASSUME timers[k].at = "pending" PROVE Noted(timers[k].target)'
      <4>1. PICK x : x = timers[k].target /\ Noted(x)
        BY <3>1, <3>2
      <4>2. Noted(x)'
        BY <1>5, <4>1
      <4>3. UNCHANGED timers
        BY <1>1
      <4>4. QED
        BY <4>1, <4>2, <4>3
    <3>3. QED
      BY <3>1, <3>2
  <2>2. CASE <<k, Perform!All>> \notin withdrawn
    <3>1. k \in Perform!Pending /\ timers[k].target = o /\ sel = Perform!All
      BY <2>2 DEF Perform!cancelPreviousPerformRequests
    <3>2. Noted(o)' /\ k \in DOMAIN timers /\ timers[k].at = "pending"
      BY <1>5, <3>1 DEF Perform!Pending
    <3>3. UNCHANGED timers
      BY <1>1
    <3>4. QED
      BY <3>1, <3>2, <3>3
  <2>3. QED
    BY <2>1, <2>2
<1>7. QED
  BY <1>3, <1>4, <1>6 DEF PerformInv

LEMMA TimerFired ==
    ASSUME Perform!PerformAssumption, PerformInv, NEW k \in DOMAIN timers,
           Perform!timerFireMethod(k)
    PROVE  PerformInv'
<1> DEFINE o == timers[k].target
           sel == timers[k].selector
           noted == Perform!NotesFor(o, sel) \cup Perform!NotesFor(o, Perform!All) # {}
<1>1. /\ timers[k].at = "pending" /\ k \in Perform!Pending /\ k \in Nat /\ k # 0
      /\ o \in Receivers /\ sel \in Selectors
  <2>1. timers \in Seq(Requests) /\ k \in Perform!Pending
    BY DEF PerformInv, PerformTypes, Perform!timerFireMethod
  <2>2. timers[k] \in Requests /\ k \in Nat /\ k # 0
    BY <2>1
  <2>3. QED
    BY <2>1, <2>2 DEF Perform!Pending, Requests
<1>2. /\ Perform!UseNote(o, sel)
      /\ IF noted THEN Perform!Skip(k) ELSE Perform!Call(k)
      /\ Perform!TakeSemaphore(k)
      /\ UNCHANGED <<waits, withdrawn>>
  BY DEF Perform!timerFireMethod
<1>3. CANCELLED_PERFORMS' \in Seq(Notes) /\ \A x : Noted(x) => Noted(x)'
  BY <1>1, <1>2, NoteUsed DEF PerformInv
<1>4. DOMAIN SYNC_PERFORM_SEMAPHORES' = DOMAIN SYNC_PERFORM_SEMAPHORES \ {k}
  BY <1>2 DEF Perform!TakeSemaphore
<1>5. Noted(o) => noted
  BY DEF Noted, Perform!NotesFor
<1>6. ~Noted(o) => <<k, Perform!All>> \notin withdrawn
  BY <1>1 DEF PerformInv, CancelInv
<1> HIDE DEF o, sel, noted
<1>7. CASE noted
  <2>1. /\ timers' = [timers EXCEPT ![k].at = "skipped"] /\ UNCHANGED firing
        /\ posted' = IF k \in DOMAIN SYNC_PERFORM_SEMAPHORES THEN posted \cup {k} ELSE posted
    BY <1>2, <1>7 DEF Perform!Skip, Perform!Waited
  <2>2. /\ timers' \in Seq(Requests) /\ DOMAIN timers' = DOMAIN timers /\ timers'[k].at = "skipped"
        /\ \A j \in DOMAIN timers : /\ timers'[j].target = timers[j].target
                                    /\ j # k => timers'[j] = timers[j]
    BY <2>1, TimerAt DEF PerformInv
  <2>3. PerformTypes'
    <3>1. DOMAIN SYNC_PERFORM_SEMAPHORES' \subseteq Perform!Pending'
      BY <1>4, <2>2 DEF PerformInv, PerformTypes, Perform!Pending
    <3>2. posted' \subseteq DOMAIN timers' /\ Perform!PostedWhenDone'
      BY <2>1, <2>2 DEF PerformInv, PerformTypes, Perform!PostedWhenDone
    <3>3. QED
      BY <1>2, <1>3, <2>1, <2>2, <3>1, <3>2 DEF PerformInv, PerformTypes
  <2>4. FiringInv'
    BY <1>1, <2>1, <2>2 DEF PerformInv, FiringInv
  <2>5. \A j : OwedBy(j) => OwedBy(j)'
    BY <1>4, <2>1 DEF OwedBy
  <2>6. WaitsInv'
    BY <1>2, <2>5 DEF PerformInv, WaitsInv
  <2>7. CancelInv'
    BY <1>2, <1>3, <2>2 DEF PerformInv, CancelInv
  <2>8. QED
    BY <2>3, <2>4, <2>6, <2>7 DEF PerformInv
<1>8. CASE ~noted
  <2> DEFINE f == [timer |-> k, waited |-> Perform!Waited(k)]
  <2>1. /\ timers' = [timers EXCEPT ![k].at = "running"] /\ UNCHANGED posted
        /\ firing' = Append(firing, f)
    BY <1>2, <1>8 DEF Perform!Call
  <2>2. /\ timers' \in Seq(Requests) /\ DOMAIN timers' = DOMAIN timers /\ timers'[k].at = "running"
        /\ \A j \in DOMAIN timers : /\ timers'[j].target = timers[j].target
                                    /\ j # k => timers'[j] = timers[j]
    BY <2>1, TimerAt DEF PerformInv
  <2>3. f \in Firings /\ f.timer = k /\ f.waited = (k \in DOMAIN SYNC_PERFORM_SEMAPHORES)
    BY <1>1 DEF Firings, Perform!Waited
  <2> HIDE DEF f
  <2>4. /\ firing' \in Seq(Firings) /\ Len(firing') = Len(firing) + 1 /\ Len(firing) \in Nat
        /\ DOMAIN firing' = DOMAIN firing \cup {Len(firing) + 1}
        /\ firing'[Len(firing) + 1] = f /\ \A i \in DOMAIN firing : firing'[i] = firing[i]
    BY <2>1, <2>3 DEF PerformInv, PerformTypes
  <2>5. PerformTypes'
    <3>1. DOMAIN SYNC_PERFORM_SEMAPHORES' \subseteq Perform!Pending'
      BY <1>4, <2>2 DEF PerformInv, PerformTypes, Perform!Pending
    <3>2. Perform!PostedWhenDone'
      BY <1>1, <2>1, <2>2 DEF PerformInv, PerformTypes, Perform!PostedWhenDone
    <3>3. QED
      BY <1>2, <1>3, <2>1, <2>2, <2>4, <3>1, <3>2 DEF PerformInv, PerformTypes
  <2>6. FiringInv'
    <3>1. \A i \in DOMAIN firing : firing[i].timer # k
      BY <1>1 DEF PerformInv, FiringInv
    <3>2. QED
      BY <1>1, <2>2, <2>3, <2>4, <3>1 DEF PerformInv, FiringInv
  <2>7. \A j : OwedBy(j) => OwedBy(j)'
    BY <1>4, <2>1, <2>3, <2>4 DEF OwedBy
  <2>8. WaitsInv'
    BY <1>2, <2>7 DEF PerformInv, WaitsInv
  <2>9. CancelInv'
    BY <1>2, <1>3, <1>5, <1>6, <1>8, <2>2 DEF PerformInv, CancelInv
  <2>10. QED
    BY <2>5, <2>6, <2>8, <2>9 DEF PerformInv
<1>9. QED
  BY <1>7, <1>8

LEMMA SelectorEnded ==
    ASSUME PerformInv, Perform!SelectorReturns
    PROVE  PerformInv'
<1> DEFINE n == Len(firing)
           f == firing[n]
<1>1. /\ firing \in Seq(Firings) /\ n \in Nat /\ n > 0 /\ n \in DOMAIN firing /\ f \in Firings
      /\ Perform!Last(firing) = f
  BY DEF PerformInv, PerformTypes, Perform!SelectorReturns, Perform!Last
<1>2. /\ timers' = [timers EXCEPT ![f.timer].at = "performed"]
      /\ posted' = IF f.waited THEN posted \cup {f.timer} ELSE posted
      /\ firing' = SubSeq(firing, 1, n - 1)
      /\ UNCHANGED <<SYNC_PERFORM_SEMAPHORES, CANCELLED_PERFORMS, waits, withdrawn>>
  BY <1>1 DEF Perform!SelectorReturns, Perform!Front
<1>3. f.timer \in DOMAIN timers /\ timers[f.timer].at = "running"
  BY <1>1 DEF PerformInv, FiringInv
<1>4. /\ firing' \in Seq(Firings) /\ DOMAIN firing' = DOMAIN firing \ {n}
      /\ \A i \in DOMAIN firing' : firing'[i] = firing[i]
  BY <1>1, <1>2
<1>5. /\ timers' \in Seq(Requests) /\ DOMAIN timers' = DOMAIN timers /\ timers'[f.timer].at = "performed"
      /\ \A j \in DOMAIN timers : /\ timers'[j].target = timers[j].target
                                  /\ j # f.timer => timers'[j] = timers[j]
  BY <1>2, <1>3, TimerAt DEF PerformInv
<1> HIDE DEF f, n
<1>6. PerformTypes'
  <2>1. DOMAIN SYNC_PERFORM_SEMAPHORES \subseteq Perform!Pending'
    BY <1>3, <1>5 DEF PerformInv, PerformTypes, Perform!Pending
  <2>2. posted' \subseteq DOMAIN timers /\ Perform!PostedWhenDone'
    BY <1>2, <1>3, <1>5 DEF PerformInv, PerformTypes, Perform!PostedWhenDone
  <2>3. QED
    BY <1>2, <1>4, <1>5, <2>1, <2>2 DEF PerformInv, PerformTypes
<1>7. FiringInv'
  <2>1. \A i \in DOMAIN firing' : i \in DOMAIN firing /\ firing'[i].timer = firing[i].timer
                                  /\ firing[i].timer # f.timer
    BY <1>1, <1>4 DEF PerformInv, FiringInv, f
  <2>2. \A i \in DOMAIN firing' : firing'[i].timer \in DOMAIN timers'
                                  /\ timers'[firing'[i].timer].at = "running"
    BY <1>5, <2>1 DEF PerformInv, FiringInv
  <2>3. ASSUME NEW k \in DOMAIN timers', timers'[k].at = "running"
        PROVE  \E i \in DOMAIN firing' : firing'[i].timer = k
    <3>1. k \in DOMAIN timers /\ k # f.timer /\ timers[k].at = "running"
      BY <1>5, <2>3
    <3>2. PICK i \in DOMAIN firing : firing[i].timer = k
      BY <3>1 DEF PerformInv, FiringInv
    <3>3. i # n
      BY <3>1, <3>2 DEF f
    <3>4. QED
      BY <1>4, <3>2, <3>3
  <2>4. QED
    BY <2>1, <2>2, <2>3 DEF PerformInv, FiringInv
<1>8. ASSUME NEW j, OwedBy(j) PROVE OwedBy(j)'
  <2>1. CASE \E i \in DOMAIN firing : firing[i].timer = j /\ firing[i].waited
    <3>1. PICK i \in DOMAIN firing : firing[i].timer = j /\ firing[i].waited
      BY <2>1
    <3>2. CASE i = n
      BY <1>2, <3>1, <3>2 DEF OwedBy, f
    <3>3. CASE i # n
      BY <1>4, <3>1, <3>3 DEF OwedBy
    <3>4. QED
      BY <3>2, <3>3
  <2>2. CASE j \in DOMAIN SYNC_PERFORM_SEMAPHORES \/ j \in posted
    BY <1>2, <2>2 DEF OwedBy
  <2>3. QED
    BY <1>8, <2>1, <2>2 DEF OwedBy
<1>9. WaitsInv'
  BY <1>2, <1>8 DEF PerformInv, WaitsInv
<1>10. CancelInv'
  BY <1>2, <1>3, <1>5 DEF PerformInv, CancelInv, Noted
<1>11. QED
  BY <1>6, <1>7, <1>9, <1>10 DEF PerformInv

LEMMA PerformSound ==
    ASSUME PerformInv
    PROVE  /\ Perform!TypeOK /\ Perform!OnePostOwed
           /\ Perform!PostedWhenDone /\ Perform!CancelAllHolds
<1>1. ASSUME NEW k \in DOMAIN timers
      PROVE  /\ timers[k].target \in Receivers /\ timers[k].selector \in Selectors
             /\ timers[k].at \in {"pending", "running", "performed", "skipped"}
  <2>1. timers \in Seq(Requests)
    BY DEF PerformInv, PerformTypes
  <2>2. timers[k] \in Requests
    BY <2>1
  <2>3. QED
    BY <2>2 DEF Requests
<1>2. {f.timer : f \in Perform!ToSet(firing)} = {k \in DOMAIN timers : timers[k].at = "running"}
  <2>1. Perform!ToSet(firing) = {firing[i] : i \in DOMAIN firing}
    BY DEF Perform!ToSet
  <2>2. QED
    BY <2>1 DEF PerformInv, FiringInv
<1>3. Perform!TypeOK
  BY <1>1, <1>2 DEF PerformInv, PerformTypes, Perform!TypeOK, Notes
<1>4. ASSUME NEW t \in Performers, waits[t] # 0
      PROVE  Perform!Cardinality({x \in {"side channel", "selector", "posted"} :
          \/ x = "side channel" /\ waits[t] \in DOMAIN SYNC_PERFORM_SEMAPHORES
          \/ x = "selector" /\ \E f \in Perform!ToSet(firing) : f.timer = waits[t] /\ f.waited
          \/ x = "posted" /\ waits[t] \in posted}) = 1
  <2> DEFINE k == waits[t]
             A == k \in DOMAIN SYNC_PERFORM_SEMAPHORES
             B == \E f \in Perform!ToSet(firing) : f.timer = k /\ f.waited
             C == k \in posted
             S == {x \in {"side channel", "selector", "posted"} :
                      \/ x = "side channel" /\ A
                      \/ x = "selector" /\ B
                      \/ x = "posted" /\ C}
  <2>1. B <=> \E i \in DOMAIN firing : firing[i].timer = k /\ firing[i].waited
    BY DEF Perform!ToSet
  <2>2. A \/ B \/ C
    BY <1>4, <2>1 DEF PerformInv, WaitsInv, OwedBy
  <2>3. A => timers[k].at = "pending"
    BY DEF PerformInv, PerformTypes, Perform!Pending
  <2>4. B => timers[k].at = "running"
    BY <2>1 DEF PerformInv, FiringInv
  <2>5. C => timers[k].at \in {"performed", "skipped"}
    BY DEF PerformInv, PerformTypes, Perform!PostedWhenDone
  <2> HIDE DEF A, B, C
  <2>6. S = {"side channel"} \/ S = {"selector"} \/ S = {"posted"}
    BY <2>2, <2>3, <2>4, <2>5
  <2>7. Cardinality(S) = 1
    BY <2>6, FS_Singleton
  <2>8. Perform!Cardinality(S) = Cardinality(S)
    BY DEF Perform!Cardinality, Cardinality
  <2>9. QED
    BY <2>7, <2>8 DEF A, B, C
<1>5. Perform!CancelAllHolds
  BY DEF PerformInv, CancelInv, Perform!CancelAllHolds
<1>6. QED
  BY <1>3, <1>4, <1>5 DEF PerformInv, PerformTypes, Perform!OnePostOwed

\* A thread that waits for its selector on the main thread is owed exactly one post,
\* which comes when the selector has returned or will not be called; and what was
\* pending when all requests of its target were cancelled is not performed, for any
\* number of threads, objects and requests.
THEOREM PostOwedOnce ==
    ASSUME Perform!PerformAssumption
    PROVE  Perform!Spec => [](/\ Perform!TypeOK /\ Perform!OnePostOwed
                              /\ Perform!PostedWhenDone /\ Perform!CancelAllHolds)
<1>1. Perform!Init => PerformInv
  BY DEF Perform!Init, PerformInv, PerformTypes, FiringInv, WaitsInv, CancelInv,
     Perform!Pending, Perform!PostedWhenDone
<1>2. PerformInv /\ [Perform!Next]_(Perform!vars) => PerformInv'
  <2> SUFFICES ASSUME PerformInv, [Perform!Next]_(Perform!vars) PROVE PerformInv'
    OBVIOUS
  <2>1. CASE UNCHANGED Perform!vars
    BY <2>1 DEF Perform!vars, PerformInv, PerformTypes, FiringInv, WaitsInv, CancelInv,
       Perform!Pending, Perform!PostedWhenDone, OwedBy, Noted
  <2>2. CASE Perform!Next
    BY <2>2, RequestMade, WaitBegun, WaitEnded, RequestsCancelled, TimerFired, SelectorEnded
    DEF Perform!Next
  <2>3. QED
    BY <2>1, <2>2
<1>3. PerformInv => /\ Perform!TypeOK /\ Perform!OnePostOwed
                    /\ Perform!PostedWhenDone /\ Perform!CancelAllHolds
  BY PerformSound
<1>4. QED
  BY <1>1, <1>2, <1>3, PTL DEF Perform!Spec

(***************************************************************************)
(* Run loop and timers                                                     *)
(***************************************************************************)
CONSTANTS Timers, Interval, MaxLate, MaxFrames
VARIABLES loop_timers, stopped, due, left, repeats, running, in_loop, rc, owned,
          activations, fired
Loop == INSTANCE RunLoop WITH timers <- loop_timers, stack <- activations

\* What holds for 0, and for n + 1 if for n, holds for all numbers.
LEMMA Counting ==
    ASSUME NEW T, 0 \in T, \A n \in Nat : n \in T => n + 1 \in T
    PROVE  Nat \subseteq T
<1> SUFFICES ASSUME Nat \ T # {} PROVE FALSE
  OBVIOUS
<1>1. PICK n \in Nat \ T : \A k \in Nat \ T : n <= k
  BY LeastOfNats
<1>2. n - 1 \in Nat /\ n - 1 \in T
  BY <1>1
<1>3. QED
  BY <1>1, <1>2

Distinct(s) == \A i, j \in 1 .. Len(s) : s[i] = s[j] => i = j

\* One more element, or one less at the front.
LEMMA DistinctMore ==
    ASSUME NEW s \in Seq(Timers), Distinct(s), NEW x \in Timers, x \notin Loop!ToSet(s)
    PROVE  /\ Append(s, x) \in Seq(Timers) /\ Distinct(Append(s, x))
           /\ Loop!ToSet(Append(s, x)) = Loop!ToSet(s) \cup {x}
<1>1. PICK n \in Nat : n = Len(s)
  OBVIOUS
<1>2. PICK r : r = Append(s, x)
  OBVIOUS
<1>3. /\ r \in Seq(Timers) /\ Len(r) = n + 1 /\ r[n + 1] = x /\ DOMAIN r = 1 .. n + 1
      /\ DOMAIN s = 1 .. n
      /\ \A i \in 1 .. n : r[i] = s[i]
  BY <1>1, <1>2
<1>4. \A i \in 1 .. n + 1 : i \in 1 .. n \/ i = n + 1
  OBVIOUS
<1>5. \A i \in 1 .. n : s[i] \in Loop!ToSet(s) /\ s[i] # x
  BY <1>3 DEF Loop!ToSet
<1>6. Distinct(r)
  <2> SUFFICES ASSUME NEW i \in 1 .. n + 1, NEW j \in 1 .. n + 1, r[i] = r[j] PROVE i = j
    BY <1>3 DEF Distinct
  <2>1. QED
    BY <1>1, <1>3, <1>4, <1>5 DEF Distinct
<1>7. Loop!ToSet(r) = Loop!ToSet(s) \cup {x}
  <2>1. \A y \in Loop!ToSet(r) : y \in Loop!ToSet(s) \/ y = x
    BY <1>3, <1>4 DEF Loop!ToSet
  <2>2. \A y \in Loop!ToSet(s) : y \in Loop!ToSet(r)
    <3> TAKE y \in Loop!ToSet(s)
    <3>1. PICK i \in 1 .. n : y = s[i]
      BY <1>3 DEF Loop!ToSet
    <3>2. i \in 1 .. n + 1 /\ y = r[i]
      BY <1>3, <3>1
    <3>3. QED
      BY <1>3, <3>2 DEF Loop!ToSet
  <2>3. x \in Loop!ToSet(r)
    <3>1. n + 1 \in 1 .. n + 1
      OBVIOUS
    <3>2. QED
      BY <1>3, <3>1 DEF Loop!ToSet
  <2>4. QED
    BY <2>1, <2>2, <2>3
<1>8. QED
  BY <1>2, <1>3, <1>6, <1>7

LEMMA DistinctLess ==
    ASSUME NEW s \in Seq(Timers), s # <<>>, Distinct(s)
    PROVE  /\ Tail(s) \in Seq(Timers) /\ Distinct(Tail(s)) /\ Head(s) \in Timers
           /\ Loop!ToSet(Tail(s)) = Loop!ToSet(s) \ {Head(s)} /\ Head(s) \in Loop!ToSet(s)
<1>1. PICK n \in Nat : n = Len(s) /\ n > 0
  OBVIOUS
<1>2. PICK r, x : r = Tail(s) /\ x = Head(s)
  OBVIOUS
<1>3. /\ r \in Seq(Timers) /\ Len(r) = n - 1 /\ DOMAIN r = 1 .. n - 1
      /\ DOMAIN s = 1 .. n /\ x = s[1] /\ 1 \in 1 .. n
      /\ \A i \in 1 .. n - 1 : r[i] = s[i + 1] /\ i + 1 \in 1 .. n /\ i + 1 # 1
  BY <1>1, <1>2
<1>4. Distinct(r)
  <2> SUFFICES ASSUME NEW i \in 1 .. n - 1, NEW j \in 1 .. n - 1, r[i] = r[j] PROVE i = j
    BY <1>3 DEF Distinct
  <2>1. i + 1 = j + 1
    BY <1>1, <1>3 DEF Distinct
  <2>2. QED
    BY <2>1
<1>5. Loop!ToSet(r) = Loop!ToSet(s) \ {x}
  <2>1. ASSUME NEW y \in Loop!ToSet(r) PROVE y \in Loop!ToSet(s) /\ y # x
    <3>1. PICK i \in 1 .. n - 1 : y = r[i]
      BY <1>3 DEF Loop!ToSet
    <3>2. i + 1 \in 1 .. n /\ y = s[i + 1] /\ i + 1 # 1
      BY <1>3, <3>1
    <3>3. QED
      BY <1>1, <1>3, <3>2 DEF Loop!ToSet, Distinct
  <2>2. ASSUME NEW y \in Loop!ToSet(s), y # x PROVE y \in Loop!ToSet(r)
    <3>1. PICK i \in 1 .. n : y = s[i]
      BY <1>3 DEF Loop!ToSet
    <3>2. i - 1 \in 1 .. n - 1 /\ (i - 1) + 1 = i
      BY <1>1, <1>3, <2>2, <3>1
    <3>3. y = r[i - 1]
      BY <1>3, <3>1, <3>2
    <3>4. QED
      BY <1>3, <3>2, <3>3 DEF Loop!ToSet
  <2>3. QED
    BY <2>1, <2>2
<1>6. x \in Loop!ToSet(s) /\ x \in Timers
  BY <1>3 DEF Loop!ToSet
<1>7. QED
  BY <1>2, <1>3, <1>4, <1>5, <1>6

\* A list of timers without some is that, in the same sense.
Passed(S, list, f, i) ==
    IF i = 0 THEN <<>>
    ELSE IF list[i] \in S THEN f[i - 1] ELSE Append(f[i - 1], list[i])

Prefix(list, n) == {list[i] : i \in 1 .. n}

LEMMA WithoutSound ==
    ASSUME NEW S, NEW list \in Seq(Timers), Distinct(list)
    PROVE  /\ Loop!Without(list, S) \in Seq(Timers) /\ Distinct(Loop!Without(list, S))
           /\ Loop!ToSet(Loop!Without(list, S)) = Loop!ToSet(list) \ S
<1>1. Len(list) \in Nat /\ DOMAIN list = 1 .. Len(list)
      /\ \A i \in 1 .. Len(list) : list[i] \in Timers
  OBVIOUS
<1> DEFINE T == {n \in Nat : n \in 0 .. Len(list) =>
                    \E f : f = [i \in 0 .. n |-> Passed(S, list, f, i)]}
<1>2. 0 \in T
  <2> DEFINE g == [i \in 0 .. 0 |-> <<>>]
  <2>1. g = [i \in 0 .. 0 |-> Passed(S, list, g, i)]
    BY DEF Passed
  <2> HIDE DEF g
  <2>2. QED
    BY <2>1
<1>3. ASSUME NEW n \in Nat, n \in T PROVE n + 1 \in T
  <2>1. CASE n + 1 \notin 0 .. Len(list)
    BY <2>1
  <2>2. CASE n + 1 \in 0 .. Len(list)
    <3>1. PICK f : f = [i \in 0 .. n |-> Passed(S, list, f, i)]
      <4>1. n \in 0 .. Len(list)
        BY <1>1, <2>2
      <4>2. QED
        BY <1>3, <4>1
    <3> DEFINE g == [i \in 0 .. n + 1 |-> Passed(S, list, f, i)]
    <3>2. ASSUME NEW i \in 0 .. n + 1 PROVE Passed(S, list, f, i) = Passed(S, list, g, i)
      <4>1. CASE i = 0
        BY <4>1 DEF Passed
      <4>2. CASE i # 0
        <5>1. i - 1 \in 0 .. n /\ i - 1 \in 0 .. n + 1
          BY <4>2
        <5>2. f[i - 1] = g[i - 1]
          BY <3>1, <5>1
        <5> HIDE DEF g
        <5>3. QED
          BY <4>2, <5>2 DEF Passed
      <4>3. QED
        BY <4>1, <4>2
    <3>3. g = [i \in 0 .. n + 1 |-> Passed(S, list, g, i)]
      BY <3>2
    <3> HIDE DEF g
    <3>4. \E h : h = [i \in 0 .. n + 1 |-> Passed(S, list, h, i)]
      BY <3>3
    <3>5. QED
      BY <3>4
  <2>3. QED
    BY <2>1, <2>2
<1>4. Nat \subseteq T
  <2> HIDE DEF T
  <2>1. QED
    BY <1>2, <1>3, Counting
<1>5. PICK f : /\ f = [i \in 0 .. Len(list) |-> Passed(S, list, f, i)]
               /\ Loop!Without(list, S) = f[Len(list)]
  <2> DEFINE f == CHOOSE f : f = [i \in 0 .. Len(list) |-> Passed(S, list, f, i)]
  <2>1. Len(list) \in T /\ Len(list) \in 0 .. Len(list)
    BY <1>1, <1>4
  <2>2. \E h : h = [i \in 0 .. Len(list) |-> Passed(S, list, h, i)]
    BY <2>1
  <2>3. f = [i \in 0 .. Len(list) |-> Passed(S, list, f, i)]
    BY <2>2
  <2>4. Loop!Without(list, S) = f[Len(list)]
    BY DEF Loop!Without, Passed
  <2>5. QED
    BY <2>3, <2>4
<1> DEFINE Left(n) == /\ f[n] \in Seq(Timers) /\ Distinct(f[n])
                      /\ Loop!ToSet(f[n]) = Prefix(list, n) \ S
           R == {n \in Nat : n \in 0 .. Len(list) => Left(n)}
<1>6. 0 \in R
  <2>1. f[0] = <<>>
    BY <1>1, <1>5 DEF Passed
  <2>2. <<>> \in Seq(Timers) /\ Loop!ToSet(<<>>) = {} /\ Distinct(<<>>) /\ Prefix(list, 0) = {}
    BY DEF Loop!ToSet, Distinct, Prefix
  <2>3. QED
    BY <2>1, <2>2
<1>7. ASSUME NEW n \in Nat, n \in R PROVE n + 1 \in R
  <2> SUFFICES ASSUME n + 1 \in 0 .. Len(list) PROVE Left(n + 1)
    OBVIOUS
  <2>1. n \in 0 .. Len(list) /\ n + 1 \in 1 .. Len(list) /\ (n + 1) - 1 = n /\ n + 1 # 0
    BY <1>1
  <2>2. Left(n)
    BY <1>7, <2>1
  <2>3. f[n + 1] = Passed(S, list, f, n + 1)
    BY <1>5
  <2>4. f[n + 1] = IF list[n + 1] \in S THEN f[n] ELSE Append(f[n], list[n + 1])
    BY <2>1, <2>3 DEF Passed
  <2>5. PICK s, x : s = f[n] /\ x = list[n + 1]
    OBVIOUS
  <2>6. /\ s \in Seq(Timers) /\ Distinct(s) /\ Loop!ToSet(s) = Prefix(list, n) \ S /\ x \in Timers
        /\ f[n + 1] = IF x \in S THEN s ELSE Append(s, x)
    BY <1>1, <2>1, <2>2, <2>4, <2>5
  <2>7. Prefix(list, n + 1) = Prefix(list, n) \cup {x}
    <3>1. 1 .. n + 1 = (1 .. n) \cup {n + 1}
      OBVIOUS
    <3>2. QED
      BY <2>5, <3>1 DEF Prefix
  <2>8. x \notin Prefix(list, n)
    <3>1. \A i \in 1 .. n : i \in 1 .. Len(list) /\ i # n + 1
      BY <1>1, <2>1
    <3>2. QED
      BY <2>1, <2>5, <3>1 DEF Prefix, Distinct
  <2>9. CASE x \in S
    BY <2>6, <2>7, <2>9
  <2>10. CASE x \notin S
    <3>1. x \notin Loop!ToSet(s)
      BY <2>6, <2>8
    <3>2. /\ Append(s, x) \in Seq(Timers) /\ Distinct(Append(s, x))
          /\ Loop!ToSet(Append(s, x)) = Loop!ToSet(s) \cup {x}
      <4>1. s \in Seq(Timers) /\ x \in Timers /\ Distinct(s) /\ x \notin Loop!ToSet(s)
        BY <2>6, <3>1
      <4>2. QED
        BY <4>1, DistinctMore
    <3>3. QED
      BY <2>6, <2>7, <2>10, <3>2
  <2>11. QED
    BY <2>9, <2>10
<1>8. Nat \subseteq R
  <2> HIDE DEF R
  <2>1. QED
    BY <1>6, <1>7, Counting
<1>9. Left(Len(list))
  <2>1. Len(list) \in R /\ Len(list) \in 0 .. Len(list)
    BY <1>1, <1>8
  <2>2. QED
    BY <2>1
<1>10. Prefix(list, Len(list)) = Loop!ToSet(list)
  BY <1>1 DEF Prefix, Loop!ToSet
<1>11. QED
  BY <1>5, <1>9, <1>10

(***************************************************************************)
(* The stack of run loops and callbacks                                    *)
(***************************************************************************)
RunFrames == [kind : {"run"}, single : BOOLEAN, todo : Seq(Timers),
              phase : {"begin", "timers"}]
FireFrames == [kind : {"fire"}, timer : Timers, byLoop : BOOLEAN]
LoopFrames == RunFrames \cup FireFrames

\* A loop goes through a copy of its list, in which a timer is once.
FrameOK(f) == f.kind = "run" => Distinct(f.todo) /\ (f.phase = "begin" => f.todo = <<>>)

\* The callback of t was called by a loop, which is at t.
ByLoop(f, t) == f = Loop!FireFrame(t, TRUE)
IsAt(f, t) == f.kind = "run" /\ f.phase = "timers" /\ f.todo # <<>> /\ Head(f.todo) = t

StackOK(s) ==
    /\ s \in Seq(LoopFrames) /\ Len(s) <= MaxFrames
    /\ \A i \in 1 .. Len(s) : FrameOK(s[i])
    /\ \A i \in 1 .. Len(s) : \A t \in Timers : ByLoop(s[i], t) => i > 1 /\ IsAt(s[i - 1], t)

\* A loop still has t before it.
ComesTo(f, t) == f.kind = "run" /\ t \in Loop!ToSet(f.todo)
Coming(s, t) == {i \in 1 .. Len(s) : ComesTo(s[i], t)}

LEMMA FrameKinds ==
    ASSUME NEW f \in LoopFrames
    PROVE  /\ f.kind \in {"run", "fire"}
           /\ f.kind = "run" => f \in RunFrames
           /\ f.kind = "fire" => f \in FireFrames /\ f = Loop!FireFrame(f.timer, f.byLoop)
           /\ \A t : ByLoop(f, t) <=> f.kind = "fire" /\ f.timer = t /\ f.byLoop
<1>1. CASE f \in RunFrames
  <2>1. f.kind = "run"
    BY <1>1 DEF RunFrames
  <2>2. \A t : Loop!FireFrame(t, TRUE).kind = "fire"
    BY DEF Loop!FireFrame
  <2>3. QED
    BY <1>1, <2>1, <2>2 DEF ByLoop
<1>2. CASE f \in FireFrames
  <2>1. f.kind = "fire" /\ f = Loop!FireFrame(f.timer, f.byLoop) /\ f.byLoop \in BOOLEAN
    BY <1>2 DEF FireFrames, Loop!FireFrame
  <2>2. ASSUME NEW t PROVE Loop!FireFrame(t, TRUE).timer = t /\ Loop!FireFrame(t, TRUE).byLoop
    BY DEF Loop!FireFrame
  <2>3. QED
    BY <1>2, <2>1, <2>2 DEF ByLoop
<1>3. QED
  BY <1>1, <1>2 DEF LoopFrames

LEMMA ComingCounted ==
    ASSUME NEW s, StackOK(s), NEW t
    PROVE  IsFiniteSet(Coming(s, t)) /\ Cardinality(Coming(s, t)) \in Nat
<1>1. Len(s) \in Nat
  BY DEF StackOK
<1>2. IsFiniteSet(1 .. Len(s)) /\ Coming(s, t) \subseteq 1 .. Len(s)
  BY <1>1, FS_Interval DEF Coming
<1>3. QED
  BY <1>2, FS_Subset, FS_CardinalityType

\* A frame that has no timers before it is pushed or popped.
LEMMA Pushed ==
    ASSUME NEW s, StackOK(s), Len(s) < MaxFrames, MaxFrames \in Nat,
           NEW f \in LoopFrames, FrameOK(f), \A t : ~ ComesTo(f, t),
           \A t \in Timers : ByLoop(f, t) => s # <<>> /\ IsAt(s[Len(s)], t)
    PROVE  /\ StackOK(Append(s, f)) /\ \A t : Coming(Append(s, f), t) = Coming(s, t)
           /\ Len(Append(s, f)) = Len(s) + 1 /\ Append(s, f)[Len(s) + 1] = f
           /\ \A i \in 1 .. Len(s) : Append(s, f)[i] = s[i]
<1>0. PICK n \in Nat : n = Len(s)
  BY DEF StackOK
<1>1. PICK r : n = Len(s) /\ r = Append(s, f)
  BY <1>0
<1>2. /\ r \in Seq(LoopFrames) /\ Len(r) = n + 1 /\ r[n + 1] = f
      /\ \A i \in 1 .. n : r[i] = s[i]
  BY <1>1 DEF StackOK
<1>3. \A i \in 1 .. n + 1 : i = n + 1 \/ i \in 1 .. n
  OBVIOUS
<1>4. \A i \in 1 .. n : i \in 1 .. n + 1
  OBVIOUS
<1>5. ASSUME NEW i \in 1 .. n + 1 PROVE FrameOK(r[i])
  BY <1>1, <1>2, <1>3 DEF StackOK
<1>6. ASSUME NEW i \in 1 .. n + 1, NEW t \in Timers, ByLoop(r[i], t) PROVE i > 1 /\ IsAt(r[i - 1], t)
  <2>1. CASE i = n + 1
    <3>1. s # <<>> /\ IsAt(s[n], t)
      BY <1>1, <1>2, <1>6, <2>1
    <3>2. n > 0 /\ n \in 1 .. n /\ i - 1 = n
      BY <1>1, <2>1, <3>1 DEF StackOK
    <3>3. QED
      BY <1>2, <2>1, <3>1, <3>2
  <2>2. CASE i \in 1 .. n
    <3>1. i > 1 /\ IsAt(s[i - 1], t)
      BY <1>1, <1>2, <1>6, <2>2 DEF StackOK
    <3>2. i - 1 \in 1 .. n
      BY <2>2, <3>1
    <3>3. QED
      BY <1>2, <3>1, <3>2
  <2>3. QED
    BY <1>3, <2>1, <2>2
<1>7. n + 1 <= MaxFrames
  BY <1>1
<1>8. StackOK(r)
  BY <1>2, <1>5, <1>6, <1>7 DEF StackOK
<1>9. ASSUME NEW t PROVE Coming(r, t) = Coming(s, t)
  <2>1. ~ ComesTo(r[n + 1], t)
    BY <1>2
  <2>2. \A i \in 1 .. n : ComesTo(r[i], t) <=> ComesTo(s[i], t)
    BY <1>2
  <2>3. QED
    BY <1>1, <1>2, <1>3, <1>4, <2>1, <2>2 DEF Coming
<1>10. QED
  BY <1>1, <1>2, <1>8, <1>9

LEMMA TakenOff ==
    ASSUME NEW s, StackOK(s), s # <<>>, MaxFrames \in Nat, \A t : ~ ComesTo(s[Len(s)], t)
    PROVE  /\ StackOK(Loop!Front(s)) /\ \A t : Coming(Loop!Front(s), t) = Coming(s, t)
           /\ Len(Loop!Front(s)) = Len(s) - 1
           /\ \A i \in 1 .. Len(s) - 1 : Loop!Front(s)[i] = s[i]
<1>0. PICK n \in Nat : n = Len(s) /\ n > 0
  BY DEF StackOK
<1>1. PICK r : n = Len(s) /\ r = Loop!Front(s) /\ n > 0
  BY <1>0
<1>2. /\ r \in Seq(LoopFrames) /\ Len(r) = n - 1 /\ \A i \in 1 .. n - 1 : r[i] = s[i]
  <2>1. ASSUME NEW q \in Seq(LoopFrames), NEW k \in Nat, k <= Len(q)
        PROVE  SubSeq(q, 1, k) \in Seq(LoopFrames) /\ Len(SubSeq(q, 1, k)) = k
    BY <2>1
  <2>2. ASSUME NEW q \in Seq(LoopFrames), NEW k \in Nat, k <= Len(q), NEW i \in 1 .. k
        PROVE  SubSeq(q, 1, k)[i] = q[i]
    BY <2>2
  <2>3. n - 1 \in Nat /\ n - 1 <= Len(s) /\ s \in Seq(LoopFrames) /\ r = SubSeq(s, 1, n - 1)
    BY <1>1 DEF StackOK, Loop!Front
  <2>4. QED
    BY <2>1, <2>2, <2>3
<1>3. \A i \in 1 .. n : i = n \/ i \in 1 .. n - 1
  OBVIOUS
<1>4. \A i \in 1 .. n - 1 : i \in 1 .. n
  OBVIOUS
<1>5. ASSUME NEW i \in 1 .. n - 1 PROVE FrameOK(r[i])
  BY <1>1, <1>2, <1>4 DEF StackOK
<1>6. ASSUME NEW i \in 1 .. n - 1, NEW t \in Timers, ByLoop(r[i], t) PROVE i > 1 /\ IsAt(r[i - 1], t)
  <2>1. i > 1 /\ IsAt(s[i - 1], t)
    BY <1>1, <1>2, <1>4, <1>6 DEF StackOK
  <2>2. i - 1 \in 1 .. n - 1
    BY <2>1
  <2>3. QED
    BY <1>2, <2>1, <2>2
<1>7. n - 1 <= MaxFrames
  BY <1>1 DEF StackOK
<1>8. StackOK(r)
  BY <1>2, <1>5, <1>6, <1>7 DEF StackOK
<1>9. ASSUME NEW t PROVE Coming(r, t) = Coming(s, t)
  <2>1. ~ ComesTo(s[n], t)
    BY <1>1
  <2>2. \A i \in 1 .. n - 1 : ComesTo(r[i], t) <=> ComesTo(s[i], t)
    BY <1>2
  <2>3. QED
    BY <1>1, <1>2, <1>3, <1>4, <2>1, <2>2 DEF Coming
<1>10. QED
  BY <1>1, <1>2, <1>8, <1>9

\* The loop on top gets on: r is s with f on top.
GoneOn(s, f, r) ==
    /\ StackOK(r) /\ Len(r) = Len(s) /\ r[Len(s)] = f
    /\ \A i \in 1 .. Len(s) : i # Len(s) => r[i] = s[i]
    /\ \A t : /\ t \in Loop!ToSet(f.todo) => Coming(r, t) = Coming(s, t) \cup {Len(s)}
              /\ t \notin Loop!ToSet(f.todo) => Coming(r, t) = Coming(s, t) \ {Len(s)}

LEMMA LoopGoesOn ==
    ASSUME NEW s, StackOK(s), s # <<>>, s[Len(s)].kind = "run",
           NEW f \in RunFrames, FrameOK(f), NEW r, r = [s EXCEPT ![Len(s)] = f]
    PROVE  GoneOn(s, f, r)
<1>1. PICK n \in Nat : n = Len(s) /\ n > 0
  BY DEF StackOK
<1>2. f \in LoopFrames /\ f.kind = "run" /\ n \in 1 .. n
  BY <1>1 DEF LoopFrames, RunFrames
<1>3. /\ r \in Seq(LoopFrames) /\ Len(r) = n /\ r[n] = f
      /\ \A i \in 1 .. n : i # n => r[i] = s[i]
  BY <1>1, <1>2 DEF StackOK
<1>4. ASSUME NEW i \in 1 .. n PROVE FrameOK(r[i])
  BY <1>1, <1>3 DEF StackOK
<1>5. ASSUME NEW i \in 1 .. n, NEW t \in Timers, ByLoop(r[i], t) PROVE i > 1 /\ IsAt(r[i - 1], t)
  <2>1. i # n
    BY <1>2, <1>3, <1>5, FrameKinds
  <2>2. i > 1 /\ IsAt(s[i - 1], t)
    BY <1>1, <1>3, <1>5, <2>1 DEF StackOK
  <2>3. i - 1 \in 1 .. n /\ i - 1 # n
    BY <2>2
  <2>4. QED
    BY <1>3, <2>2, <2>3
<1>6. StackOK(r)
  BY <1>1, <1>3, <1>4, <1>5 DEF StackOK
<1>7. ASSUME NEW t
      PROVE  /\ t \in Loop!ToSet(f.todo) => Coming(r, t) = Coming(s, t) \cup {n}
             /\ t \notin Loop!ToSet(f.todo) => Coming(r, t) = Coming(s, t) \ {n}
  <2>1. ComesTo(r[n], t) <=> t \in Loop!ToSet(f.todo)
    BY <1>2, <1>3 DEF ComesTo
  <2>2. \A i \in 1 .. n : i # n => (ComesTo(r[i], t) <=> ComesTo(s[i], t))
    BY <1>3
  <2>3. QED
    BY <1>1, <1>2, <1>3, <2>1, <2>2 DEF Coming
<1>8. QED
  BY <1>1, <1>3, <1>6, <1>7 DEF GoneOn

\* Where the callbacks of t are that a loop (b) or the guest called.
LoopCalls(s, t, b) == {i \in 1 .. Len(s) : s[i] = Loop!FireFrame(t, b)}

LEMMA CallsMore ==
    ASSUME NEW s, NEW r, NEW n \in Nat, Len(s) = n, Len(r) = n + 1,
           \A i \in 1 .. n : r[i] = s[i], NEW t, NEW b
    PROVE  /\ n + 1 \notin LoopCalls(s, t, b)
           /\ r[n + 1] = Loop!FireFrame(t, b) => LoopCalls(r, t, b) = LoopCalls(s, t, b) \cup {n + 1}
           /\ r[n + 1] # Loop!FireFrame(t, b) => LoopCalls(r, t, b) = LoopCalls(s, t, b)
<1>1. \A i \in 1 .. n + 1 : i = n + 1 \/ i \in 1 .. n
  OBVIOUS
<1>2. n + 1 \in 1 .. n + 1 /\ n + 1 \notin 1 .. n /\ \A i \in 1 .. n : i \in 1 .. n + 1
  OBVIOUS
<1>3. QED
  BY <1>1, <1>2 DEF LoopCalls

LEMMA FireKind == \A t, b : Loop!FireFrame(t, b).kind = "fire"
BY DEF Loop!FireFrame

LEMMA CallsSame ==
    ASSUME NEW s, NEW r, Len(r) = Len(s), NEW t, NEW b,
           \A i \in 1 .. Len(s) : r[i] = s[i] \/ (r[i].kind = "run" /\ s[i].kind = "run")
    PROVE  LoopCalls(r, t, b) = LoopCalls(s, t, b)
<1>1. Loop!FireFrame(t, b).kind = "fire"
  BY DEF Loop!FireFrame
<1>2. QED
  BY <1>1 DEF LoopCalls

\* The timers whose callbacks a loop has called, once each, and those the guest holds.
Callbacks(s, called, has) == \A t \in Timers :
    /\ t \in called <=> LoopCalls(s, t, TRUE) # {}
    /\ \A i, j \in LoopCalls(s, t, TRUE) : i = j
    /\ LoopCalls(s, t, FALSE) # {} => t \in has

Bit(b) == IF b THEN 1 ELSE 0

LoopTypes ==
    /\ loop_timers \in Seq(Timers) /\ Distinct(loop_timers)
    /\ in_loop = Loop!ToSet(loop_timers) /\ in_loop \subseteq Timers
    /\ stopped \in BOOLEAN /\ due \subseteq Timers /\ repeats \subseteq Timers
    /\ running \subseteq Timers /\ owned \subseteq Timers
    /\ left \in [Timers -> -MaxLate .. Interval]
    /\ rc \in [Timers -> Nat] /\ fired \in [Timers -> 0 .. 2]

\* Each count is of references: the guest's, the list's, the callback's and those of
\* the copies that loops go through.
Counts == \A t \in Timers :
    rc[t] = Bit(t \in owned) + Bit(t \in in_loop) + Bit(t \in running)
            + Cardinality(Coming(activations, t))

\* A one-shot timer that was fired is in its callback, or will not be due again.
FiredOnce == \A t \in Timers : t \notin repeats =>
    fired[t] = 0 \/ (fired[t] = 1 /\ (t \in running \/ t \notin due))

LoopInv ==
    /\ LoopTypes /\ StackOK(activations) /\ Callbacks(activations, running, owned)
    /\ Counts /\ (\A t \in Timers : rc[t] = 0 => t \notin due) /\ FiredOnce

\* The loop on top of s has dealt with t, which left r.
Advanced(s) == [s EXCEPT ![Len(s)] = Loop!Next1(s[Len(s)])]

Past(s, t, r) ==
    /\ StackOK(r) /\ t \in Timers
    /\ \A u : /\ LoopCalls(r, u, TRUE) = LoopCalls(s, u, TRUE)
              /\ LoopCalls(r, u, FALSE) = LoopCalls(s, u, FALSE)
              /\ Cardinality(Coming(r, u)) = Cardinality(Coming(s, u)) - Bit(u = t)

LEMMA LoopPasses ==
    ASSUME NEW s, StackOK(s), s # <<>>, NEW t, IsAt(s[Len(s)], t)
    PROVE  Past(s, t, Advanced(s))
<1>0. PICK r : r = Advanced(s)
  OBVIOUS
<1>1. PICK n \in Nat : n = Len(s) /\ n > 0
  BY DEF StackOK
<1>2. PICK g : g = s[n]
  OBVIOUS
<1>3. n \in 1 .. n /\ g \in LoopFrames /\ FrameOK(g) /\ IsAt(g, t) /\ g.kind = "run"
  BY <1>1, <1>2 DEF StackOK, IsAt
<1>4. g \in RunFrames /\ g.todo \in Seq(Timers) /\ g.todo # <<>> /\ Distinct(g.todo)
      /\ Head(g.todo) = t /\ g.phase = "timers"
  BY <1>3, FrameKinds DEF IsAt, FrameOK, RunFrames
<1>5. PICK rest : /\ rest = Tail(g.todo) /\ rest \in Seq(Timers) /\ Distinct(rest) /\ t \in Timers
                  /\ Loop!ToSet(rest) = Loop!ToSet(g.todo) \ {t} /\ t \in Loop!ToSet(g.todo)
  BY <1>4, DistinctLess
<1>6. PICK f : f = [g EXCEPT !.todo = rest]
  OBVIOUS
<1>7. f \in RunFrames /\ f.todo = rest /\ f.phase = "timers" /\ FrameOK(f) /\ f.kind = "run"
  BY <1>4, <1>5, <1>6 DEF RunFrames, FrameOK
<1>8. r = [s EXCEPT ![Len(s)] = f]
  BY <1>0, <1>1, <1>2, <1>5, <1>6 DEF Advanced, Loop!Next1
<1>9. /\ StackOK(r) /\ Len(r) = Len(s) /\ r[Len(s)] = f
      /\ \A i \in 1 .. Len(s) : i # Len(s) => r[i] = s[i]
      /\ \A u : /\ u \in Loop!ToSet(f.todo) => Coming(r, u) = Coming(s, u) \cup {Len(s)}
                /\ u \notin Loop!ToSet(f.todo) => Coming(r, u) = Coming(s, u) \ {Len(s)}
  <2>1. s[Len(s)].kind = "run"
    BY <1>1, <1>2, <1>3
  <2>2. f \in RunFrames /\ FrameOK(f)
    BY <1>7
  <2>3. GoneOn(s, f, r)
    BY <1>8, <2>1, <2>2, LoopGoesOn
  <2>4. QED
    BY <2>3 DEF GoneOn
<1>10. ASSUME NEW u, NEW b PROVE LoopCalls(r, u, b) = LoopCalls(s, u, b)
  <2>1. Len(r) = Len(s) /\ s[n].kind = "run" /\ r[n].kind = "run"
    BY <1>1, <1>2, <1>3, <1>7, <1>9
  <2>2. \A i \in 1 .. Len(s) : i # n => r[i] = s[i]
    BY <1>1, <1>9
  <2>3. PICK call : call = Loop!FireFrame(u, b) /\ call.kind = "fire"
    BY FireKind
  <2>4. \A i \in 1 .. Len(s) : r[i] = call <=> s[i] = call
    BY <2>1, <2>2, <2>3
  <2>5. QED
    BY <2>1, <2>3, <2>4 DEF LoopCalls
<1>11. ASSUME NEW u PROVE Cardinality(Coming(r, u)) = Cardinality(Coming(s, u)) - Bit(u = t)
  <2>1. n \in Coming(s, u) <=> u \in Loop!ToSet(g.todo)
    BY <1>1, <1>2, <1>3 DEF Coming, ComesTo
  <2>2. IsFiniteSet(Coming(s, u)) /\ Cardinality(Coming(s, u)) \in Nat
    BY ComingCounted
  <2>3. CASE u = t
    <3>1. Coming(r, u) = Coming(s, u) \ {n} /\ n \in Coming(s, u)
      BY <1>1, <1>5, <1>7, <1>9, <2>1, <2>3
    <3>2. Cardinality(Coming(r, u)) = Cardinality(Coming(s, u)) - 1
      BY <2>2, <3>1, FS_RemoveElement
    <3>3. QED
      BY <2>3, <3>2 DEF Bit
  <2>4. CASE u # t
    <3>1. Coming(r, u) = Coming(s, u)
      <4>1. u \in Loop!ToSet(f.todo) <=> n \in Coming(s, u)
        BY <1>5, <1>7, <2>1, <2>4
      <4>2. /\ u \in Loop!ToSet(f.todo) => Coming(r, u) = Coming(s, u) \cup {n}
            /\ u \notin Loop!ToSet(f.todo) => Coming(r, u) = Coming(s, u) \ {n}
        BY <1>1, <1>9
      <4>3. QED
        BY <4>1, <4>2
    <3>2. QED
      BY <2>2, <2>4, <3>1 DEF Bit
  <2>5. QED
    BY <2>3, <2>4
<1>12. QED
  BY <1>0, <1>5, <1>9, <1>10, <1>11 DEF Past

\* What an invalidated timer leaves.
LEMMA Invalidated ==
    ASSUME LoopTypes, NEW t \in Timers, NEW n \in Nat, Loop!Invalidate(t, n)
    PROVE  /\ loop_timers' \in Seq(Timers) /\ Distinct(loop_timers')
           /\ in_loop' = Loop!ToSet(loop_timers') /\ in_loop' = in_loop \ {t}
           /\ due' = due \ {t}
           /\ rc' = [rc EXCEPT ![t] = @ - n - Bit(t \in in_loop)]
<1>1. /\ loop_timers' = IF t \in in_loop THEN Loop!Without(loop_timers, {t}) ELSE loop_timers
      /\ in_loop' = in_loop \ {t} /\ due' = due \ {t}
      /\ rc' = [rc EXCEPT ![t] = @ - n - Bit(t \in in_loop)]
  BY DEF Loop!Invalidate, Bit
<1>2. CASE t \in in_loop
  BY <1>1, <1>2, WithoutSound DEF LoopTypes
<1>3. CASE t \notin in_loop
  BY <1>1, <1>3 DEF LoopTypes
<1>4. QED
  BY <1>1, <1>2, <1>3

\* A step of the guest that calls nothing.
LEMMA GuestStep ==
    ASSUME LoopInv, UNCHANGED <<activations, running>>, LoopTypes', FiredOnce',
           \A t \in Timers : t \in owned \ owned' => LoopCalls(activations, t, FALSE) = {},
           \A t \in Timers : rc'[t] - Bit(t \in owned') - Bit(t \in in_loop')
                               = rc[t] - Bit(t \in owned) - Bit(t \in in_loop),
           \A t \in Timers : rc'[t] = 0 => t \notin due'
    PROVE  LoopInv'
<1>1. StackOK(activations')
  BY DEF LoopInv
<1>2. Callbacks(activations', running', owned')
  BY DEF LoopInv, Callbacks
<1>3. Counts'
  <2> SUFFICES ASSUME NEW t \in Timers
               PROVE  rc'[t] = Bit(t \in owned') + Bit(t \in in_loop') + Bit(t \in running')
                                 + Cardinality(Coming(activations', t))
    BY DEF Counts
  <2>1. Cardinality(Coming(activations, t)) \in Nat
    BY ComingCounted DEF LoopInv
  <2>2. PICK k \in Nat : k = Cardinality(Coming(activations, t))
    BY <2>1
  <2>3. rc[t] = Bit(t \in owned) + Bit(t \in in_loop) + Bit(t \in running) + k
    BY <2>2 DEF LoopInv, Counts
  <2>4. rc[t] \in Nat /\ rc'[t] \in Nat
    BY DEF LoopInv, LoopTypes
  <2>5. rc'[t] = Bit(t \in owned') + Bit(t \in in_loop') + Bit(t \in running') + k
    BY <2>3, <2>4 DEF Bit
  <2>6. QED
    BY <2>2, <2>5
<1>4. QED
  BY <1>1, <1>2, <1>3 DEF LoopInv

LEMMA InvFactsOf ==
    ASSUME LoopInv
    PROVE  /\ LoopTypes /\ StackOK(activations) /\ Callbacks(activations, running, owned) /\ FiredOnce
           /\ \A t \in Timers : /\ rc[t] = 0 => t \notin due
                                /\ rc[t] \in Nat /\ Cardinality(Coming(activations, t)) \in Nat
                                /\ rc[t] = Bit(t \in owned) + Bit(t \in in_loop) + Bit(t \in running)
                                             + Cardinality(Coming(activations, t))
  BY ComingCounted DEF LoopInv, LoopTypes, Counts

LEMMA TimerMade ==
    ASSUME LoopInv, Loop!LoopAssumption, NEW t \in Timers, NEW r \in BOOLEAN, Loop!NewTimer(t, r)
    PROVE  LoopInv'
<1>1. /\ rc[t] = 0 /\ rc' = [rc EXCEPT ![t] = 1] /\ owned' = owned \cup {t} /\ due' = due \cup {t}
      /\ left' = [left EXCEPT ![t] = Interval] /\ fired' = [fired EXCEPT ![t] = 0]
      /\ repeats' = (IF r THEN repeats \cup {t} ELSE repeats \ {t})
      /\ UNCHANGED <<loop_timers, stopped, activations, running, in_loop>>
  BY DEF Loop!NewTimer
<1>2. t \notin owned /\ t \notin in_loop /\ t \notin running
  <2>1. PICK k \in Nat : rc[t] = Bit(t \in owned) + Bit(t \in in_loop) + Bit(t \in running) + k
    BY InvFactsOf
  <2>2. QED
    BY <1>1, <2>1 DEF Bit
<1>3. LoopTypes'
  <2>1. Interval \in -MaxLate .. Interval
    BY DEF Loop!LoopAssumption
  <2>2. LoopTypes
    BY DEF LoopInv
  <2>3. left' \in [Timers -> -MaxLate .. Interval]
    BY <1>1, <2>1, <2>2 DEF LoopTypes
  <2>4. rc' \in [Timers -> Nat] /\ fired' \in [Timers -> 0 .. 2]
    BY <1>1, <2>2 DEF LoopTypes
  <2>5. QED
    BY <1>1, <2>2, <2>3, <2>4 DEF LoopTypes
<1>4. FiredOnce'
  BY <1>1 DEF LoopInv, LoopTypes, FiredOnce
<1>5. \A u \in Timers : rc'[u] - Bit(u \in owned') - Bit(u \in in_loop')
                          = rc[u] - Bit(u \in owned) - Bit(u \in in_loop)
  <2> TAKE u \in Timers
  <2>1. rc[u] \in Nat /\ rc' = [rc EXCEPT ![t] = 1] /\ rc \in [Timers -> Nat]
    BY <1>1 DEF LoopInv, LoopTypes
  <2>2. CASE u = t
    <3>1. rc'[u] = 1 /\ rc[u] = 0 /\ u \in owned' /\ u \notin owned /\ u \notin in_loop /\ u \notin in_loop'
      BY <1>1, <1>2, <2>1, <2>2
    <3>2. QED
      BY <3>1 DEF Bit
  <2>3. CASE u # t
    BY <1>1, <2>1, <2>3
  <2>4. QED
    BY <2>2, <2>3
<1>6. \A u \in Timers : rc'[u] = 0 => u \notin due'
  BY <1>1 DEF LoopInv, LoopTypes
<1>7. QED
  BY <1>1, <1>3, <1>4, <1>5, <1>6, GuestStep

LEMMA TimerListed ==
    ASSUME LoopInv, NEW t \in Timers, Loop!addTimer(t)
    PROVE  LoopInv'
<1>1. /\ t \notin Loop!ToSet(loop_timers) /\ loop_timers' = Append(loop_timers, t)
      /\ in_loop' = in_loop \cup {t} /\ rc' = [rc EXCEPT ![t] = @ + 1]
      /\ UNCHANGED <<stopped, activations, due, left, repeats, running, owned, fired>>
  BY DEF Loop!addTimer
<1>2. LoopTypes
  BY DEF LoopInv
<1>3. /\ loop_timers' \in Seq(Timers) /\ Distinct(loop_timers')
      /\ in_loop' = Loop!ToSet(loop_timers')
  BY <1>1, <1>2, DistinctMore DEF LoopTypes
<1>4. LoopTypes'
  <2>1. rc' \in [Timers -> Nat]
    BY <1>1, <1>2 DEF LoopTypes
  <2>2. QED
    BY <1>1, <1>2, <1>3, <2>1 DEF LoopTypes
<1>5. FiredOnce'
  BY <1>1 DEF LoopInv, FiredOnce
<1>6. ASSUME NEW u \in Timers
      PROVE  /\ rc'[u] - Bit(u \in owned') - Bit(u \in in_loop')
                  = rc[u] - Bit(u \in owned) - Bit(u \in in_loop)
             /\ rc'[u] = 0 => u \notin due'
  <2>1. rc[u] \in Nat /\ t \notin in_loop /\ (rc[u] = 0 => u \notin due)
    BY <1>1, <1>2, InvFactsOf DEF LoopTypes
  <2>2. CASE u = t
    <3>1. rc'[u] = rc[u] + 1 /\ u \in in_loop' /\ u \notin in_loop
      BY <1>1, <1>2, <2>1, <2>2 DEF LoopTypes
    <3>2. QED
      BY <1>1, <2>1, <3>1 DEF Bit
  <2>3. CASE u # t
    BY <1>1, <1>2, <2>1, <2>3 DEF LoopTypes
  <2>4. QED
    BY <2>2, <2>3
<1>7. QED
  BY <1>1, <1>4, <1>5, <1>6, GuestStep

LEMMA TimerInvalidated ==
    ASSUME LoopInv, NEW t \in Timers, Loop!invalidate(t)
    PROVE  LoopInv'
<1>1. Loop!Invalidate(t, 0) /\ UNCHANGED <<stopped, activations, left, repeats, running, owned, fired>>
  BY DEF Loop!invalidate
<1>2. LoopTypes
  BY DEF LoopInv
<1>3. /\ loop_timers' \in Seq(Timers) /\ Distinct(loop_timers')
      /\ in_loop' = Loop!ToSet(loop_timers') /\ in_loop' = in_loop \ {t}
      /\ due' = due \ {t}
      /\ rc' = [rc EXCEPT ![t] = @ - 0 - Bit(t \in in_loop)]
  BY <1>1, <1>2, Invalidated
<1>4. ASSUME NEW u \in Timers
      PROVE  /\ rc'[u] - Bit(u \in owned') - Bit(u \in in_loop')
                  = rc[u] - Bit(u \in owned) - Bit(u \in in_loop)
             /\ rc'[u] = 0 => u \notin due'
             /\ rc'[u] \in Nat
  <2>1. PICK k \in Nat : rc[u] = Bit(u \in owned) + Bit(u \in in_loop) + Bit(u \in running) + k
    BY InvFactsOf
  <2>2. rc[u] \in Nat /\ (rc[u] = 0 => u \notin due)
    BY InvFactsOf
  <2>3. CASE u = t
    <3>1. rc'[u] = rc[u] - 0 - Bit(u \in in_loop) /\ u \notin due' /\ u \notin in_loop'
      BY <1>2, <1>3, <2>3 DEF LoopTypes
    <3>2. QED
      BY <1>1, <2>1, <2>2, <3>1 DEF Bit
  <2>4. CASE u # t
    BY <1>1, <1>2, <1>3, <2>2, <2>4 DEF LoopTypes
  <2>5. QED
    BY <2>3, <2>4
<1>5. LoopTypes'
  <2>1. rc' \in [Timers -> Nat]
    BY <1>2, <1>3, <1>4 DEF LoopTypes
  <2>2. QED
    BY <1>1, <1>2, <1>3, <2>1 DEF LoopTypes
<1>6. FiredOnce'
  BY <1>1, <1>3 DEF LoopInv, FiredOnce
<1>7. QED
  BY <1>1, <1>4, <1>5, <1>6, GuestStep

LEMMA TimersCancelled ==
    ASSUME LoopInv, NEW S \in SUBSET Timers, Loop!cancelPerformSelectorsWithTarget(S)
    PROVE  LoopInv'
<1>1. PICK gone : gone = S \cap Loop!ToSet(loop_timers)
  OBVIOUS
<1>2. /\ loop_timers' = Loop!Without(loop_timers, S) /\ in_loop' = in_loop \ gone
      /\ due' = due \ gone /\ rc' = [t \in Timers |-> rc[t] - Bit(t \in gone)]
      /\ UNCHANGED <<stopped, activations, left, repeats, running, owned, fired>>
  BY <1>1 DEF Loop!cancelPerformSelectorsWithTarget, Bit
<1>3. LoopTypes
  BY DEF LoopInv
<1>4. /\ loop_timers' \in Seq(Timers) /\ Distinct(loop_timers')
      /\ in_loop' = Loop!ToSet(loop_timers')
  <2>1. loop_timers \in Seq(Timers) /\ Distinct(loop_timers) /\ in_loop = Loop!ToSet(loop_timers)
    BY <1>3 DEF LoopTypes
  <2>2. /\ Loop!Without(loop_timers, S) \in Seq(Timers) /\ Distinct(Loop!Without(loop_timers, S))
        /\ Loop!ToSet(Loop!Without(loop_timers, S)) = Loop!ToSet(loop_timers) \ S
    BY <2>1, WithoutSound
  <2>3. QED
    BY <1>1, <1>2, <2>1, <2>2
<1>5. ASSUME NEW u \in Timers
      PROVE  /\ rc'[u] - Bit(u \in owned') - Bit(u \in in_loop')
                  = rc[u] - Bit(u \in owned) - Bit(u \in in_loop)
             /\ rc'[u] = 0 => u \notin due'
             /\ rc'[u] \in Nat
  <2>1. PICK k \in Nat : rc[u] = Bit(u \in owned) + Bit(u \in in_loop) + Bit(u \in running) + k
    BY InvFactsOf
  <2>2. rc[u] \in Nat /\ (rc[u] = 0 => u \notin due)
    BY InvFactsOf
  <2>3. rc'[u] = rc[u] - Bit(u \in gone)
    BY <1>2
  <2>4. CASE u \in gone
    <3>1. u \in in_loop /\ u \notin in_loop' /\ u \notin due'
      BY <1>1, <1>2, <1>3, <2>4 DEF LoopTypes
    <3>2. QED
      BY <1>2, <2>1, <2>2, <2>3, <2>4, <3>1 DEF Bit
  <2>5. CASE u \notin gone
    <3>1. rc'[u] = rc[u] /\ (u \in in_loop' <=> u \in in_loop) /\ (u \in due' => u \in due)
      BY <1>2, <2>2, <2>3, <2>5 DEF Bit
    <3>2. QED
      BY <1>2, <2>2, <3>1
  <2>6. QED
    BY <2>4, <2>5
<1>6. LoopTypes'
  <2>1. rc' \in [Timers -> Nat]
    BY <1>2, <1>5
  <2>2. QED
    BY <1>2, <1>3, <1>4, <2>1 DEF LoopTypes
<1>7. FiredOnce'
  BY <1>2 DEF LoopInv, FiredOnce
<1>8. QED
  BY <1>2, <1>5, <1>6, <1>7, GuestStep

LEMMA TimerReleased ==
    ASSUME LoopInv, NEW t \in Timers, Loop!release(t)
    PROVE  LoopInv'
<1>1. /\ t \in owned /\ owned' = owned \ {t} /\ rc' = [rc EXCEPT ![t] = @ - 1]
      /\ due' = (IF rc[t] = 1 THEN due \ {t} ELSE due)
      /\ \A i \in DOMAIN activations : activations[i] # Loop!FireFrame(t, FALSE)
      /\ UNCHANGED <<loop_timers, stopped, activations, left, repeats, running, in_loop, fired>>
  BY DEF Loop!release, Loop!Release
<1>2. LoopTypes
  BY DEF LoopInv
<1>3. ASSUME NEW u \in Timers
      PROVE  /\ rc'[u] - Bit(u \in owned') - Bit(u \in in_loop')
                  = rc[u] - Bit(u \in owned) - Bit(u \in in_loop)
             /\ rc'[u] = 0 => u \notin due'
             /\ rc'[u] \in Nat
  <2>1. PICK k \in Nat : rc[u] = Bit(u \in owned) + Bit(u \in in_loop) + Bit(u \in running) + k
    BY InvFactsOf
  <2>2. rc[u] \in Nat /\ (rc[u] = 0 => u \notin due)
    BY InvFactsOf
  <2>3. CASE u = t
    <3>1. rc'[u] = rc[u] - 1 /\ u \in owned /\ u \notin owned' /\ (rc[u] = 1 => u \notin due')
      BY <1>1, <1>2, <2>3 DEF LoopTypes
    <3>2. QED
      BY <1>1, <2>1, <2>2, <3>1 DEF Bit
  <2>4. CASE u # t
    <3>1. rc'[u] = rc[u] /\ (u \in owned' <=> u \in owned) /\ (u \in due' => u \in due)
      BY <1>1, <1>2, <2>4 DEF LoopTypes
    <3>2. QED
      BY <1>1, <2>2, <3>1 DEF Bit
  <2>5. QED
    BY <2>3, <2>4
<1>4. LoopTypes'
  <2>1. rc' \in [Timers -> Nat]
    BY <1>1, <1>2, <1>3 DEF LoopTypes
  <2>2. QED
    BY <1>1, <1>2, <2>1 DEF LoopTypes
<1>5. FiredOnce'
  BY <1>1 DEF LoopInv, FiredOnce
<1>6. LoopCalls(activations, t, FALSE) = {}
  <2>1. DOMAIN activations = 1 .. Len(activations)
    BY DEF LoopInv, StackOK
  <2>2. QED
    BY <1>1, <2>1 DEF LoopCalls
<1>7. QED
  BY <1>1, <1>3, <1>4, <1>5, <1>6, GuestStep

LEMMA DateSet ==
    ASSUME LoopInv, Loop!LoopAssumption,
           (\E t \in Timers : Loop!setFireDate(t)) \/ Loop!TimePasses \/ Loop!CFRunLoopStop
    PROVE  LoopInv'
<1>1. LoopTypes
  BY DEF LoopInv
<1>2. /\ UNCHANGED <<loop_timers, activations, due, repeats, running, in_loop, rc, owned, fired>>
      /\ stopped' \in BOOLEAN
  BY <1>1 DEF Loop!setFireDate, Loop!TimePasses, Loop!CFRunLoopStop, Loop!timerVars, LoopTypes
<1>3. left' \in [Timers -> -MaxLate .. Interval]
  <2>1. left \in [Timers -> -MaxLate .. Interval] /\ due \subseteq Timers
    BY <1>1 DEF LoopTypes
  <2>2. Interval \in Nat /\ MaxLate \in Nat
    BY DEF Loop!LoopAssumption
  <2>3. CASE Loop!CFRunLoopStop
    BY <2>1, <2>3 DEF Loop!CFRunLoopStop, Loop!timerVars
  <2>4. ASSUME NEW t \in Timers, Loop!setFireDate(t) PROVE left' \in [Timers -> -MaxLate .. Interval]
    <3>1. PICK d \in {0, Interval} : left' = [left EXCEPT ![t] = d]
      BY <2>4 DEF Loop!setFireDate
    <3>2. d \in -MaxLate .. Interval
      BY <2>2
    <3>3. QED
      BY <2>1, <3>1, <3>2
  <2>5. CASE Loop!TimePasses
    <3>1. /\ \A t \in due : left[t] > -MaxLate
          /\ left' = [t \in Timers |-> IF t \in due THEN left[t] - 1 ELSE left[t]]
      BY <2>5 DEF Loop!TimePasses
    <3>2. ASSUME NEW t \in Timers PROVE (IF t \in due THEN left[t] - 1 ELSE left[t]) \in -MaxLate .. Interval
      <4>1. left[t] \in -MaxLate .. Interval
        BY <2>1
      <4>2. QED
        BY <2>2, <3>1, <4>1
    <3>3. QED
      BY <3>1, <3>2
  <2>6. QED
    BY <2>3, <2>4, <2>5
<1>4. LoopTypes'
  BY <1>1, <1>2, <1>3 DEF LoopTypes
<1>5. FiredOnce'
  BY <1>2 DEF LoopInv, FiredOnce
<1>6. QED
  BY <1>2, <1>4, <1>5, GuestStep, InvFactsOf

\* A step that changes the stack and keeps the rest of the invariant.
LEMMA StackStep ==
    ASSUME LoopInv, LoopTypes', FiredOnce', StackOK(activations'),
           Callbacks(activations', running', owned'),
           \A t \in Timers :
              rc'[t] - Bit(t \in owned') - Bit(t \in in_loop') - Bit(t \in running')
                     - Cardinality(Coming(activations', t))
                = rc[t] - Bit(t \in owned) - Bit(t \in in_loop) - Bit(t \in running)
                        - Cardinality(Coming(activations, t)),
           \A t \in Timers : rc'[t] = 0 => t \notin due'
    PROVE  LoopInv'
<1>1. Counts'
  <2> SUFFICES ASSUME NEW t \in Timers
               PROVE  rc'[t] = Bit(t \in owned') + Bit(t \in in_loop') + Bit(t \in running')
                                 + Cardinality(Coming(activations', t))
    BY DEF Counts
  <2>1. PICK k \in Nat : k = Cardinality(Coming(activations, t))
    BY InvFactsOf
  <2>2. PICK m \in Nat : m = Cardinality(Coming(activations', t))
    BY ComingCounted
  <2>3. rc[t] = Bit(t \in owned) + Bit(t \in in_loop) + Bit(t \in running) + k
    BY <2>1, InvFactsOf
  <2>4. rc[t] \in Nat /\ rc'[t] \in Nat
    BY DEF LoopInv, LoopTypes
  <2>5. rc'[t] - Bit(t \in owned') - Bit(t \in in_loop') - Bit(t \in running') - m
          = rc[t] - Bit(t \in owned) - Bit(t \in in_loop) - Bit(t \in running) - k
    BY <2>1, <2>2
  <2>6. PICK x \in Nat, y \in Nat, z \in Nat :
            x = Bit(t \in owned) /\ y = Bit(t \in in_loop) /\ z = Bit(t \in running)
    BY DEF Bit
  <2>7. PICK u \in Nat, v \in Nat, w \in Nat :
            u = Bit(t \in owned') /\ v = Bit(t \in in_loop') /\ w = Bit(t \in running')
    BY DEF Bit
  <2>8. PICK a \in Nat, b \in Nat : a = rc[t] /\ b = rc'[t]
    BY <2>4
  <2>9. a = x + y + z + k /\ b - u - v - w - m = a - x - y - z - k
    BY <2>3, <2>5, <2>6, <2>7, <2>8
  <2>10. b = u + v + w + m
    BY <2>9
  <2>11. QED
    BY <2>2, <2>7, <2>8, <2>10
<1>2. QED
  BY <1>1 DEF LoopInv

\* The last frame.
LEMMA TopFrame ==
    ASSUME LoopInv, activations # <<>>, NEW n, n = Len(activations), NEW f, f = activations[n]
    PROVE  /\ n \in Nat /\ n > 0 /\ n <= MaxFrames /\ f \in LoopFrames /\ FrameOK(f)
           /\ Loop!Last(activations) = f /\ n \in 1 .. n
           /\ \A t \in Timers : ByLoop(f, t) => n > 1 /\ IsAt(activations[n - 1], t)
<1>1. activations \in Seq(LoopFrames) /\ Len(activations) <= MaxFrames
  BY DEF LoopInv, StackOK
<1>2. n \in Nat /\ n > 0 /\ n <= MaxFrames /\ n \in 1 .. n
  BY <1>1
<1>3. QED
  BY <1>1, <1>2 DEF LoopInv, StackOK, Loop!Last

\* A loop or the guest calls on the top of the stack, a loop as it is.
LEMMA CallBegun ==
    ASSUME LoopInv, Loop!LoopAssumption, Len(activations) < MaxFrames, NEW f \in LoopFrames,
           FrameOK(f), \A t : ~ ComesTo(f, t),
           \A t \in Timers : ByLoop(f, t) =>
               activations # <<>> /\ IsAt(activations[Len(activations)], t),
           activations' = Append(activations, f)
    PROVE  /\ StackOK(activations')
           /\ \A t : Coming(activations', t) = Coming(activations, t)
           /\ \A t, b :
                 /\ f # Loop!FireFrame(t, b) => LoopCalls(activations', t, b) = LoopCalls(activations, t, b)
                 /\ f = Loop!FireFrame(t, b) => LoopCalls(activations', t, b) =
                                                   LoopCalls(activations, t, b) \cup {Len(activations) + 1}
<1>1. PICK n \in Nat : n = Len(activations)
  BY DEF LoopInv, StackOK
<1>2. /\ StackOK(activations') /\ \A t : Coming(activations', t) = Coming(activations, t)
      /\ Len(activations') = n + 1 /\ activations'[n + 1] = f
      /\ \A i \in 1 .. n : activations'[i] = activations[i]
  BY <1>1, Pushed DEF LoopInv, Loop!LoopAssumption
<1>3. ASSUME NEW t, NEW b
      PROVE  /\ f # Loop!FireFrame(t, b) => LoopCalls(activations', t, b) = LoopCalls(activations, t, b)
             /\ f = Loop!FireFrame(t, b) => LoopCalls(activations', t, b) =
                                               LoopCalls(activations, t, b) \cup {Len(activations) + 1}
  <2>1. PICK r, s : r = activations' /\ s = activations
    OBVIOUS
  <2>2. Len(s) = n /\ Len(r) = n + 1 /\ r[n + 1] = f /\ n \in Nat
    BY <1>1, <1>2, <2>1
  <2>3. \A i \in 1 .. n : r[i] = s[i]
    BY <1>2, <2>1
  <2>4. /\ r[n + 1] = Loop!FireFrame(t, b) => LoopCalls(r, t, b) = LoopCalls(s, t, b) \cup {n + 1}
        /\ r[n + 1] # Loop!FireFrame(t, b) => LoopCalls(r, t, b) = LoopCalls(s, t, b)
    BY <2>2, <2>3, CallsMore
  <2>5. QED
    BY <2>1, <2>2, <2>4
<1>4. QED
  BY <1>2, <1>3

LEMMA CallEnded ==
    ASSUME LoopInv, Loop!LoopAssumption, activations # <<>>, NEW f,
           f = activations[Len(activations)], \A t : ~ ComesTo(f, t),
           NEW s, s = Loop!Front(activations)
    PROVE  /\ StackOK(s) /\ Len(s) = Len(activations) - 1
           /\ \A i \in 1 .. Len(activations) - 1 : s[i] = activations[i]
           /\ \A t : Coming(s, t) = Coming(activations, t)
           /\ \A t, b :
                 /\ Len(activations) \notin LoopCalls(s, t, b)
                 /\ f # Loop!FireFrame(t, b) => LoopCalls(activations, t, b) = LoopCalls(s, t, b)
                 /\ f = Loop!FireFrame(t, b) =>
                       LoopCalls(activations, t, b) = LoopCalls(s, t, b) \cup {Len(activations)}
<1>1. PICK n \in Nat : n + 1 = Len(activations)
  <2>1. Len(activations) \in Nat /\ Len(activations) > 0
    BY DEF LoopInv, StackOK
  <2>2. Len(activations) - 1 \in Nat /\ (Len(activations) - 1) + 1 = Len(activations)
    BY <2>1
  <2>3. QED
    BY <2>2
<1>2. /\ StackOK(s) /\ \A t : Coming(s, t) = Coming(activations, t)
      /\ Len(s) = Len(activations) - 1
      /\ \A i \in 1 .. Len(activations) - 1 : s[i] = activations[i]
  BY TakenOff DEF LoopInv, Loop!LoopAssumption
<1>3. Len(s) = n /\ \A i \in 1 .. n : activations[i] = s[i]
  BY <1>1, <1>2
<1>4. ASSUME NEW t, NEW b
      PROVE  /\ Len(activations) \notin LoopCalls(s, t, b)
             /\ f # Loop!FireFrame(t, b) => LoopCalls(activations, t, b) = LoopCalls(s, t, b)
             /\ f = Loop!FireFrame(t, b) =>
                   LoopCalls(activations, t, b) = LoopCalls(s, t, b) \cup {Len(activations)}
  BY <1>1, <1>3, CallsMore
<1>5. QED
  BY <1>2, <1>4

\* The guest runs the loop, or calls fire.
LEMMA LoopRun ==
    ASSUME LoopInv, Loop!LoopAssumption, NEW single \in BOOLEAN, Loop!run_run_loop(single)
    PROVE  LoopInv'
<1>1. PICK f : f = Loop!RunFrame(single)
  OBVIOUS
<1>2. /\ f \in LoopFrames /\ FrameOK(f) /\ \A t : ~ ComesTo(f, t) /\ ~ ByLoop(f, t)
  <2>1. f \in RunFrames /\ f.todo = <<>> /\ f.kind = "run"
    BY <1>1 DEF Loop!RunFrame, RunFrames
  <2>2. f \in LoopFrames
    BY <2>1 DEF LoopFrames
  <2>3. Distinct(<<>>) /\ \A t : t \notin Loop!ToSet(<<>>)
    BY DEF Distinct, Loop!ToSet
  <2>4. QED
    BY <2>1, <2>2, <2>3, FrameKinds DEF FrameOK, ComesTo
<1>3. /\ activations' = Append(activations, f) /\ Len(activations) < MaxFrames
      /\ UNCHANGED <<loop_timers, stopped, due, left, repeats, running, in_loop, rc, owned, fired>>
  <2>1. Len(activations) \in Nat /\ MaxFrames \in Nat
    BY DEF LoopInv, StackOK, Loop!LoopAssumption
  <2>2. QED
    BY <1>1, <2>1 DEF Loop!run_run_loop, Loop!timerVars
<1>4. /\ StackOK(activations')
      /\ \A t : Coming(activations', t) = Coming(activations, t)
      /\ \A t, b : f # Loop!FireFrame(t, b) => LoopCalls(activations', t, b) = LoopCalls(activations, t, b)
  BY <1>2, <1>3, CallBegun
<1>5. \A t, b : LoopCalls(activations', t, b) = LoopCalls(activations, t, b)
  <2>1. \A t, b : f # Loop!FireFrame(t, b)
    BY <1>1, FireKind DEF Loop!RunFrame
  <2>2. QED
    BY <1>4, <2>1
<1>6. Callbacks(activations', running', owned')
  BY <1>3, <1>5 DEF LoopInv, Callbacks
<1>7. LoopTypes' /\ FiredOnce'
  BY <1>3 DEF LoopInv, LoopTypes, FiredOnce
<1>8. QED
  BY <1>3, <1>4, <1>6, <1>7, StackStep, InvFactsOf

LEMMA GuestFires ==
    ASSUME LoopInv, Loop!LoopAssumption, NEW t \in Timers, Loop!fire(t)
    PROVE  LoopInv'
<1>1. PICK f : f = Loop!FireFrame(t, FALSE)
  OBVIOUS
<1>2. f \in LoopFrames /\ f.kind = "fire" /\ f.timer = t /\ ~ f.byLoop
  BY <1>1 DEF Loop!FireFrame, LoopFrames, FireFrames
<1>3. FrameOK(f) /\ \A u : ~ ComesTo(f, u) /\ ~ ByLoop(f, u)
  BY <1>2, FrameKinds DEF FrameOK, ComesTo
<1>4. /\ activations' = Append(activations, f) /\ Len(activations) < MaxFrames /\ t \in owned
      /\ UNCHANGED <<loop_timers, stopped, due, left, repeats, running, in_loop, rc, owned, fired>>
  BY <1>1 DEF Loop!fire, Loop!timerVars
<1>5. /\ StackOK(activations')
      /\ \A u : Coming(activations', u) = Coming(activations, u)
      /\ \A u, b : f # Loop!FireFrame(u, b) => LoopCalls(activations', u, b) = LoopCalls(activations, u, b)
  BY <1>2, <1>3, <1>4, CallBegun
<1>6. ASSUME NEW u \in Timers
      PROVE  /\ LoopCalls(activations', u, TRUE) = LoopCalls(activations, u, TRUE)
             /\ LoopCalls(activations', u, FALSE) # {} => u \in owned'
  <2>1. f # Loop!FireFrame(u, TRUE)
    BY <1>3 DEF ByLoop
  <2>2. f = Loop!FireFrame(u, FALSE) => u = t
    <3>1. Loop!FireFrame(u, FALSE).timer = u
      BY DEF Loop!FireFrame
    <3>2. QED
      BY <1>2, <3>1
  <2>3. QED
    BY <1>4, <1>5, <2>1, <2>2 DEF LoopInv, Callbacks
<1>7. Callbacks(activations', running', owned')
  BY <1>4, <1>6 DEF LoopInv, Callbacks
<1>8. LoopTypes' /\ FiredOnce'
  BY <1>4 DEF LoopInv, LoopTypes, FiredOnce
<1>9. QED
  BY <1>4, <1>5, <1>7, <1>8, StackStep, InvFactsOf

\* The guest's call of fire returns, and a one-shot timer is invalidated.
LEMMA GuestFired ==
    ASSUME LoopInv, Loop!LoopAssumption, Loop!FireReturns
    PROVE  LoopInv'
<1>1. PICK n, f : n = Len(activations) /\ f = activations[n]
  OBVIOUS
<1>2. activations # <<>> /\ f.kind = "fire" /\ ~ f.byLoop /\ f \in LoopFrames
  <2>1. activations # <<>> /\ Loop!InGuest /\ ~ Loop!Last(activations).byLoop
    BY DEF Loop!FireReturns
  <2>2. Loop!Last(activations) = f /\ f \in LoopFrames
    BY <1>1, <2>1, TopFrame
  <2>3. QED
    BY <2>1, <2>2 DEF Loop!InGuest
<1>3. PICK t \in Timers : t = f.timer
  BY <1>2, FrameKinds DEF FireFrames
<1>4. f = Loop!FireFrame(t, FALSE) /\ \A u : ~ ByLoop(f, u) /\ ~ ComesTo(f, u)
  BY <1>2, <1>3, FrameKinds DEF ComesTo, FireFrames
<1>5. /\ activations' = Loop!Front(activations)
      /\ (IF t \in repeats THEN UNCHANGED <<loop_timers, in_loop, due, rc>> ELSE Loop!Invalidate(t, 0))
      /\ UNCHANGED <<stopped, left, repeats, running, owned, fired>>
  <2>1. Loop!Last(activations) = f
    BY <1>1, <1>2, TopFrame
  <2>2. QED
    BY <1>3, <2>1 DEF Loop!FireReturns, Loop!Pop
<1>6. LoopTypes
  BY DEF LoopInv
<1>7. /\ loop_timers' \in Seq(Timers) /\ Distinct(loop_timers')
      /\ in_loop' = Loop!ToSet(loop_timers') /\ in_loop' \subseteq in_loop /\ due' \subseteq due
      /\ rc' \in [Timers -> Nat]
      /\ \A u \in Timers : /\ rc'[u] - Bit(u \in in_loop') = rc[u] - Bit(u \in in_loop)
                           /\ rc'[u] = 0 => u \notin due'
  <2>1. CASE t \in repeats
    BY <1>5, <1>6, <2>1, InvFactsOf DEF LoopTypes
  <2>2. CASE t \notin repeats
    <3>1. /\ loop_timers' \in Seq(Timers) /\ Distinct(loop_timers')
          /\ in_loop' = Loop!ToSet(loop_timers') /\ in_loop' = in_loop \ {t}
          /\ due' = due \ {t}
          /\ rc' = [rc EXCEPT ![t] = @ - 0 - Bit(t \in in_loop)]
      BY <1>5, <1>6, <2>2, Invalidated
    <3>2. ASSUME NEW u \in Timers
          PROVE  /\ rc'[u] - Bit(u \in in_loop') = rc[u] - Bit(u \in in_loop)
                 /\ rc'[u] = 0 => u \notin due'
                 /\ rc'[u] \in Nat
      <4>1. PICK k \in Nat : rc[u] = Bit(u \in owned) + Bit(u \in in_loop) + Bit(u \in running) + k
        BY InvFactsOf
      <4>2. rc[u] \in Nat /\ (rc[u] = 0 => u \notin due)
        BY InvFactsOf
      <4>3. CASE u = t
        <5>1. rc'[u] = rc[u] - 0 - Bit(u \in in_loop) /\ u \notin due' /\ u \notin in_loop'
          BY <1>6, <3>1, <4>3 DEF LoopTypes
        <5>2. QED
          BY <4>1, <4>2, <5>1 DEF Bit
      <4>4. CASE u # t
        BY <1>6, <3>1, <4>2, <4>4 DEF LoopTypes
      <4>5. QED
        BY <4>3, <4>4
    <3>3. rc' \in [Timers -> Nat]
      BY <1>6, <3>1, <3>2 DEF LoopTypes
    <3>4. QED
      BY <3>1, <3>2, <3>3
  <2>3. QED
    BY <2>1, <2>2
<1>8. LoopTypes' /\ FiredOnce'
  <2>1. LoopTypes'
    BY <1>5, <1>6, <1>7 DEF LoopTypes
  <2>2. FiredOnce'
    BY <1>5, <1>7, InvFactsOf DEF FiredOnce
  <2>3. QED
    BY <2>1, <2>2
<1>9. /\ StackOK(activations') /\ \A u : Coming(activations', u) = Coming(activations, u)
      /\ \A u, b : /\ f # Loop!FireFrame(u, b) => LoopCalls(activations, u, b) = LoopCalls(activations', u, b)
                   /\ f = Loop!FireFrame(u, b) =>
                         LoopCalls(activations, u, b) = LoopCalls(activations', u, b) \cup {n}
  <2>1. PICK s : s = Loop!Front(activations) /\ s = activations'
    BY <1>5
  <2>2. f = activations[Len(activations)] /\ \A u : ~ ComesTo(f, u)
    BY <1>1, <1>4
  <2>3. /\ StackOK(s) /\ \A u : Coming(s, u) = Coming(activations, u)
        /\ \A u, b : /\ f # Loop!FireFrame(u, b) => LoopCalls(activations, u, b) = LoopCalls(s, u, b)
                     /\ f = Loop!FireFrame(u, b) =>
                           LoopCalls(activations, u, b) = LoopCalls(s, u, b) \cup {Len(activations)}
    BY <1>2, <2>1, <2>2, CallEnded
  <2>4. QED
    BY <1>1, <2>1, <2>3
<1>10. Callbacks(activations', running', owned')
  <2> SUFFICES ASSUME NEW u \in Timers
               PROVE  /\ u \in running' <=> LoopCalls(activations', u, TRUE) # {}
                      /\ \A i, j \in LoopCalls(activations', u, TRUE) : i = j
                      /\ LoopCalls(activations', u, FALSE) # {} => u \in owned'
    BY DEF Callbacks
  <2>1. LoopCalls(activations', u, TRUE) = LoopCalls(activations, u, TRUE)
    BY <1>4, <1>9 DEF ByLoop
  <2>2. LoopCalls(activations', u, FALSE) \subseteq LoopCalls(activations, u, FALSE)
    <3>1. CASE f = Loop!FireFrame(u, FALSE)
      BY <1>9, <3>1
    <3>2. CASE f # Loop!FireFrame(u, FALSE)
      BY <1>9, <3>2
    <3>3. QED
      BY <3>1, <3>2
  <2>3. QED
    BY <1>5, <2>1, <2>2 DEF LoopInv, Callbacks
<1>11. \A u \in Timers :
           rc'[u] - Bit(u \in owned') - Bit(u \in in_loop') - Bit(u \in running')
                  - Cardinality(Coming(activations', u))
             = rc[u] - Bit(u \in owned) - Bit(u \in in_loop) - Bit(u \in running)
                     - Cardinality(Coming(activations, u))
  <2> TAKE u \in Timers
  <2>1. PICK k \in Nat : k = Cardinality(Coming(activations, u))
    BY InvFactsOf
  <2>2. rc[u] \in Nat /\ rc'[u] \in Nat /\ rc'[u] - Bit(u \in in_loop') = rc[u] - Bit(u \in in_loop)
    BY <1>7, InvFactsOf
  <2>3. k = Cardinality(Coming(activations', u))
    BY <1>9, <2>1
  <2>4. rc'[u] - Bit(u \in owned) - Bit(u \in in_loop') - Bit(u \in running) - k
          = rc[u] - Bit(u \in owned) - Bit(u \in in_loop) - Bit(u \in running) - k
    BY <2>2 DEF Bit
  <2>5. QED
    BY <1>5, <2>1, <2>3, <2>4
<1>12. QED
  BY <1>7, <1>8, <1>9, <1>10, <1>11, StackStep

\* An iteration begins: the loop retains and copies the list.
LEMMA IterationBegun ==
    ASSUME LoopInv, Loop!LoopAssumption, Loop!BeginIteration
    PROVE  LoopInv'
<1>1. PICK n, g : n = Len(activations) /\ g = activations[n]
  OBVIOUS
<1>2. /\ activations # <<>> /\ Loop!Last(activations) = g /\ g.kind = "run" /\ g.phase = "begin"
      /\ g \in RunFrames /\ g.todo = <<>> /\ n \in 1 .. n
  <2>1. activations # <<>> /\ Loop!Last(activations).kind = "run"
        /\ Loop!Last(activations).phase = "begin"
    BY DEF Loop!BeginIteration, Loop!AtLoop
  <2>2. Loop!Last(activations) = g /\ g \in LoopFrames /\ FrameOK(g) /\ n \in 1 .. n
    BY <1>1, <2>1, TopFrame
  <2>3. QED
    BY <2>1, <2>2, FrameKinds DEF FrameOK
<1>3. PICK f : f = [g EXCEPT !.todo = loop_timers, !.phase = "timers"]
  OBVIOUS
<1>4. LoopTypes
  BY DEF LoopInv
<1>5. f \in RunFrames /\ f.todo = loop_timers /\ FrameOK(f) /\ f.kind = "run"
  BY <1>2, <1>3, <1>4 DEF RunFrames, FrameOK, LoopTypes
<1>6. /\ activations' = [activations EXCEPT ![Len(activations)] = f]
      /\ rc' = [t \in Timers |-> rc[t] + Bit(t \in in_loop)]
      /\ UNCHANGED <<loop_timers, stopped, due, left, repeats, running, in_loop, owned, fired>>
  BY <1>2, <1>3, <1>4 DEF Loop!BeginIteration, Loop!Replace, Loop!RetainAll, Bit, LoopTypes
<1>7. /\ StackOK(activations') /\ Len(activations') = Len(activations)
      /\ activations'[Len(activations)] = f
      /\ \A i \in 1 .. Len(activations) : i # Len(activations) => activations'[i] = activations[i]
      /\ \A t : /\ t \in in_loop => Coming(activations', t) = Coming(activations, t) \cup {Len(activations)}
                /\ t \notin in_loop => Coming(activations', t) = Coming(activations, t) \ {Len(activations)}
  <2>1. StackOK(activations) /\ activations[Len(activations)].kind = "run"
    BY <1>1, <1>2 DEF LoopInv
  <2>2. in_loop = Loop!ToSet(f.todo)
    BY <1>4, <1>5 DEF LoopTypes
  <2>3. PICK r : r = activations' /\ r = [activations EXCEPT ![Len(activations)] = f]
    BY <1>6
  <2>4. activations # <<>> /\ f \in RunFrames /\ FrameOK(f)
    BY <1>2, <1>5
  <2>5. GoneOn(activations, f, r)
    BY <2>1, <2>3, <2>4, LoopGoesOn
  <2>6. QED
    BY <2>2, <2>3, <2>5 DEF GoneOn
<1>8. ASSUME NEW t, NEW b PROVE LoopCalls(activations', t, b) = LoopCalls(activations, t, b)
  <2>1. PICK r, s : r = activations' /\ s = activations
    OBVIOUS
  <2>2. Len(r) = Len(s)
        /\ \A i \in 1 .. Len(s) : r[i] = s[i] \/ (r[i].kind = "run" /\ s[i].kind = "run")
    BY <1>1, <1>2, <1>5, <1>7, <2>1
  <2>3. LoopCalls(r, t, b) = LoopCalls(s, t, b)
    BY <2>2, CallsSame
  <2>4. QED
    BY <2>1, <2>3
<1>9. ASSUME NEW t \in Timers
      PROVE  Cardinality(Coming(activations', t))
                = Cardinality(Coming(activations, t)) + Bit(t \in in_loop)
  <2>1. n \notin Coming(activations, t)
    <3>1. t \notin Loop!ToSet(<<>>)
      BY DEF Loop!ToSet
    <3>2. QED
      BY <1>1, <1>2, <3>1 DEF Coming, ComesTo
  <2>2. IsFiniteSet(Coming(activations, t)) /\ Cardinality(Coming(activations, t)) \in Nat
    BY ComingCounted DEF LoopInv
  <2>3. CASE t \in in_loop
    <3>1. Coming(activations', t) = Coming(activations, t) \cup {n}
      BY <1>1, <1>7, <2>3
    <3>2. Cardinality(Coming(activations', t)) = Cardinality(Coming(activations, t)) + 1
      BY <2>1, <2>2, <3>1, FS_AddElement
    <3>3. QED
      BY <2>3, <3>2 DEF Bit
  <2>4. CASE t \notin in_loop
    <3>1. Coming(activations', t) = Coming(activations, t)
      BY <1>1, <1>7, <2>1, <2>4
    <3>2. QED
      BY <2>2, <2>4, <3>1 DEF Bit
  <2>5. QED
    BY <2>3, <2>4
<1>10. Callbacks(activations', running', owned')
  BY <1>6, <1>8 DEF LoopInv, Callbacks
<1>11. LoopTypes'
  <2>1. rc' \in [Timers -> Nat]
    BY <1>4, <1>6 DEF LoopTypes, Bit
  <2>2. QED
    BY <1>4, <1>6, <2>1 DEF LoopTypes
<1>12. FiredOnce'
  BY <1>6 DEF LoopInv, FiredOnce
<1>13. ASSUME NEW t \in Timers
       PROVE  /\ rc'[t] - Bit(t \in owned') - Bit(t \in in_loop') - Bit(t \in running')
                        - Cardinality(Coming(activations', t))
                  = rc[t] - Bit(t \in owned) - Bit(t \in in_loop) - Bit(t \in running)
                          - Cardinality(Coming(activations, t))
              /\ rc'[t] = 0 => t \notin due'
  <2>1. PICK k \in Nat : k = Cardinality(Coming(activations, t))
    BY InvFactsOf
  <2>2. PICK x \in Nat : x = Bit(t \in in_loop)
    BY DEF Bit
  <2>3. PICK a \in Nat : a = rc[t] /\ (a = 0 => t \notin due)
    BY InvFactsOf
  <2>4. rc'[t] = a + x /\ Cardinality(Coming(activations', t)) = k + x
    BY <1>6, <1>9, <2>1, <2>2, <2>3
  <2>5. PICK y \in Nat, z \in Nat : y = Bit(t \in owned) /\ z = Bit(t \in running)
    BY DEF Bit
  <2>6. (a + x) - y - x - z - (k + x) = a - y - x - z - k
    BY <2>5
  <2>7. a + x = 0 => t \notin due
    BY <2>3
  <2>8. QED
    BY <1>6, <2>1, <2>2, <2>3, <2>4, <2>5, <2>6, <2>7
<1>14. QED
  BY <1>7, <1>10, <1>11, <1>12, <1>13, StackStep

\* What a loop is at, and the step past it.
LEMMA LoopAt ==
    ASSUME LoopInv, Loop!AtLoop("timers"), NEW n, n = Len(activations), NEW g, g = activations[n]
    PROVE  /\ activations # <<>> /\ Loop!Last(activations) = g /\ g \in RunFrames
           /\ g.kind = "run" /\ g.phase = "timers" /\ FrameOK(g) /\ n \in 1 .. n /\ n <= MaxFrames
           /\ g.todo # <<>> => IsAt(g, Head(g.todo)) /\ Head(g.todo) \in Timers
<1>1. activations # <<>> /\ Loop!Last(activations).kind = "run"
      /\ Loop!Last(activations).phase = "timers"
  BY DEF Loop!AtLoop
<1>2. Loop!Last(activations) = g /\ g \in LoopFrames /\ FrameOK(g) /\ n \in 1 .. n /\ n <= MaxFrames
  BY <1>1, TopFrame
<1>3. g \in RunFrames
  BY <1>1, <1>2, FrameKinds
<1>4. g.todo # <<>> => Head(g.todo) \in Timers
  BY <1>3 DEF RunFrames
<1>5. QED
  BY <1>1, <1>2, <1>3, <1>4 DEF IsAt

\* A timer that is not due, or that runs: the loop passes and releases it.
LEMMA TimerSkipped ==
    ASSUME LoopInv, Loop!LoopAssumption, Loop!SkipTimer
    PROVE  LoopInv'
<1>1. PICK n, g : n = Len(activations) /\ g = activations[n]
  OBVIOUS
<1>2. PICK t : t = Head(g.todo)
  OBVIOUS
<1>3. /\ activations # <<>> /\ Loop!Last(activations) = g /\ g.todo # <<>> /\ IsAt(g, t)
      /\ t \in Timers
  <2>1. Loop!AtLoop("timers") /\ Loop!Last(activations).todo # <<>>
    BY DEF Loop!SkipTimer
  <2>2. Loop!Last(activations) = g
    BY <1>1, <2>1, LoopAt
  <2>3. QED
    BY <1>1, <1>2, <2>1, <2>2, LoopAt
<1>4. /\ activations' = Advanced(activations)
      /\ rc' = [rc EXCEPT ![t] = @ - 1] /\ due' = (IF rc[t] = 1 THEN due \ {t} ELSE due)
      /\ UNCHANGED <<loop_timers, stopped, left, repeats, running, in_loop, owned, fired>>
  BY <1>1, <1>2, <1>3 DEF Loop!SkipTimer, Loop!Replace, Loop!Release, Advanced
<1>5. /\ StackOK(activations')
      /\ \A u : /\ LoopCalls(activations', u, TRUE) = LoopCalls(activations, u, TRUE)
                /\ LoopCalls(activations', u, FALSE) = LoopCalls(activations, u, FALSE)
      /\ \A u : Cardinality(Coming(activations', u)) = Cardinality(Coming(activations, u)) - Bit(u = t)
  <2>1. StackOK(activations) /\ IsAt(activations[Len(activations)], t)
    BY <1>1, <1>3 DEF LoopInv
  <2>2. PICK r : r = activations' /\ Past(activations, t, r)
    BY <1>3, <1>4, <2>1, LoopPasses
  <2>3. QED
    BY <2>2 DEF Past
<1>6. LoopTypes
  BY DEF LoopInv
<1>7. ASSUME NEW u \in Timers
      PROVE  /\ rc'[u] \in Nat
             /\ rc'[u] - Bit(u \in owned') - Bit(u \in in_loop') - Bit(u \in running')
                       - Cardinality(Coming(activations', u))
                 = rc[u] - Bit(u \in owned) - Bit(u \in in_loop) - Bit(u \in running)
                         - Cardinality(Coming(activations, u))
             /\ rc'[u] = 0 => u \notin due'
  <2>1. PICK k \in Nat : k = Cardinality(Coming(activations, u))
    BY InvFactsOf
  <2>2. PICK m \in Nat : m = Cardinality(Coming(activations', u))
    BY <1>5, ComingCounted
  <2>3. PICK x \in Nat, y \in Nat, z \in Nat :
            x = Bit(u \in owned) /\ y = Bit(u \in in_loop) /\ z = Bit(u \in running)
    BY DEF Bit
  <2>4. PICK a \in Nat : a = rc[u] /\ (a = 0 => u \notin due) /\ a = x + y + z + k
    BY <2>1, <2>3, InvFactsOf
  <2>5. CASE u = t
    <3>1. m = k - 1
      BY <1>5, <2>1, <2>2, <2>5 DEF Bit
    <3>2. rc'[u] = a - 1 /\ (a = 1 => u \notin due')
      BY <1>4, <1>6, <2>4, <2>5 DEF LoopTypes
    <3>3. a >= 1
      BY <2>4, <3>1
    <3>4. (a - 1) - x - y - z - m = a - x - y - z - k /\ a - 1 \in Nat
      BY <3>1, <3>3
    <3>5. a - 1 = 0 => u \notin due'
      BY <3>2
    <3>6. QED
      BY <1>4, <2>1, <2>2, <2>3, <2>4, <3>2, <3>4, <3>5
  <2>6. CASE u # t
    <3>1. m = k
      BY <1>5, <2>1, <2>2, <2>6 DEF Bit
    <3>2. rc'[u] = a /\ (u \in due' => u \in due)
      BY <1>4, <1>6, <2>4, <2>6 DEF LoopTypes
    <3>3. QED
      BY <1>4, <2>1, <2>2, <2>3, <2>4, <3>1, <3>2
  <2>7. QED
    BY <2>5, <2>6
<1>8. LoopTypes'
  <2>1. rc' \in [Timers -> Nat] /\ due' \subseteq Timers
    BY <1>4, <1>6, <1>7 DEF LoopTypes
  <2>2. QED
    BY <1>4, <1>6, <2>1 DEF LoopTypes
<1>9. FiredOnce'
  <2>1. due' \subseteq due
    BY <1>4
  <2>2. QED
    BY <1>4, <2>1 DEF LoopInv, FiredOnce
<1>10. Callbacks(activations', running', owned')
  <2>1. running' = running /\ owned' = owned
    BY <1>4
  <2>2. Callbacks(activations, running, owned)
    BY DEF LoopInv
  <2>3. ASSUME NEW u \in Timers
        PROVE  /\ u \in running' <=> LoopCalls(activations', u, TRUE) # {}
               /\ \A i, j \in LoopCalls(activations', u, TRUE) : i = j
               /\ LoopCalls(activations', u, FALSE) # {} => u \in owned'
    <3>1. PICK c, d : c = LoopCalls(activations, u, TRUE) /\ d = LoopCalls(activations, u, FALSE)
      OBVIOUS
    <3>2. c = LoopCalls(activations', u, TRUE) /\ d = LoopCalls(activations', u, FALSE)
      BY <1>5, <3>1
    <3>3. /\ u \in running <=> c # {}
          /\ \A i, j \in c : i = j
          /\ d # {} => u \in owned
      BY <2>2, <3>1 DEF Callbacks
    <3>4. QED
      BY <2>1, <3>2, <3>3
  <2>4. QED
    BY <2>3 DEF Callbacks
<1>11. QED
  BY <1>5, <1>7, <1>8, <1>9, <1>10, StackStep

\* The next date of a repeating timer that is late is within an interval from now.
LEMMA Periods ==
    ASSUME Loop!LoopAssumption, NEW l \in -MaxLate .. Interval, l <= 0
    PROVE  /\ Loop!Rescheduled(l) \in 0 .. Interval /\ Loop!Rescheduled(l) > l
           /\ \E k \in Nat : Loop!Rescheduled(l) - l = Interval * k
<1>1. Interval \in Nat /\ Interval > 0 /\ l \in Int /\ MaxLate \in Nat
  BY DEF Loop!LoopAssumption
<1>2. PICK q \in Int : q = (Interval - 1 - l) \div Interval
  BY <1>1
<1>3. Interval * q <= Interval - 1 - l /\ Interval - 1 - l < Interval * q + Interval
  BY <1>1, <1>2
<1>4. Loop!Rescheduled(l) = l + Interval * (IF q < 1 THEN 1 ELSE q)
  BY <1>2 DEF Loop!Rescheduled
<1>5. CASE q < 1
  <2>1. Interval * q <= 0
    BY <1>1, <1>5
  <2>2. Interval - 1 - l < Interval
    BY <1>1, <1>3, <2>1
  <2>3. l = 0
    BY <1>1, <2>2
  <2>4. Loop!Rescheduled(l) = Interval /\ Interval = Interval * 1 /\ 1 \in Nat
    BY <1>1, <1>4, <1>5, <2>3
  <2>5. QED
    BY <1>1, <2>3, <2>4
<1>6. CASE q >= 1
  <2>1. PICK m \in Int : m = Interval * q
    BY <1>1
  <2>2. m > 0
    BY <1>1, <1>6, <2>1
  <2>3. Loop!Rescheduled(l) = l + m
    BY <1>4, <1>6, <2>1
  <2>4. m <= Interval - 1 - l /\ Interval - 1 - l < m + Interval
    BY <1>3, <2>1
  <2>5. l + m \in 0 .. Interval /\ l + m > l /\ (l + m) - l = m
    BY <1>1, <2>2, <2>4
  <2>6. q \in Nat
    BY <1>6
  <2>7. QED
    BY <2>1, <2>3, <2>5, <2>6
<1>7. QED
  BY <1>1, <1>2, <1>5, <1>6

\* The loop calls a timer that is due: once, for it is then running.
LEMMA TimerRun ==
    ASSUME LoopInv, Loop!LoopAssumption, Loop!FireTimer
    PROVE  LoopInv'
<1>1. PICK n, g : n = Len(activations) /\ g = activations[n]
  OBVIOUS
<1>2. PICK t : t = Head(g.todo)
  OBVIOUS
<1>3. PICK f : f = Loop!FireFrame(t, TRUE)
  OBVIOUS
<1>4. /\ activations # <<>> /\ Loop!Last(activations) = g /\ g.todo # <<>> /\ IsAt(g, t)
      /\ t \in Timers
  <2>1. Loop!AtLoop("timers") /\ Loop!Last(activations).todo # <<>>
    BY DEF Loop!FireTimer
  <2>2. Loop!Last(activations) = g
    BY <1>1, <2>1, LoopAt
  <2>3. QED
    BY <1>1, <1>2, <2>1, <2>2, LoopAt
<1>5. /\ t \notin running /\ t \in due /\ left[t] <= 0 /\ Len(activations) < MaxFrames
      /\ activations' = Append(activations, f) /\ rc' = [rc EXCEPT ![t] = @ + 1]
      /\ running' = running \cup {t}
      /\ left' = (IF t \in repeats THEN [left EXCEPT ![t] = Loop!Rescheduled(@)] ELSE left)
      /\ fired' = [fired EXCEPT ![t] = IF @ = 2 THEN 2 ELSE @ + 1]
      /\ UNCHANGED <<loop_timers, stopped, due, repeats, in_loop, owned>>
  BY <1>2, <1>3, <1>4 DEF Loop!FireTimer, Loop!DueNow
<1>6. f \in LoopFrames /\ f.kind = "fire" /\ f.timer = t /\ f.byLoop
  BY <1>3, <1>4 DEF Loop!FireFrame, LoopFrames, FireFrames
<1>7. FrameOK(f) /\ \A u : ~ ComesTo(f, u) /\ (ByLoop(f, u) => u = t)
  BY <1>6, FrameKinds DEF FrameOK, ComesTo
<1>8. /\ StackOK(activations')
      /\ \A u : Coming(activations', u) = Coming(activations, u)
      /\ \A u, b :
            /\ f # Loop!FireFrame(u, b) => LoopCalls(activations', u, b) = LoopCalls(activations, u, b)
            /\ f = Loop!FireFrame(u, b) => LoopCalls(activations', u, b) =
                                              LoopCalls(activations, u, b) \cup {Len(activations) + 1}
  <2>1. \A u \in Timers : ByLoop(f, u) =>
            activations # <<>> /\ IsAt(activations[Len(activations)], u)
    BY <1>1, <1>4, <1>7
  <2>2. QED
    BY <1>5, <1>6, <1>7, <2>1, CallBegun
<1>9. LoopTypes
  BY DEF LoopInv
<1>10. LoopTypes'
  <2>1. left' \in [Timers -> -MaxLate .. Interval]
    <3>1. left \in [Timers -> -MaxLate .. Interval] /\ left[t] \in -MaxLate .. Interval
      BY <1>4, <1>9 DEF LoopTypes
    <3>2. PICK l : l = Loop!Rescheduled(left[t]) /\ l \in 0 .. Interval
      BY <1>5, <3>1, Periods
    <3>3. l \in -MaxLate .. Interval
      BY <3>2 DEF Loop!LoopAssumption
    <3>4. left' = (IF t \in repeats THEN [left EXCEPT ![t] = l] ELSE left)
      BY <1>5, <3>2
    <3>5. QED
      BY <3>1, <3>3, <3>4
  <2>2. rc' \in [Timers -> Nat]
    BY <1>5, <1>9 DEF LoopTypes
  <2>3. fired' \in [Timers -> 0 .. 2]
    <3>1. fired \in [Timers -> 0 .. 2] /\ fired[t] \in 0 .. 2
      BY <1>4, <1>9 DEF LoopTypes
    <3>2. (IF fired[t] = 2 THEN 2 ELSE fired[t] + 1) \in 0 .. 2
      BY <3>1
    <3>3. QED
      BY <1>5, <3>1, <3>2
  <2>4. QED
    BY <1>4, <1>5, <1>9, <2>1, <2>2, <2>3 DEF LoopTypes
<1>11. FiredOnce'
  <2> SUFFICES ASSUME NEW u \in Timers, u \notin repeats
               PROVE  fired'[u] = 0 \/ (fired'[u] = 1 /\ (u \in running' \/ u \notin due'))
    BY <1>5 DEF FiredOnce
  <2>1. fired[u] = 0 \/ (fired[u] = 1 /\ (u \in running \/ u \notin due))
    BY InvFactsOf DEF FiredOnce
  <2>2. CASE u = t
    <3>1. fired[u] = 0
      BY <1>5, <2>1, <2>2
    <3>2. fired'[u] = 1 /\ u \in running'
      BY <1>5, <1>9, <2>2, <3>1 DEF LoopTypes
    <3>3. QED
      BY <3>2
  <2>3. CASE u # t
    BY <1>5, <1>9, <2>1, <2>3 DEF LoopTypes
  <2>4. QED
    BY <2>2, <2>3
<1>12. Callbacks(activations', running', owned')
  <2> SUFFICES ASSUME NEW u \in Timers
               PROVE  /\ u \in running' <=> LoopCalls(activations', u, TRUE) # {}
                      /\ \A i, j \in LoopCalls(activations', u, TRUE) : i = j
                      /\ LoopCalls(activations', u, FALSE) # {} => u \in owned'
    BY DEF Callbacks
  <2>1. PICK c, d : c = LoopCalls(activations, u, TRUE) /\ d = LoopCalls(activations, u, FALSE)
    OBVIOUS
  <2>2. (u \in running <=> c # {}) /\ (\A i, j \in c : i = j) /\ (d # {} => u \in owned)
    BY <2>1 DEF LoopInv, Callbacks
  <2>3. d = LoopCalls(activations', u, FALSE)
    <3>1. f # Loop!FireFrame(u, FALSE)
      <4>1. Loop!FireFrame(u, FALSE).byLoop = FALSE
        BY DEF Loop!FireFrame
      <4>2. QED
        BY <1>6, <4>1
    <3>2. QED
      BY <1>8, <2>1, <3>1
  <2>4. CASE u = t
    <3>1. LoopCalls(activations', u, TRUE) = c \cup {n + 1} /\ c = {}
      BY <1>1, <1>3, <1>5, <1>8, <2>1, <2>2, <2>4
    <3>2. u \in running' /\ owned' = owned
      BY <1>5, <2>4
    <3>3. QED
      BY <2>2, <2>3, <3>1, <3>2
  <2>5. CASE u # t
    <3>1. LoopCalls(activations', u, TRUE) = c
      BY <1>7, <1>8, <2>1, <2>5 DEF ByLoop
    <3>2. (u \in running' <=> u \in running) /\ owned' = owned
      BY <1>5, <2>5
    <3>3. QED
      BY <2>2, <2>3, <3>1, <3>2
  <2>6. QED
    BY <2>4, <2>5
<1>13. ASSUME NEW u \in Timers
       PROVE  /\ rc'[u] - Bit(u \in owned') - Bit(u \in in_loop') - Bit(u \in running')
                        - Cardinality(Coming(activations', u))
                  = rc[u] - Bit(u \in owned) - Bit(u \in in_loop) - Bit(u \in running)
                          - Cardinality(Coming(activations, u))
              /\ rc'[u] = 0 => u \notin due'
  <2>1. PICK k \in Nat : k = Cardinality(Coming(activations, u))
    BY InvFactsOf
  <2>2. k = Cardinality(Coming(activations', u))
    BY <1>8, <2>1
  <2>3. PICK x \in Nat, y \in Nat : x = Bit(u \in owned) /\ y = Bit(u \in in_loop)
    BY DEF Bit
  <2>4. PICK a \in Nat : a = rc[u] /\ (a = 0 => u \notin due)
    BY InvFactsOf
  <2>5. CASE u = t
    <3>1. rc'[u] = a + 1 /\ Bit(u \in running') = 1 /\ Bit(u \in running) = 0
      BY <1>5, <1>9, <2>4, <2>5 DEF LoopTypes, Bit
    <3>2. (a + 1) - x - y - 1 - k = a - x - y - 0 - k /\ a + 1 # 0
      OBVIOUS
    <3>3. QED
      BY <1>5, <2>1, <2>2, <2>3, <2>4, <3>1, <3>2
  <2>6. CASE u # t
    <3>1. rc'[u] = a /\ Bit(u \in running') = Bit(u \in running)
      BY <1>5, <1>9, <2>4, <2>6 DEF LoopTypes, Bit
    <3>2. QED
      BY <1>5, <2>1, <2>2, <2>3, <2>4, <3>1
  <2>7. QED
    BY <2>5, <2>6
<1>14. QED
  BY <1>8, <1>10, <1>11, <1>12, <1>13, StackStep

\* The callback returns to its loop, which passes and releases the timer.
LEMMA CallbackReturned ==
    ASSUME LoopInv, Loop!LoopAssumption, Loop!CallbackReturns
    PROVE  LoopInv'
<1>1. PICK n, f : n = Len(activations) /\ f = activations[n]
  OBVIOUS
<1>2. /\ activations # <<>> /\ f.kind = "fire" /\ f.byLoop /\ f \in LoopFrames
      /\ Loop!Last(activations) = f /\ n \in Nat /\ n \in 1 .. n
      /\ \A u \in Timers : ByLoop(f, u) => n > 1 /\ IsAt(activations[n - 1], u)
  <2>1. activations # <<>> /\ Loop!InGuest /\ Loop!Last(activations).byLoop
    BY DEF Loop!CallbackReturns
  <2>2. /\ Loop!Last(activations) = f /\ f \in LoopFrames /\ n \in Nat /\ n \in 1 .. n
        /\ \A u \in Timers : ByLoop(f, u) => n > 1 /\ IsAt(activations[n - 1], u)
    BY <1>1, <2>1, TopFrame
  <2>3. QED
    BY <2>1, <2>2 DEF Loop!InGuest
<1>3. PICK t \in Timers : t = f.timer
  BY <1>2, FrameKinds DEF FireFrames
<1>4. /\ f = Loop!FireFrame(t, TRUE) /\ ByLoop(f, t)
      /\ \A u : ~ ComesTo(f, u) /\ (ByLoop(f, u) => u = t)
  <2>1. f \in FireFrames /\ f = Loop!FireFrame(f.timer, f.byLoop)
    BY <1>2, FrameKinds
  <2>2. f.byLoop = TRUE
    BY <1>2, <2>1 DEF FireFrames
  <2>3. f = Loop!FireFrame(t, TRUE)
    BY <1>3, <2>1, <2>2
  <2>4. QED
    BY <1>2, <1>3, <2>3, FrameKinds DEF ComesTo, ByLoop
<1>5. n > 1 /\ IsAt(activations[n - 1], t)
  BY <1>2, <1>4
<1>6. PICK s : s = Loop!Front(activations)
  OBVIOUS
<1>7. /\ StackOK(s) /\ Len(s) = n - 1 /\ s # <<>> /\ IsAt(s[Len(s)], t)
      /\ \A u : Coming(s, u) = Coming(activations, u)
      /\ \A u, b : /\ n \notin LoopCalls(s, u, b)
                   /\ f # Loop!FireFrame(u, b) => LoopCalls(activations, u, b) = LoopCalls(s, u, b)
                   /\ f = Loop!FireFrame(u, b) => LoopCalls(activations, u, b) = LoopCalls(s, u, b) \cup {n}
  <2>1. f = activations[Len(activations)] /\ \A u : ~ ComesTo(f, u)
    BY <1>1, <1>4
  <2>2. /\ StackOK(s) /\ Len(s) = Len(activations) - 1
        /\ \A i \in 1 .. Len(activations) - 1 : s[i] = activations[i]
        /\ \A u : Coming(s, u) = Coming(activations, u)
        /\ \A u, b : /\ Len(activations) \notin LoopCalls(s, u, b)
                     /\ f # Loop!FireFrame(u, b) => LoopCalls(activations, u, b) = LoopCalls(s, u, b)
                     /\ f = Loop!FireFrame(u, b) =>
                           LoopCalls(activations, u, b) = LoopCalls(s, u, b) \cup {Len(activations)}
    BY <1>2, <1>6, <2>1, CallEnded
  <2>3. Len(s) = n - 1 /\ n - 1 \in 1 .. n - 1
    BY <1>1, <1>2, <1>5, <2>2
  <2>4. s[Len(s)] = activations[n - 1]
    BY <1>1, <2>2, <2>3
  <2>5. s # <<>> /\ IsAt(s[Len(s)], t)
    BY <1>5, <2>3, <2>4
  <2>6. QED
    BY <1>1, <2>2, <2>3, <2>5
<1>8. /\ activations' = Advanced(s) /\ running' = running \ {t}
      /\ t \in repeats => Loop!Release(t, 2) /\ UNCHANGED <<loop_timers, in_loop>>
      /\ t \notin repeats => Loop!Invalidate(t, 2)
      /\ UNCHANGED <<stopped, left, repeats, owned, fired>>
  <2>1. Loop!NotRunning(t) = running \ {t} /\ Len(s) = Len(activations) - 1
    BY <1>1, <1>7 DEF Loop!NotRunning
  <2>2. QED
    BY <1>2, <1>3, <1>6, <2>1 DEF Loop!CallbackReturns, Advanced
<1>9. /\ StackOK(activations')
      /\ \A u : /\ LoopCalls(activations', u, TRUE) = LoopCalls(s, u, TRUE)
                /\ LoopCalls(activations', u, FALSE) = LoopCalls(s, u, FALSE)
                /\ Cardinality(Coming(activations', u)) = Cardinality(Coming(activations, u)) - Bit(u = t)
  <2>1. PICK r : r = activations' /\ Past(s, t, r)
    BY <1>7, <1>8, LoopPasses
  <2>2. \A u : Coming(s, u) = Coming(activations, u)
    BY <1>7
  <2>3. QED
    BY <2>1, <2>2 DEF Past
<1>10. LoopTypes
  BY DEF LoopInv
<1>11. t \in running
  <2>1. LoopCalls(activations, t, TRUE) = LoopCalls(s, t, TRUE) \cup {n}
    BY <1>4, <1>7
  <2>2. QED
    BY <2>1 DEF LoopInv, Callbacks
<1>12. /\ loop_timers' \in Seq(Timers) /\ Distinct(loop_timers')
       /\ in_loop' = Loop!ToSet(loop_timers') /\ in_loop' \subseteq in_loop /\ due' \subseteq due
       /\ \A u \in in_loop : u # t => u \in in_loop'
       /\ t \notin repeats => t \notin due' /\ t \notin in_loop'
       /\ t \in repeats => (t \in in_loop' <=> t \in in_loop) /\ (rc[t] = 2 => t \notin due')
       /\ rc' = [rc EXCEPT ![t] = @ - 2 - Bit(t \in in_loop \ in_loop')]
  <2>1. rc \in [Timers -> Nat]
    BY <1>10 DEF LoopTypes
  <2>2. CASE t \in repeats
    <3>1. rc' = [rc EXCEPT ![t] = @ - 2] /\ due' = (IF rc[t] = 2 THEN due \ {t} ELSE due)
          /\ UNCHANGED <<loop_timers, in_loop>>
      BY <1>8, <2>2 DEF Loop!Release
    <3>2. Bit(t \in in_loop \ in_loop') = 0 /\ rc[t] - 2 - 0 = rc[t] - 2
      BY <2>1, <3>1 DEF Bit
    <3>3. rc' = [rc EXCEPT ![t] = @ - 2 - Bit(t \in in_loop \ in_loop')]
      BY <2>1, <3>1, <3>2
    <3>4. QED
      BY <1>10, <2>2, <3>1, <3>3 DEF LoopTypes
  <2>3. CASE t \notin repeats
    <3>1. /\ loop_timers' \in Seq(Timers) /\ Distinct(loop_timers')
          /\ in_loop' = Loop!ToSet(loop_timers') /\ in_loop' = in_loop \ {t}
          /\ due' = due \ {t}
          /\ rc' = [rc EXCEPT ![t] = @ - 2 - Bit(t \in in_loop)]
      BY <1>8, <1>10, <2>3, Invalidated
    <3>2. Bit(t \in in_loop \ in_loop') = Bit(t \in in_loop)
      BY <3>1 DEF Bit
    <3>3. QED
      BY <2>3, <3>1, <3>2
  <2>4. QED
    BY <2>2, <2>3
<1>13. ASSUME NEW u \in Timers
       PROVE  /\ rc'[u] \in Nat
              /\ rc'[u] - Bit(u \in owned') - Bit(u \in in_loop') - Bit(u \in running')
                        - Cardinality(Coming(activations', u))
                  = rc[u] - Bit(u \in owned) - Bit(u \in in_loop) - Bit(u \in running)
                          - Cardinality(Coming(activations, u))
              /\ rc'[u] = 0 => u \notin due'
  <2>1. PICK k \in Nat : k = Cardinality(Coming(activations, u))
    BY InvFactsOf
  <2>2. PICK m \in Nat : m = Cardinality(Coming(activations', u))
    BY <1>9, ComingCounted
  <2>3. PICK x \in Nat, y \in Nat, z \in Nat :
            x = Bit(u \in owned) /\ y = Bit(u \in in_loop) /\ z = Bit(u \in running)
    BY DEF Bit
  <2>4. PICK a \in Nat : a = rc[u] /\ (a = 0 => u \notin due) /\ a = x + y + z + k
    BY <2>1, <2>3, InvFactsOf
  <2>5. CASE u = t
    <3>1. m = k - 1
      BY <1>9, <2>1, <2>2, <2>5 DEF Bit
    <3>2. PICK v \in Nat, w \in Nat : v = Bit(u \in in_loop') /\ w = Bit(t \in in_loop \ in_loop')
      BY DEF Bit
    <3>3. y = v + w /\ z = 1 /\ Bit(u \in running') = 0 /\ owned' = owned
      BY <1>8, <1>11, <1>12, <2>3, <2>5, <3>2 DEF Bit
    <3>4. rc'[u] = a - 2 - w
      BY <1>10, <1>12, <2>4, <2>5, <3>2 DEF LoopTypes
    <3>5. a - 2 - w = x + v + m
      BY <2>4, <3>1, <3>2, <3>3
    <3>6. (a - 2 - w) - x - v - 0 - m = a - x - y - z - k
      BY <2>4, <3>5
    <3>7. ASSUME a - 2 - w = 0 PROVE u \notin due'
      <4>1. CASE t \in repeats
        <5>1. w = 0
          BY <1>12, <3>2, <4>1 DEF Bit
        <5>2. a - 2 - 0 = 0
          BY <3>7, <5>1
        <5>3. a = 2
          BY <5>2
        <5>4. rc[t] = 2
          BY <2>4, <2>5, <5>3
        <5>5. QED
          BY <1>12, <2>5, <4>1, <5>4
      <4>2. CASE t \notin repeats
        BY <1>12, <2>5, <4>2
      <4>3. QED
        BY <4>1, <4>2
    <3>8. a - 2 - w \in Nat
      BY <3>2, <3>5
    <3>9. QED
      BY <2>1, <2>2, <2>3, <2>4, <3>2, <3>3, <3>4, <3>6, <3>7, <3>8
  <2>6. CASE u # t
    <3>1. m = k
      BY <1>9, <2>1, <2>2, <2>6 DEF Bit
    <3>2. rc'[u] = a /\ Bit(u \in running') = z /\ Bit(u \in in_loop') = y /\ owned' = owned
      BY <1>8, <1>10, <1>12, <2>3, <2>4, <2>6 DEF LoopTypes, Bit
    <3>3. u \in due' => u \in due
      BY <1>12
    <3>4. QED
      BY <2>1, <2>2, <2>3, <2>4, <3>1, <3>2, <3>3
  <2>7. QED
    BY <2>5, <2>6
<1>14. LoopTypes'
  <2>1. rc' \in [Timers -> Nat]
    BY <1>10, <1>12, <1>13 DEF LoopTypes
  <2>2. QED
    BY <1>8, <1>10, <1>12, <2>1 DEF LoopTypes
<1>15. FiredOnce'
  <2> SUFFICES ASSUME NEW u \in Timers, u \notin repeats
               PROVE  fired'[u] = 0 \/ (fired'[u] = 1 /\ (u \in running' \/ u \notin due'))
    BY <1>8 DEF FiredOnce
  <2>1. fired[u] = 0 \/ (fired[u] = 1 /\ (u \in running \/ u \notin due))
    BY InvFactsOf DEF FiredOnce
  <2>2. QED
    BY <1>8, <1>12, <2>1
<1>16. Callbacks(activations', running', owned')
  <2> SUFFICES ASSUME NEW u \in Timers
               PROVE  /\ u \in running' <=> LoopCalls(activations', u, TRUE) # {}
                      /\ \A i, j \in LoopCalls(activations', u, TRUE) : i = j
                      /\ LoopCalls(activations', u, FALSE) # {} => u \in owned'
    BY DEF Callbacks
  <2>1. PICK c, d : c = LoopCalls(s, u, TRUE) /\ d = LoopCalls(s, u, FALSE)
    OBVIOUS
  <2>2. c = LoopCalls(activations', u, TRUE) /\ d = LoopCalls(activations', u, FALSE)
    BY <1>9, <2>1
  <2>3. /\ u \in running <=> LoopCalls(activations, u, TRUE) # {}
        /\ \A i, j \in LoopCalls(activations, u, TRUE) : i = j
        /\ LoopCalls(activations, u, FALSE) # {} => u \in owned
    BY DEF LoopInv, Callbacks
  <2>4. d = LoopCalls(activations, u, FALSE)
    <3>1. f # Loop!FireFrame(u, FALSE)
      <4>1. Loop!FireFrame(u, FALSE).byLoop = FALSE
        BY DEF Loop!FireFrame
      <4>2. QED
        BY <1>2, <4>1
    <3>2. QED
      BY <1>7, <2>1, <3>1
  <2>5. d # {} => u \in owned'
    BY <1>8, <2>3, <2>4
  <2>6. CASE u = t
    <3>1. LoopCalls(activations, u, TRUE) = c \cup {n} /\ n \notin c
      BY <1>4, <1>7, <2>1, <2>6
    <3>2. c = {}
      BY <2>3, <3>1
    <3>3. QED
      BY <1>8, <2>2, <2>5, <2>6, <3>2
  <2>7. CASE u # t
    <3>1. LoopCalls(activations, u, TRUE) = c
      BY <1>4, <1>7, <2>1, <2>7 DEF ByLoop
    <3>2. u \in running' <=> u \in running
      BY <1>8, <2>7
    <3>3. QED
      BY <2>2, <2>3, <2>5, <3>1, <3>2
  <2>8. QED
    BY <2>6, <2>7
<1>17. QED
  BY <1>9, <1>13, <1>14, <1>15, <1>16, StackStep

\* An iteration ends, and the loop goes on, or leaves.
LEMMA IterationEnded ==
    ASSUME LoopInv, Loop!LoopAssumption, Loop!EndIteration
    PROVE  LoopInv'
<1>1. PICK n, g : n = Len(activations) /\ g = activations[n]
  OBVIOUS
<1>2. /\ activations # <<>> /\ Loop!Last(activations) = g /\ g.todo = <<>> /\ g \in RunFrames
      /\ g.kind = "run" /\ n \in 1 .. n
  <2>1. Loop!AtLoop("timers") /\ Loop!Last(activations).todo = <<>>
    BY DEF Loop!EndIteration
  <2>2. QED
    BY <1>1, <2>1, LoopAt
<1>3. PICK f : f = [g EXCEPT !.phase = "begin"]
  OBVIOUS
<1>4. LoopTypes
  BY DEF LoopInv
<1>5. /\ UNCHANGED <<loop_timers, due, left, repeats, running, in_loop, rc, owned, fired>>
      /\ stopped' \in BOOLEAN
      /\ \/ activations' = Loop!Front(activations)
         \/ activations' = [activations EXCEPT ![Len(activations)] = f]
  BY <1>2, <1>3, <1>4 DEF Loop!EndIteration, Loop!timerVars, Loop!Pop, Loop!Replace, LoopTypes
<1>6. \A t : ~ ComesTo(g, t)
  <2>1. \A t : t \notin Loop!ToSet(<<>>)
    BY DEF Loop!ToSet
  <2>2. QED
    BY <1>2, <2>1 DEF ComesTo
<1>7. /\ StackOK(activations')
      /\ \A t : /\ Coming(activations', t) = Coming(activations, t)
                /\ LoopCalls(activations', t, TRUE) = LoopCalls(activations, t, TRUE)
                /\ LoopCalls(activations', t, FALSE) = LoopCalls(activations, t, FALSE)
  <2>1. CASE activations' = Loop!Front(activations)
    <3>1. PICK s : s = activations' /\ s = Loop!Front(activations)
      BY <2>1
    <3>2. g = activations[Len(activations)]
      BY <1>1
    <3>3. /\ StackOK(s) /\ \A t : Coming(s, t) = Coming(activations, t)
          /\ \A t, b : g # Loop!FireFrame(t, b) => LoopCalls(activations, t, b) = LoopCalls(s, t, b)
      BY <1>2, <1>6, <3>1, <3>2, CallEnded
    <3>4. \A t, b : g # Loop!FireFrame(t, b)
      BY <1>2, FireKind
    <3>5. QED
      BY <3>1, <3>3, <3>4
  <2>2. CASE activations' = [activations EXCEPT ![Len(activations)] = f]
    <3>1. PICK r, s : r = activations' /\ s = activations
      OBVIOUS
    <3>2. r = [s EXCEPT ![Len(s)] = f]
      BY <2>2, <3>1
    <3>3. f \in RunFrames /\ f.todo = <<>> /\ f.kind = "run" /\ FrameOK(f)
      <4>1. f \in RunFrames /\ f.todo = <<>> /\ f.kind = "run"
        BY <1>2, <1>3 DEF RunFrames
      <4>2. Distinct(<<>>)
        BY DEF Distinct
      <4>3. QED
        BY <4>1, <4>2 DEF FrameOK
    <3>4. StackOK(s) /\ s # <<>> /\ s[Len(s)].kind = "run"
      BY <1>1, <1>2, <3>1 DEF LoopInv
    <3>5. GoneOn(s, f, r)
      BY <3>2, <3>3, <3>4, LoopGoesOn
    <3>6. /\ StackOK(r) /\ Len(r) = Len(s) /\ r[Len(s)] = f
          /\ \A i \in 1 .. Len(s) : i # Len(s) => r[i] = s[i]
          /\ \A t : t \notin Loop!ToSet(f.todo) => Coming(r, t) = Coming(s, t) \ {Len(s)}
      BY <3>5 DEF GoneOn
    <3>7. ASSUME NEW t PROVE Coming(r, t) = Coming(s, t)
      <4>1. t \notin Loop!ToSet(f.todo)
        BY <3>3 DEF Loop!ToSet
      <4>2. Len(s) \notin Coming(s, t)
        BY <1>1, <1>6, <3>1 DEF Coming
      <4>3. QED
        BY <3>6, <4>1, <4>2
    <3>8. \A t, b : LoopCalls(r, t, b) = LoopCalls(s, t, b)
      <4>1. \A i \in 1 .. Len(s) : r[i] = s[i] \/ (r[i].kind = "run" /\ s[i].kind = "run")
        BY <3>3, <3>4, <3>6
      <4>2. Len(r) = Len(s)
        BY <3>6
      <4>3. QED
        BY <4>1, <4>2, CallsSame
    <3>9. QED
      BY <3>1, <3>6, <3>7, <3>8
  <2>3. QED
    BY <1>5, <2>1, <2>2
<1>8. Callbacks(activations', running', owned')
  <2> SUFFICES ASSUME NEW u \in Timers
               PROVE  /\ u \in running' <=> LoopCalls(activations', u, TRUE) # {}
                      /\ \A i, j \in LoopCalls(activations', u, TRUE) : i = j
                      /\ LoopCalls(activations', u, FALSE) # {} => u \in owned'
    BY DEF Callbacks
  <2>1. PICK c, d : c = LoopCalls(activations, u, TRUE) /\ d = LoopCalls(activations, u, FALSE)
    OBVIOUS
  <2>2. (u \in running <=> c # {}) /\ (\A i, j \in c : i = j) /\ (d # {} => u \in owned)
    BY <2>1 DEF LoopInv, Callbacks
  <2>3. c = LoopCalls(activations', u, TRUE) /\ d = LoopCalls(activations', u, FALSE)
    BY <1>7, <2>1
  <2>4. running' = running /\ owned' = owned
    BY <1>5
  <2>5. QED
    BY <2>2, <2>3, <2>4
<1>9. LoopTypes' /\ FiredOnce'
  BY <1>4, <1>5 DEF LoopInv, LoopTypes, FiredOnce
<1>10. QED
  BY <1>5, <1>7, <1>8, <1>9, StackStep, InvFactsOf

LEMMA LoopStarts ==
    ASSUME Loop!LoopAssumption, Loop!Init
    PROVE  LoopInv
<1>1. /\ loop_timers = <<>> /\ activations = <<>> /\ stopped = FALSE
      /\ due = {} /\ repeats = {} /\ running = {} /\ in_loop = {} /\ owned = {}
      /\ left = [t \in Timers |-> 0] /\ rc = [t \in Timers |-> 0]
      /\ fired = [t \in Timers |-> 0]
  BY DEF Loop!Init
<1>2. 0 \in -MaxLate .. Interval /\ MaxFrames \in Nat
  BY DEF Loop!LoopAssumption
<1>3. Distinct(<<>>) /\ Loop!ToSet(<<>>) = {}
  BY DEF Distinct, Loop!ToSet
<1>4. LoopTypes
  <2>1. left \in [Timers -> -MaxLate .. Interval]
    BY <1>1, <1>2
  <2>2. rc \in [Timers -> Nat] /\ fired \in [Timers -> 0 .. 2]
    BY <1>1
  <2>3. loop_timers \in Seq(Timers)
    BY <1>1
  <2>4. Distinct(loop_timers) /\ in_loop = Loop!ToSet(loop_timers)
    BY <1>1, <1>3
  <2>5. /\ due \subseteq Timers /\ repeats \subseteq Timers /\ running \subseteq Timers
        /\ in_loop \subseteq Timers /\ owned \subseteq Timers
    BY <1>1
  <2>6. stopped \in BOOLEAN
    BY <1>1
  <2>7. QED
    BY <2>1, <2>2, <2>3, <2>4, <2>5, <2>6 DEF LoopTypes
<1>5. StackOK(activations)
  BY <1>1, <1>2 DEF StackOK
<1>6. \A t, b : LoopCalls(activations, t, b) = {} /\ Coming(activations, t) = {}
  BY <1>1 DEF LoopCalls, Coming
<1>7. Callbacks(activations, running, owned)
  BY <1>1, <1>6 DEF Callbacks
<1>8. Counts
  BY <1>1, <1>6, FS_EmptySet DEF Counts, Bit
<1>9. FiredOnce
  BY <1>1 DEF FiredOnce
<1>10. QED
  BY <1>1, <1>4, <1>5, <1>7, <1>8, <1>9 DEF LoopInv

LEMMA LoopSteps ==
    ASSUME LoopInv, Loop!LoopAssumption, [Loop!Next]_(Loop!vars)
    PROVE  LoopInv'
<1>1. CASE UNCHANGED Loop!vars
  <2>1. UNCHANGED <<loop_timers, stopped, activations, due, left, repeats, running, in_loop, rc,
                    owned, fired>>
    BY <1>1 DEF Loop!vars, Loop!timerVars
  <2>2. LoopTypes' /\ FiredOnce'
    BY <2>1 DEF LoopInv, LoopTypes, FiredOnce
  <2>3. QED
    BY <2>1, <2>2, GuestStep, InvFactsOf
<1>2. ASSUME NEW t \in Timers, NEW r \in BOOLEAN, Loop!NewTimer(t, r) PROVE LoopInv'
  BY <1>2, TimerMade
<1>3. ASSUME NEW t \in Timers, Loop!addTimer(t) PROVE LoopInv'
  BY <1>3, TimerListed
<1>4. ASSUME NEW t \in Timers, Loop!invalidate(t) PROVE LoopInv'
  BY <1>4, TimerInvalidated
<1>5. ASSUME NEW t \in Timers, Loop!release(t) PROVE LoopInv'
  BY <1>5, TimerReleased
<1>6. ASSUME NEW t \in Timers, Loop!fire(t) PROVE LoopInv'
  BY <1>6, GuestFires
<1>7. ASSUME NEW S \in SUBSET Timers, Loop!cancelPerformSelectorsWithTarget(S) PROVE LoopInv'
  BY <1>7, TimersCancelled
<1>8. ASSUME NEW single \in BOOLEAN, Loop!run_run_loop(single) PROVE LoopInv'
  BY <1>8, LoopRun
<1>9. CASE (\E t \in Timers : Loop!setFireDate(t)) \/ Loop!TimePasses \/ Loop!CFRunLoopStop
  BY <1>9, DateSet
<1>10. CASE Loop!FireReturns
  BY <1>10, GuestFired
<1>11. CASE Loop!CallbackReturns
  BY <1>11, CallbackReturned
<1>12. CASE Loop!LoopStep
  BY <1>12, IterationBegun, TimerSkipped, TimerRun, IterationEnded DEF Loop!LoopStep
<1>13. QED
  BY <1>1, <1>2, <1>3, <1>4, <1>5, <1>6, <1>7, <1>8, <1>9, <1>10, <1>11, <1>12 DEF Loop!Next

\* The invariant is about the sets the properties count.
LEMMA SameCount == \A S : Loop!Cardinality(S) = Cardinality(S)
BY DEF Cardinality, Loop!Cardinality

LEMMA AtMostOne ==
    ASSUME NEW S, \A i, j \in S : i = j
    PROVE  Cardinality(S) = Bit(S # {})
<1>1. CASE S = {}
  BY <1>1, FS_EmptySet DEF Bit
<1>2. CASE S # {}
  <2>1. PICK i : S = {i}
    BY <1>2
  <2>2. QED
    BY <1>2, <2>1, FS_Singleton DEF Bit
<1>3. QED
  BY <1>1, <1>2

LEMMA LoopSound ==
    ASSUME LoopInv
    PROVE  Loop!TypeOK /\ Loop!RefsExact /\ Loop!OneShotOnce
<1>1. LoopTypes /\ StackOK(activations) /\ FiredOnce /\ Callbacks(activations, running, owned)
  BY DEF LoopInv
<1>2. /\ activations \in Seq(LoopFrames) /\ Len(activations) <= MaxFrames
      /\ DOMAIN activations = 1 .. Len(activations)
      /\ \A i \in 1 .. Len(activations) : activations[i] \in LoopFrames
  BY <1>1 DEF StackOK
<1>3. Loop!TypeOK
  <2>1. ASSUME NEW i \in Loop!Frames("fire") PROVE activations[i].timer \in Timers
    <3>1. activations[i] \in LoopFrames /\ activations[i].kind = "fire"
      BY <1>2 DEF Loop!Frames
    <3>2. QED
      BY <3>1, FrameKinds DEF FireFrames
  <2>2. QED
    BY <1>1, <1>2, <2>1 DEF Loop!TypeOK, LoopTypes
<1>4. Loop!OneShotOnce
  <2> SUFFICES ASSUME NEW t \in Timers, t \notin repeats PROVE fired[t] < 2
    BY DEF Loop!OneShotOnce
  <2>1. fired[t] = 0 \/ fired[t] = 1
    BY <1>1 DEF FiredOnce
  <2>2. QED
    BY <2>1
<1>5. ASSUME NEW t \in Timers
      PROVE  /\ rc[t] = (IF t \in owned THEN 1 ELSE 0)
                  + Loop!Cardinality({i \in DOMAIN loop_timers : loop_timers[i] = t})
                  + Loop!Cardinality({i \in Loop!Frames("run") : t \in Loop!ToSet(activations[i].todo)})
                  + Loop!Cardinality({i \in Loop!Frames("fire") : activations[i] = Loop!FireFrame(t, TRUE)})
             /\ rc[t] = 0 => t \notin due
             /\ t \in in_loop <=> t \in Loop!ToSet(loop_timers)
  <2>1. {i \in Loop!Frames("run") : t \in Loop!ToSet(activations[i].todo)} = Coming(activations, t)
    BY <1>2 DEF Loop!Frames, Coming, ComesTo
  <2>2. {i \in Loop!Frames("fire") : activations[i] = Loop!FireFrame(t, TRUE)}
            = LoopCalls(activations, t, TRUE)
    BY <1>2, FireKind DEF Loop!Frames, LoopCalls
  <2>3. PICK list : list = {i \in DOMAIN loop_timers : loop_timers[i] = t}
    OBVIOUS
  <2>4. (\A i, j \in list : i = j) /\ (list # {} <=> t \in in_loop)
    <3>1. /\ DOMAIN loop_timers = 1 .. Len(loop_timers) /\ Distinct(loop_timers)
          /\ in_loop = Loop!ToSet(loop_timers)
      BY <1>1 DEF LoopTypes
    <3>2. \A i, j \in list : i = j
      BY <2>3, <3>1 DEF Distinct
    <3>3. list # {} <=> t \in in_loop
      BY <2>3, <3>1 DEF Loop!ToSet
    <3>4. QED
      BY <3>2, <3>3
  <2>5. Cardinality(list) = Bit(t \in in_loop)
    BY <2>4, AtMostOne DEF Bit
  <2>6. Cardinality(LoopCalls(activations, t, TRUE)) = Bit(t \in running)
    <3>1. PICK c : c = LoopCalls(activations, t, TRUE)
      OBVIOUS
    <3>2. (\A i, j \in c : i = j) /\ (c # {} <=> t \in running)
      BY <1>1, <3>1 DEF Callbacks
    <3>3. Cardinality(c) = Bit(c # {})
      BY <3>2, AtMostOne
    <3>4. QED
      BY <3>1, <3>2, <3>3 DEF Bit
  <2>7. PICK x \in Nat, y \in Nat, z \in Nat, k \in Nat :
            /\ x = Bit(t \in owned) /\ y = Bit(t \in in_loop) /\ z = Bit(t \in running)
            /\ k = Cardinality(Coming(activations, t))
    BY InvFactsOf DEF Bit
  <2>8. rc[t] = x + y + z + k /\ x + y + z + k = x + y + k + z
    BY <2>7, InvFactsOf
  <2>9. x = (IF t \in owned THEN 1 ELSE 0)
    BY <2>7 DEF Bit
  <2>10. rc[t] = 0 => t \notin due
    BY InvFactsOf
  <2>11. t \in in_loop <=> t \in Loop!ToSet(loop_timers)
    BY <1>1 DEF LoopTypes
  <2>12. /\ y = Loop!Cardinality({i \in DOMAIN loop_timers : loop_timers[i] = t})
         /\ k = Loop!Cardinality({i \in Loop!Frames("run") : t \in Loop!ToSet(activations[i].todo)})
         /\ z = Loop!Cardinality({i \in Loop!Frames("fire") : activations[i] = Loop!FireFrame(t, TRUE)})
    BY <2>1, <2>2, <2>3, <2>5, <2>6, <2>7, SameCount
  <2>13. QED
    BY <2>8, <2>9, <2>10, <2>11, <2>12
<1>6. Loop!RefsExact
  BY <1>5 DEF Loop!RefsExact
<1>7. QED
  BY <1>3, <1>4, <1>6

\* Every reference to a timer is counted and every count is a reference, however run loops
\* and callbacks nest and whatever they cancel, release and run inside each other; and the
\* loop fires a one-shot timer at most once.
THEOREM TimersCounted ==
    ASSUME Loop!LoopAssumption
    PROVE  Loop!Spec => [](Loop!TypeOK /\ Loop!RefsExact /\ Loop!OneShotOnce)
<1>1. Loop!Init => LoopInv
  BY LoopStarts
<1>2. LoopInv /\ [Loop!Next]_(Loop!vars) => LoopInv'
  BY LoopSteps
<1>3. LoopInv => Loop!TypeOK /\ Loop!RefsExact /\ Loop!OneShotOnce
  BY LoopSound
<1>4. QED
  BY <1>1, <1>2, <1>3, PTL DEF Loop!Spec

\* A repeating timer keeps to its grid: the loop fires it when a date of the grid has passed,
\* and the next is a later one, a whole number of intervals on and at most one from now.
THEOREM GridKept ==
    ASSUME Loop!LoopAssumption
    PROVE  Loop!Spec => Loop!KeepsGrid
<1>1. Loop!Init => LoopInv
  BY LoopStarts
<1>2. LoopInv /\ [Loop!Next]_(Loop!vars) => LoopInv'
  BY LoopSteps
<1>3. ASSUME LoopInv, Loop!FireTimer, NEW t \in repeats, t \in running' \ running
      PROVE  /\ left[t] <= 0 /\ left'[t] > left[t] /\ left'[t] \in 0 .. Interval
             /\ (left'[t] - left[t]) % Interval = 0
  <2>1. PICK u : u = Head(Loop!Last(activations).todo)
    OBVIOUS
  <2>2. /\ left[u] <= 0 /\ running' = running \cup {u}
        /\ left' = (IF u \in repeats THEN [left EXCEPT ![u] = Loop!Rescheduled(@)] ELSE left)
    BY <1>3, <2>1 DEF Loop!FireTimer, Loop!DueNow
  <2>3. u = t
    BY <1>3, <2>2
  <2>4. PICK l \in -MaxLate .. Interval : l = left[t] /\ l <= 0 /\ left'[t] = Loop!Rescheduled(l)
    <3>1. left \in [Timers -> -MaxLate .. Interval] /\ t \in Timers
      BY <1>3 DEF LoopInv, LoopTypes
    <3>2. QED
      BY <2>2, <2>3, <3>1
  <2>5. /\ Loop!Rescheduled(l) \in 0 .. Interval /\ Loop!Rescheduled(l) > l
        /\ \E k \in Nat : Loop!Rescheduled(l) - l = Interval * k
    BY <2>4, Periods
  <2>6. PICK k \in Nat : Loop!Rescheduled(l) - l = Interval * k
    BY <2>5
  <2>7. (Interval * k) % Interval = 0
    BY DEF Loop!LoopAssumption
  <2>8. QED
    BY <2>4, <2>5, <2>6, <2>7
<1>4. LoopInv /\ [Loop!Next]_(Loop!vars) =>
        [\A t \in repeats : Loop!FireTimer /\ t \in running' \ running =>
             /\ left[t] <= 0 /\ left'[t] > left[t]
             /\ left'[t] \in 0 .. Interval
             /\ (left'[t] - left[t]) % Interval = 0]_(Loop!vars)
  BY <1>3
<1>5. QED
  BY <1>1, <1>2, <1>4, PTL DEF Loop!Spec, Loop!KeepsGrid

(***************************************************************************)
(* Operations                                                              *)
(***************************************************************************)
CONSTANTS OpThreads, Operations, BlockOperations, OpDepth
VARIABLES op_state, op_cancelled, dependencies, operations, op_suspended, op_frames, mains
Op == INSTANCE Operations WITH
    Threads <- OpThreads, MaxDepth <- OpDepth, state <- op_state,
    cancelled <- op_cancelled, suspended <- op_suspended, frames <- op_frames

\* What is left of a queue is every other operation, in a sequence.
KeptOps(o, ops, f, i) ==
    IF i = 0 THEN <<>>
    ELSE IF ops[i] = o THEN f[i - 1] ELSE Append(f[i - 1], ops[i])

LEMMA LeaveSound ==
    ASSUME NEW o, NEW ops \in Seq(Operations)
    PROVE  /\ Op!Leave(o, ops) \in Seq(Operations)
           /\ Op!ToSet(Op!Leave(o, ops)) \subseteq Op!ToSet(ops) \ {o}
<1>1. Len(ops) \in Nat /\ DOMAIN ops = 1 .. Len(ops)
      /\ \A i \in 1 .. Len(ops) : ops[i] \in Operations
  OBVIOUS
<1> DEFINE T == {n \in Nat : n \in 0 .. Len(ops) =>
                    \E f : f = [i \in 0 .. n |-> KeptOps(o, ops, f, i)]}
<1>2. 0 \in T
  <2> DEFINE g == [i \in 0 .. 0 |-> <<>>]
  <2>1. g = [i \in 0 .. 0 |-> KeptOps(o, ops, g, i)]
    BY DEF KeptOps
  <2> HIDE DEF g
  <2>2. QED
    BY <2>1
<1>3. ASSUME NEW n \in Nat, n \in T PROVE n + 1 \in T
  <2>1. CASE n + 1 \notin 0 .. Len(ops)
    BY <2>1
  <2>2. CASE n + 1 \in 0 .. Len(ops)
    <3>1. PICK f : f = [i \in 0 .. n |-> KeptOps(o, ops, f, i)]
      <4>1. n \in 0 .. Len(ops)
        BY <1>1, <2>2
      <4>2. QED
        BY <1>3, <4>1
    <3> DEFINE g == [i \in 0 .. n + 1 |-> KeptOps(o, ops, f, i)]
    <3>2. ASSUME NEW i \in 0 .. n + 1 PROVE KeptOps(o, ops, f, i) = KeptOps(o, ops, g, i)
      <4>1. CASE i = 0
        BY <4>1 DEF KeptOps
      <4>2. CASE i # 0
        <5>1. i - 1 \in 0 .. n /\ i - 1 \in 0 .. n + 1
          BY <4>2
        <5>2. f[i - 1] = g[i - 1]
          BY <3>1, <5>1
        <5> HIDE DEF g
        <5>3. QED
          BY <4>2, <5>2 DEF KeptOps
      <4>3. QED
        BY <4>1, <4>2
    <3>3. g = [i \in 0 .. n + 1 |-> KeptOps(o, ops, g, i)]
      BY <3>2
    <3> HIDE DEF g
    <3>4. \E h : h = [i \in 0 .. n + 1 |-> KeptOps(o, ops, h, i)]
      BY <3>3
    <3>5. QED
      BY <3>4
  <2>3. QED
    BY <2>1, <2>2
<1>4. Nat \subseteq T
  <2> HIDE DEF T
  <2>1. QED
    BY <1>2, <1>3, Counting
<1>5. PICK f : f = [i \in 0 .. Len(ops) |-> KeptOps(o, ops, f, i)] /\ Op!Leave(o, ops) = f[Len(ops)]
  <2> DEFINE f == CHOOSE f : f = [i \in 0 .. Len(ops) |-> KeptOps(o, ops, f, i)]
  <2>1. Len(ops) \in T /\ Len(ops) \in 0 .. Len(ops)
    BY <1>1, <1>4
  <2>2. \E h : h = [i \in 0 .. Len(ops) |-> KeptOps(o, ops, h, i)]
    BY <2>1
  <2>3. f = [i \in 0 .. Len(ops) |-> KeptOps(o, ops, f, i)]
    BY <2>2
  <2>4. Op!Leave(o, ops) = f[Len(ops)]
    BY DEF Op!Leave, KeptOps
  <2>5. QED
    BY <2>3, <2>4
<1> DEFINE R == {n \in Nat : n \in 0 .. Len(ops) =>
                    f[n] \in Seq(Operations) /\ Op!ToSet(f[n]) \subseteq Op!ToSet(ops) \ {o}}
<1>6. 0 \in R
  <2>1. f[0] = <<>>
    BY <1>1, <1>5 DEF KeptOps
  <2>2. <<>> \in Seq(Operations) /\ Op!ToSet(<<>>) = {}
    BY DEF Op!ToSet
  <2>3. QED
    BY <2>1, <2>2
<1>7. ASSUME NEW n \in Nat, n \in R PROVE n + 1 \in R
  <2> SUFFICES ASSUME n + 1 \in 0 .. Len(ops)
               PROVE  /\ f[n + 1] \in Seq(Operations)
                      /\ Op!ToSet(f[n + 1]) \subseteq Op!ToSet(ops) \ {o}
    OBVIOUS
  <2>1. n \in 0 .. Len(ops) /\ n + 1 \in 1 .. Len(ops) /\ (n + 1) - 1 = n /\ n + 1 # 0
    BY <1>1
  <2>2. f[n] \in Seq(Operations) /\ Op!ToSet(f[n]) \subseteq Op!ToSet(ops) \ {o}
    BY <1>7, <2>1
  <2>3. f[n + 1] = KeptOps(o, ops, f, n + 1)
    BY <1>5
  <2>4. f[n + 1] = IF ops[n + 1] = o THEN f[n] ELSE Append(f[n], ops[n + 1])
    BY <2>1, <2>3 DEF KeptOps
  <2>5. CASE ops[n + 1] = o
    BY <2>2, <2>4, <2>5
  <2>6. CASE ops[n + 1] # o
    <3>1. PICK s, x : s = f[n] /\ x = ops[n + 1]
      OBVIOUS
    <3>2. /\ s \in Seq(Operations) /\ Op!ToSet(s) \subseteq Op!ToSet(ops) \ {o}
          /\ x \in Operations /\ x # o /\ x \in Op!ToSet(ops) /\ f[n + 1] = Append(s, x)
      BY <1>1, <2>1, <2>2, <2>4, <2>6, <3>1 DEF Op!ToSet
    <3>3. Append(s, x) \in Seq(Operations) /\ Op!ToSet(Append(s, x)) \subseteq Op!ToSet(s) \cup {x}
      <4>1. s \in Seq(Operations) /\ x \in Operations
        BY <3>2
      <4>2. QED
        BY <4>1 DEF Op!ToSet
    <3>4. QED
      BY <3>2, <3>3
  <2>7. QED
    BY <2>5, <2>6
<1>8. Nat \subseteq R
  <2> HIDE DEF R
  <2>1. QED
    BY <1>6, <1>7, Counting
<1>9. Len(ops) \in R /\ Len(ops) \in 0 .. Len(ops)
  BY <1>1, <1>8
<1>10. QED
  BY <1>5, <1>9

OpFrames == [op : Operations, at : {"Executing", "main", "Finished"},
             caller : {"guest", "addOperation"}, round : Nat, rounds : Nat]

OpTypes ==
    /\ op_state \in [Operations -> {"Ready", "Executing", "Finished"}]
    /\ dependencies \in [Operations -> SUBSET Operations]
    /\ operations \in Seq(Operations)
    /\ mains \in [Operations -> 0 .. 1]
    /\ op_frames \in [OpThreads -> Seq(OpFrames)]

\* An operation that is not ready was started, and its main called, if so, once.
CallsOnce == \A o \in Operations : mains[o] > 0 => op_state[o] # "Ready"

\* A frame f of an operation that was started.
Started(f, state, needed, called) ==
    /\ state[f.op] = IF f.at = "Finished" THEN "Finished" ELSE "Executing"
    /\ f.at = "Executing" => called[f.op] = 0
    /\ f.caller # "guest" => \A d \in needed[f.op] : state[d] = "Finished"

\* Every operation has one call of start in progress at most.
OpInv ==
    /\ OpTypes /\ CallsOnce
    /\ \A t \in OpThreads : \A i \in 1 .. Len(op_frames[t]) : Started(op_frames[t][i], op_state, dependencies, mains)
    /\ \A t \in OpThreads, u \in OpThreads :
          \A i \in 1 .. Len(op_frames[t]), j \in 1 .. Len(op_frames[u]) :
             op_frames[t][i].op = op_frames[u][j].op => t = u /\ i = j
    /\ \A o \in Op!ToSet(operations) : \E t \in OpThreads : \E i \in 1 .. Len(op_frames[t]) :
          op_frames[t][i].op = o /\ op_frames[t][i].caller = "addOperation"

\* setSuspended starts nothing: what is listed is not ready.
LEMMA NothingDue ==
    ASSUME OpInv, NEW t \in OpThreads, NEW b \in BOOLEAN, Op!setSuspended(t, b)
    PROVE  UNCHANGED <<op_state, op_cancelled, dependencies, operations, op_frames, mains>>
<1>1. \A k \in 1 .. Len(operations) : ~ Op!isReady(operations[k])
  <2> TAKE k \in 1 .. Len(operations)
  <2>1. operations[k] \in Op!ToSet(operations)
    BY DEF OpInv, OpTypes, Op!ToSet
  <2>2. PICK u \in OpThreads : \E i \in 1 .. Len(op_frames[u]) : op_frames[u][i].op = operations[k]
    BY <2>1 DEF OpInv
  <2>3. op_state[operations[k]] # "Ready"
    BY <2>2 DEF OpInv, Started
  <2>4. QED
    BY <2>3 DEF Op!isReady
<1>2. CASE b
  BY <1>2 DEF Op!setSuspended
<1>3. CASE ~ b
  <2>1. Op!Resume(t, op_frames[t], 1, Len(operations)) /\ UNCHANGED operations
    BY <1>3 DEF Op!setSuspended
  <2>2. {k \in 1 .. Len(operations) : k <= Len(operations) /\ Op!isReady(operations[k])} = {}
    BY <1>1
  <2>3. /\ op_frames' = [op_frames EXCEPT ![t] = op_frames[t]]
        /\ UNCHANGED <<op_state, op_cancelled, dependencies, mains>>
    BY <2>1, <2>2 DEF Op!Resume
  <2>4. QED
    BY <2>1, <2>3 DEF OpInv, OpTypes
<1>4. QED
  BY <1>2, <1>3

\* A ready operation is started on top of a thread's frames.
LEMMA StartStep ==
    ASSUME OpInv, NEW t \in OpThreads, NEW o \in Operations, op_state[o] = "Ready",
           NEW caller \in {"guest", "addOperation"},
           caller # "guest" => \A d \in dependencies[o] : op_state[d] = "Finished",
           Op!start(t, op_frames[t], o, caller, 0, 0),
           \/ UNCHANGED operations
           \/ caller = "addOperation" /\ operations' = Append(operations, o)
    PROVE  OpInv'
<1>0. PICK s \in {"Executing", "Finished"} :
          /\ op_state' = [op_state EXCEPT ![o] = s]
          /\ op_frames' = [op_frames EXCEPT ![t] =
                               Append(op_frames[t], Op!Frame(o, s, caller, 0, 0))]
          /\ UNCHANGED <<dependencies, mains>>
  BY DEF Op!start
<1>1. PICK f : /\ f = Op!Frame(o, s, caller, 0, 0) /\ op_state' = [op_state EXCEPT ![o] = s]
               /\ op_frames' = [op_frames EXCEPT ![t] = Append(op_frames[t], f)]
               /\ UNCHANGED <<dependencies, mains>>
  BY <1>0
<1>2. /\ f \in OpFrames /\ f.op = o /\ f.at = s /\ f.caller = caller
      /\ s \in {"Executing", "Finished"}
  BY <1>1 DEF Op!Frame, OpFrames
<1>2a. PICK n : n = Len(op_frames[t])
  OBVIOUS
<1>3. /\ op_frames[t] \in Seq(OpFrames) /\ n \in Nat /\ n = Len(op_frames[t])
      /\ \A u \in OpThreads : op_frames[u] \in Seq(OpFrames) /\ Len(op_frames[u]) \in Nat
  BY <1>2a DEF OpInv, OpTypes
<1>4. /\ Len(op_frames'[t]) = n + 1 /\ op_frames'[t][n + 1] = f
      /\ \A i \in 1 .. n : op_frames'[t][i] = op_frames[t][i]
      /\ \A u \in OpThreads \ {t} : op_frames'[u] = op_frames[u]
      /\ op_frames' \in [OpThreads -> Seq(OpFrames)]
  <2>1. op_frames'[t] = Append(op_frames[t], f)
        /\ \A u \in OpThreads \ {t} : op_frames'[u] = op_frames[u]
    BY <1>1 DEF OpInv, OpTypes
  <2>2. Append(op_frames[t], f) \in Seq(OpFrames)
    BY <1>2, <1>3
  <2>3. QED
    BY <1>1, <1>2, <1>3, <2>1, <2>2 DEF OpInv, OpTypes
<1>5. \A d \in Operations : op_state'[d] = IF d = o THEN s ELSE op_state[d]
  BY <1>1 DEF OpInv, OpTypes
<1>6. operations' \in Seq(Operations) /\ Op!ToSet(operations') \subseteq Op!ToSet(operations) \cup {o}
      /\ (o \in Op!ToSet(operations') \ Op!ToSet(operations) => caller = "addOperation")
  <2>1. operations \in Seq(Operations)
    BY DEF OpInv, OpTypes
  <2>2. CASE UNCHANGED operations
    BY <2>1, <2>2
  <2>3. CASE caller = "addOperation" /\ operations' = Append(operations, o)
    <3>1. Append(operations, o) \in Seq(Operations)
          /\ Op!ToSet(Append(operations, o)) \subseteq Op!ToSet(operations) \cup {o}
      BY <2>1 DEF Op!ToSet
    <3>2. QED
      BY <2>3, <3>1
  <2>4. QED
    BY <2>2, <2>3
<1>7. OpTypes'
  BY <1>1, <1>2, <1>4, <1>6 DEF OpInv, OpTypes
<1>8. mains[o] = 0
  BY DEF OpInv, OpTypes, CallsOnce
<1>9. CallsOnce'
  BY <1>1, <1>5, <1>8 DEF OpInv, CallsOnce
<1>10. ASSUME NEW u \in OpThreads, NEW i \in 1 .. Len(op_frames[u])
       PROVE  op_frames[u][i] \in OpFrames /\ Started(op_frames[u][i], op_state, dependencies, mains)
              /\ op_frames[u][i].op # o
  <2>1. op_frames[u][i] \in OpFrames
    BY <1>3
  <2>2. Started(op_frames[u][i], op_state, dependencies, mains)
    BY DEF OpInv
  <2>3. QED
    BY <2>1, <2>2 DEF Started
<1>11. ASSUME NEW g \in OpFrames, Started(g, op_state, dependencies, mains), g.op # o
       PROVE  Started(g, op_state', dependencies', mains')
  <2>1. g.op \in Operations /\ dependencies[g.op] \subseteq Operations
    BY DEF OpFrames, OpInv, OpTypes
  <2>2. QED
    BY <1>1, <1>5, <1>11, <2>1 DEF Started
<1>12. Started(f, op_state', dependencies', mains')
  <2>1. \A d \in dependencies[o] : d \in Operations /\ (op_state[d] = "Finished" => op_state'[d] = "Finished")
    BY <1>5 DEF OpInv, OpTypes
  <2>2. QED
    BY <1>1, <1>2, <1>5, <1>8, <2>1 DEF Started
<1>13. ASSUME NEW u \in OpThreads, NEW i \in 1 .. Len(op_frames'[u])
       PROVE  \/ u = t /\ i = n + 1 /\ op_frames'[u][i] = f
              \/ i \in 1 .. Len(op_frames[u]) /\ op_frames'[u][i] = op_frames[u][i]
  BY <1>3, <1>4
<1>14. \A u \in OpThreads : \A i \in 1 .. Len(op_frames'[u]) :
           Started(op_frames'[u][i], op_state', dependencies', mains')
  <2> TAKE u \in OpThreads
  <2> TAKE i \in 1 .. Len(op_frames'[u])
  <2>1. CASE op_frames'[u][i] = f
    BY <1>12, <2>1
  <2>2. CASE i \in 1 .. Len(op_frames[u]) /\ op_frames'[u][i] = op_frames[u][i]
    BY <1>10, <1>11, <2>2
  <2>3. QED
    BY <1>13, <2>1, <2>2
<1>15. ASSUME NEW u \in OpThreads, NEW v \in OpThreads,
              NEW i \in 1 .. Len(op_frames'[u]), NEW j \in 1 .. Len(op_frames'[v]),
              op_frames'[u][i].op = op_frames'[v][j].op
       PROVE  u = v /\ i = j
  <2>1. CASE /\ i \in 1 .. Len(op_frames[u]) /\ op_frames'[u][i] = op_frames[u][i]
             /\ j \in 1 .. Len(op_frames[v]) /\ op_frames'[v][j] = op_frames[v][j]
    BY <1>15, <2>1 DEF OpInv
  <2>2. CASE u = t /\ i = n + 1 /\ v = t /\ j = n + 1
    BY <2>2
  <2>3. CASE op_frames'[u][i] = f /\ j \in 1 .. Len(op_frames[v]) /\ op_frames'[v][j] = op_frames[v][j]
    BY <1>2, <1>10, <1>15, <2>3
  <2>4. CASE op_frames'[v][j] = f /\ i \in 1 .. Len(op_frames[u]) /\ op_frames'[u][i] = op_frames[u][i]
    BY <1>2, <1>10, <1>15, <2>4
  <2>5. QED
    BY <1>13, <2>1, <2>2, <2>3, <2>4
<1>16. ASSUME NEW p \in Op!ToSet(operations')
       PROVE  \E u \in OpThreads : \E i \in 1 .. Len(op_frames'[u]) :
                 op_frames'[u][i].op = p /\ op_frames'[u][i].caller = "addOperation"
  <2>1. CASE p \in Op!ToSet(operations)
    <3>0. PICK u \in OpThreads : \E i \in 1 .. Len(op_frames[u]) :
              op_frames[u][i].op = p /\ op_frames[u][i].caller = "addOperation"
      BY <2>1 DEF OpInv
    <3>1. PICK i \in 1 .. Len(op_frames[u]) :
              op_frames[u][i].op = p /\ op_frames[u][i].caller = "addOperation"
      BY <3>0
    <3>2. i \in 1 .. Len(op_frames'[u]) /\ op_frames'[u][i] = op_frames[u][i]
      BY <1>3, <1>4
    <3>3. QED
      BY <3>1, <3>2
  <2>2. CASE p \notin Op!ToSet(operations)
    <3>1. p = o /\ caller = "addOperation"
      BY <1>6, <1>16, <2>2
    <3>2. n + 1 \in 1 .. Len(op_frames'[t])
      BY <1>3, <1>4
    <3>3. QED
      BY <1>2, <1>4, <3>1, <3>2
  <2>3. QED
    BY <2>1, <2>2
<1>17. QED
  <2>1. \A u \in OpThreads, v \in OpThreads :
           \A i \in 1 .. Len(op_frames'[u]), j \in 1 .. Len(op_frames'[v]) :
              op_frames'[u][i].op = op_frames'[v][j].op => u = v /\ i = j
    BY <1>15
  <2>2. \A p \in Op!ToSet(operations') : \E u \in OpThreads : \E i \in 1 .. Len(op_frames'[u]) :
           op_frames'[u][i].op = p /\ op_frames'[u][i].caller = "addOperation"
    BY <1>16
  <2>3. QED
    BY <1>7, <1>9, <1>14, <2>1, <2>2 DEF OpInv

\* The last call of start of a thread gets on: its main is called, or its operation
\* is finished.
LEMMA FrameStep ==
    ASSUME OpInv, NEW t \in OpThreads, op_frames[t] # <<>>, NEW n, n = Len(op_frames[t]),
           NEW o, o = op_frames[t][n].op, op_frames[t][n].at # "Finished",
           NEW at \in {"main", "Finished"},
           op_frames' = [op_frames EXCEPT ![t][n].at = at],
           op_state' = IF at = "Finished" THEN [op_state EXCEPT ![o] = "Finished"] ELSE op_state,
           \/ UNCHANGED mains
           \/ op_frames[t][n].at = "Executing" /\ mains' = [mains EXCEPT ![o] = 1],
           UNCHANGED <<dependencies, operations>>
    PROVE  OpInv'
<1>1. /\ op_frames[t] \in Seq(OpFrames) /\ n \in Nat /\ n \in 1 .. Len(op_frames[t])
      /\ op_frames[t][n] \in OpFrames
  <2>1. op_frames[t] \in Seq(OpFrames)
    BY DEF OpInv, OpTypes
  <2>2. n \in 1 .. Len(op_frames[t])
    BY <2>1
  <2>3. QED
    BY <2>1, <2>2
<1>2. PICK f : f = [op_frames[t][n] EXCEPT !.at = at]
  OBVIOUS
<1>3. /\ f \in OpFrames /\ f.op = o /\ f.at = at /\ f.caller = op_frames[t][n].caller
      /\ o \in Operations
  BY <1>1, <1>2 DEF OpFrames
<1>4. /\ \A u \in OpThreads : Len(op_frames'[u]) = Len(op_frames[u]) /\ Len(op_frames[u]) \in Nat
      /\ op_frames'[t][n] = f
      /\ \A u \in OpThreads : \A i \in 1 .. Len(op_frames[u]) :
            ~ (u = t /\ i = n) => op_frames'[u][i] = op_frames[u][i]
      /\ op_frames' \in [OpThreads -> Seq(OpFrames)]
  <2>1. op_frames' = [op_frames EXCEPT ![t] = [@ EXCEPT ![n] = f]]
    BY <1>2
  <2>2. PICK s : s = [op_frames[t] EXCEPT ![n] = f]
    OBVIOUS
  <2>3. /\ s \in Seq(OpFrames) /\ Len(s) = Len(op_frames[t]) /\ s[n] = f
        /\ \A i \in 1 .. Len(op_frames[t]) : i # n => s[i] = op_frames[t][i]
    BY <1>1, <1>3, <2>2
  <2>4. op_frames'[t] = s /\ \A u \in OpThreads \ {t} : op_frames'[u] = op_frames[u]
    BY <2>1, <2>2 DEF OpInv, OpTypes
  <2>5. op_frames' \in [OpThreads -> Seq(OpFrames)]
    <3>1. op_frames' = [op_frames EXCEPT ![t] = s] /\ op_frames \in [OpThreads -> Seq(OpFrames)]
      BY <2>1, <2>2 DEF OpInv, OpTypes
    <3>2. QED
      BY <2>3, <3>1
  <2>6. \A u \in OpThreads : Len(op_frames[u]) \in Nat
    BY DEF OpInv, OpTypes
  <2>7. QED
    BY <2>3, <2>4, <2>5, <2>6
<1>5. Started(op_frames[t][n], op_state, dependencies, mains) /\ op_state[o] = "Executing"
  <2>1. Started(op_frames[t][n], op_state, dependencies, mains)
    BY <1>1 DEF OpInv
  <2>2. QED
    BY <2>1 DEF Started
<1>6. \A d \in Operations :
         /\ op_state'[d] = IF at = "Finished" /\ d = o THEN "Finished" ELSE op_state[d]
         /\ mains'[d] = mains[d] \/ (d = o /\ op_frames[t][n].at = "Executing" /\ mains'[d] = 1)
  BY DEF OpInv, OpTypes
<1>7. OpTypes'
  <2>1. op_state' \in [Operations -> {"Ready", "Executing", "Finished"}]
    BY DEF OpInv, OpTypes
  <2>2. mains' \in [Operations -> 0 .. 1]
    BY DEF OpInv, OpTypes
  <2>3. dependencies' \in [Operations -> SUBSET Operations] /\ operations' \in Seq(Operations)
    BY DEF OpInv, OpTypes
  <2>4. op_frames' \in [OpThreads -> Seq(OpFrames)]
    BY <1>4
  <2>5. QED
    BY <2>1, <2>2, <2>3, <2>4 DEF OpTypes
<1>8. CallsOnce'
  <2>1. op_state'[o] # "Ready"
    BY <1>3, <1>5, <1>6
  <2>2. ASSUME NEW d \in Operations, mains'[d] > 0 PROVE op_state'[d] # "Ready"
    <3>1. CASE d = o
      BY <2>1, <3>1
    <3>2. CASE d # o
      BY <1>6, <2>2, <3>2 DEF OpInv, CallsOnce
    <3>3. QED
      BY <3>1, <3>2
  <2>3. QED
    BY <2>2 DEF CallsOnce
<1>9. Started(f, op_state', dependencies', mains')
  <2>1. \A d \in dependencies[o] : d \in Operations /\ (op_state[d] = "Finished" => op_state'[d] = "Finished")
    BY <1>3, <1>6 DEF OpInv, OpTypes
  <2>2. op_state'[o] = IF at = "Finished" THEN "Finished" ELSE "Executing"
    BY <1>3, <1>5, <1>6
  <2>3. f.caller # "guest" => \A d \in dependencies[o] : op_state[d] = "Finished"
    BY <1>3, <1>5 DEF Started
  <2>4. QED
    BY <1>3, <2>1, <2>2, <2>3 DEF Started
<1>10. ASSUME NEW u \in OpThreads, NEW i \in 1 .. Len(op_frames[u]), ~ (u = t /\ i = n)
       PROVE  Started(op_frames[u][i], op_state', dependencies', mains')
  <2>1. PICK g : g = op_frames[u][i]
    OBVIOUS
  <2>2. g \in OpFrames
    <3>1. op_frames[u] \in Seq(OpFrames)
      BY DEF OpInv, OpTypes
    <3>2. QED
      BY <2>1, <3>1
  <2>3. g.op # o /\ Started(g, op_state, dependencies, mains)
    BY <1>1, <1>10, <2>1 DEF OpInv
  <2>4. g.op \in Operations /\ dependencies[g.op] \subseteq Operations
    BY <2>2 DEF OpFrames, OpInv, OpTypes
  <2>5. Started(g, op_state', dependencies', mains')
    BY <1>6, <2>3, <2>4 DEF Started
  <2>6. QED
    BY <2>1, <2>5
<1>11. \A u \in OpThreads : \A i \in 1 .. Len(op_frames'[u]) :
          Started(op_frames'[u][i], op_state', dependencies', mains')
  BY <1>4, <1>9, <1>10
<1>12. ASSUME NEW u \in OpThreads, NEW i \in 1 .. Len(op_frames'[u])
       PROVE  /\ i \in 1 .. Len(op_frames[u]) /\ op_frames'[u][i].op = op_frames[u][i].op
              /\ op_frames'[u][i].caller = op_frames[u][i].caller
  BY <1>3, <1>4
<1>13. \A u \in OpThreads, v \in OpThreads :
          \A i \in 1 .. Len(op_frames'[u]), j \in 1 .. Len(op_frames'[v]) :
             op_frames'[u][i].op = op_frames'[v][j].op => u = v /\ i = j
  BY <1>12 DEF OpInv
<1>14. ASSUME NEW p \in Op!ToSet(operations')
       PROVE  \E u \in OpThreads : \E i \in 1 .. Len(op_frames'[u]) :
                 op_frames'[u][i].op = p /\ op_frames'[u][i].caller = "addOperation"
  <2>1. PICK u \in OpThreads : \E i \in 1 .. Len(op_frames[u]) :
            op_frames[u][i].op = p /\ op_frames[u][i].caller = "addOperation"
    BY <1>14 DEF OpInv
  <2>2. PICK i \in 1 .. Len(op_frames[u]) :
            op_frames[u][i].op = p /\ op_frames[u][i].caller = "addOperation"
    BY <2>1
  <2>3. i \in 1 .. Len(op_frames'[u])
    BY <1>4
  <2>4. QED
    BY <1>12, <2>2, <2>3
<1>15. QED
  BY <1>7, <1>8, <1>11, <1>13, <1>14 DEF OpInv

\* The last call of start of a thread returns, and what it listed is taken off.
LEMMA ReturnStep ==
    ASSUME OpInv, NEW t \in OpThreads, Op!StartReturns(t)
    PROVE  OpInv'
<1> DEFINE n == Len(op_frames[t])
           f == op_frames[t][n]
<1>1. /\ op_frames[t] \in Seq(OpFrames) /\ op_frames[t] # <<>> /\ n \in Nat /\ n > 0
      /\ n \in 1 .. n /\ f \in OpFrames
  <2>1. op_frames[t] \in Seq(OpFrames) /\ op_frames[t] # <<>>
    BY DEF OpInv, OpTypes, Op!StartReturns
  <2>2. n \in Nat /\ n > 0 /\ n \in 1 .. n
    BY <2>1
  <2>3. QED
    BY <2>1, <2>2
<1>2. f.caller \in {"guest", "addOperation"} /\ f.op \in Operations
  BY <1>1 DEF OpFrames
<1>3. /\ op_frames' = [op_frames EXCEPT ![t] = SubSeq(op_frames[t], 1, n - 1)]
      /\ operations' = IF f.caller = "addOperation" THEN Op!Leave(f.op, operations) ELSE operations
      /\ UNCHANGED <<op_state, dependencies, mains>>
  BY <1>2 DEF Op!StartReturns, Op!Last, Op!Front, Op!queue
<1>4. /\ SubSeq(op_frames[t], 1, n - 1) \in Seq(OpFrames)
      /\ Len(SubSeq(op_frames[t], 1, n - 1)) = n - 1
      /\ \A i \in 1 .. n - 1 : SubSeq(op_frames[t], 1, n - 1)[i] = op_frames[t][i]
  <2>1. ASSUME NEW s \in Seq(OpFrames), NEW k \in Nat, k <= Len(s)
        PROVE  SubSeq(s, 1, k) \in Seq(OpFrames) /\ Len(SubSeq(s, 1, k)) = k
    BY <2>1
  <2>2. ASSUME NEW s \in Seq(OpFrames), NEW k \in Nat, k <= Len(s), NEW i \in 1 .. k
        PROVE  SubSeq(s, 1, k)[i] = s[i]
    BY <2>2
  <2>3. n - 1 \in Nat /\ n - 1 <= Len(op_frames[t])
    BY <1>1
  <2>4. QED
    BY <1>1, <2>1, <2>2, <2>3
<1>5. /\ op_frames' \in [OpThreads -> Seq(OpFrames)]
      /\ \A u \in OpThreads : \A i \in 1 .. Len(op_frames'[u]) :
            /\ i \in 1 .. Len(op_frames[u]) /\ op_frames'[u][i] = op_frames[u][i]
            /\ ~ (u = t /\ i = n)
      /\ \A u \in OpThreads : \A i \in 1 .. Len(op_frames[u]) :
            ~ (u = t /\ i = n) => i \in 1 .. Len(op_frames'[u])
  <2>1. op_frames'[t] = SubSeq(op_frames[t], 1, n - 1)
        /\ \A u \in OpThreads \ {t} : op_frames'[u] = op_frames[u]
    BY <1>3 DEF OpInv, OpTypes
  <2>2. op_frames' \in [OpThreads -> Seq(OpFrames)]
    BY <1>3, <1>4 DEF OpInv, OpTypes
  <2>3. Len(op_frames'[t]) = n - 1 /\ \A i \in 1 .. n - 1 : op_frames'[t][i] = op_frames[t][i]
    BY <1>4, <2>1
  <2>4. PICK k \in Nat : k = n
    BY <1>1
  <2>5. \A i \in 1 .. k - 1 : i \in 1 .. k /\ i # k
    BY <2>4
  <2>6. \A i \in 1 .. k : i # k => i \in 1 .. k - 1
    BY <2>4
  <2>7. ASSUME NEW u \in OpThreads, NEW i \in 1 .. Len(op_frames'[u])
        PROVE  /\ i \in 1 .. Len(op_frames[u]) /\ op_frames'[u][i] = op_frames[u][i]
               /\ ~ (u = t /\ i = n)
    <3>1. CASE u = t
      BY <2>3, <2>4, <2>5, <3>1
    <3>2. CASE u # t
      BY <2>1, <3>2
    <3>3. QED
      BY <3>1, <3>2
  <2>8. ASSUME NEW u \in OpThreads, NEW i \in 1 .. Len(op_frames[u]), ~ (u = t /\ i = n)
        PROVE  i \in 1 .. Len(op_frames'[u])
    <3>1. CASE u = t
      BY <2>3, <2>4, <2>6, <2>8, <3>1
    <3>2. CASE u # t
      BY <2>1, <3>2
    <3>3. QED
      BY <3>1, <3>2
  <2>9. QED
    BY <2>2, <2>7, <2>8
<1>6. operations' \in Seq(Operations) /\ Op!ToSet(operations') \subseteq Op!ToSet(operations)
      /\ (f.caller = "addOperation" => f.op \notin Op!ToSet(operations'))
  BY <1>3, LeaveSound DEF OpInv, OpTypes
<1>7. OpTypes'
  BY <1>3, <1>5, <1>6 DEF OpInv, OpTypes
<1>8. ASSUME NEW p \in Op!ToSet(operations')
      PROVE  \E u \in OpThreads : \E i \in 1 .. Len(op_frames'[u]) :
                op_frames'[u][i].op = p /\ op_frames'[u][i].caller = "addOperation"
  <2>1. PICK u \in OpThreads : \E i \in 1 .. Len(op_frames[u]) :
            op_frames[u][i].op = p /\ op_frames[u][i].caller = "addOperation"
    BY <1>6, <1>8 DEF OpInv
  <2>2. PICK i \in 1 .. Len(op_frames[u]) :
            op_frames[u][i].op = p /\ op_frames[u][i].caller = "addOperation"
    BY <2>1
  <2>3. ~ (u = t /\ i = n)
    BY <1>6, <1>8, <2>2
  <2>4. QED
    BY <1>5, <2>2, <2>3
<1>9. CallsOnce'
  BY <1>3 DEF OpInv, CallsOnce
<1>10. \A u \in OpThreads : \A i \in 1 .. Len(op_frames'[u]) :
          Started(op_frames'[u][i], op_state', dependencies', mains')
  BY <1>3, <1>5 DEF OpInv
<1>11. \A u \in OpThreads, v \in OpThreads :
          \A i \in 1 .. Len(op_frames'[u]), j \in 1 .. Len(op_frames'[v]) :
             op_frames'[u][i].op = op_frames'[v][j].op => u = v /\ i = j
  <2> SUFFICES ASSUME NEW u \in OpThreads, NEW v \in OpThreads,
                      NEW i \in 1 .. Len(op_frames'[u]), NEW j \in 1 .. Len(op_frames'[v]),
                      op_frames'[u][i].op = op_frames'[v][j].op
               PROVE  u = v /\ i = j
    OBVIOUS
  <2>1. i \in 1 .. Len(op_frames[u]) /\ op_frames'[u][i] = op_frames[u][i]
    BY <1>5
  <2>2. j \in 1 .. Len(op_frames[v]) /\ op_frames'[v][j] = op_frames[v][j]
    BY <1>5
  <2>3. op_frames[u][i].op = op_frames[v][j].op
    BY <2>1, <2>2
  <2> HIDE DEF n, f
  <2>4. QED
    BY <2>1, <2>2, <2>3 DEF OpInv
<1>12. QED
  BY <1>7, <1>8, <1>9, <1>10, <1>11 DEF OpInv

\* No call of start gets on.
LEMMA QuietStep ==
    ASSUME OpInv, UNCHANGED <<op_state, op_frames, mains>>,
           dependencies' \in [Operations -> SUBSET Operations],
           \A o \in Operations : op_state[o] # "Ready" => dependencies'[o] \subseteq dependencies[o],
           operations' \in Seq(Operations), Op!ToSet(operations') \subseteq Op!ToSet(operations)
    PROVE  OpInv'
<1>1. OpTypes' /\ CallsOnce'
  BY DEF OpInv, OpTypes, CallsOnce
<1>2. ASSUME NEW t \in OpThreads, NEW i \in 1 .. Len(op_frames[t])
      PROVE  Started(op_frames[t][i], op_state', dependencies', mains')
  <2>1. PICK g : g = op_frames[t][i]
    OBVIOUS
  <2>2. g \in OpFrames
    <3>1. op_frames[t] \in Seq(OpFrames)
      BY DEF OpInv, OpTypes
    <3>2. QED
      BY <2>1, <3>1
  <2>3. Started(g, op_state, dependencies, mains)
    BY <2>1 DEF OpInv
  <2>4. g.op \in Operations /\ op_state[g.op] # "Ready"
    BY <2>2, <2>3 DEF OpFrames, Started
  <2>5. Started(g, op_state', dependencies', mains')
    BY <2>3, <2>4 DEF Started
  <2>6. QED
    BY <2>1, <2>5
<1>3. QED
  BY <1>1, <1>2 DEF OpInv

LEMMA OpNext ==
    ASSUME OpInv, [Op!Next]_(Op!vars)
    PROVE  OpInv'
<1>1. operations \in Seq(Operations) /\ dependencies \in [Operations -> SUBSET Operations]
  BY DEF OpInv, OpTypes
<1>2. CASE UNCHANGED Op!vars
  BY <1>1, <1>2, QuietStep DEF Op!vars, Op!queue
<1>3. ASSUME NEW t \in OpThreads, NEW o \in Operations, Op!StartByGuest(t, o) PROVE OpInv'
  BY <1>3, StartStep DEF Op!StartByGuest, Op!MayStart, Op!queue
<1>4. ASSUME NEW t \in OpThreads, NEW o \in Operations, Op!addOperation(t, o) PROVE OpInv'
  <2>1. CASE ~ op_suspended /\ Op!isReady(o)
    <3>1. op_state[o] = "Ready" /\ \A d \in dependencies[o] : op_state[d] = "Finished"
      BY <2>1 DEF Op!isReady, Op!Finished
    <3>2. Op!start(t, op_frames[t], o, "addOperation", 0, 0) /\ operations' = Append(operations, o)
      BY <1>4, <2>1 DEF Op!addOperation
    <3>3. QED
      BY <3>1, <3>2, StartStep
  <2>2. CASE ~ (~ op_suspended /\ Op!isReady(o))
    <3>1. operations' = Op!Leave(o, Append(operations, o))
          /\ UNCHANGED <<op_state, op_frames, mains, dependencies>>
      BY <1>4, <2>2 DEF Op!addOperation
    <3>2. Append(operations, o) \in Seq(Operations)
          /\ Op!ToSet(Append(operations, o)) \subseteq Op!ToSet(operations) \cup {o}
      BY <1>1 DEF Op!ToSet
    <3>3. Op!Leave(o, Append(operations, o)) \in Seq(Operations)
          /\ Op!ToSet(Op!Leave(o, Append(operations, o)))
                \subseteq Op!ToSet(Append(operations, o)) \ {o}
      BY <3>2, LeaveSound
    <3>4. QED
      <4>1. operations' \in Seq(Operations) /\ Op!ToSet(operations') \subseteq Op!ToSet(operations)
        BY <3>1, <3>2, <3>3
      <4>2. QED
        BY <1>1, <3>1, <4>1, QuietStep
  <2>3. QED
    BY <2>1, <2>2
<1>5. ASSUME NEW t \in OpThreads, Op!Main(t) PROVE OpInv'
  <2> DEFINE n == Len(op_frames[t])
             o == op_frames[t][n].op
             at == IF o \in BlockOperations THEN "Finished" ELSE "main"
  <2>1. /\ op_frames[t] # <<>> /\ op_frames[t][n].at = "Executing"
        /\ mains' = [mains EXCEPT ![o] = IF @ = 2 THEN 2 ELSE @ + 1]
        /\ op_frames' = [op_frames EXCEPT ![t][n].at = at]
        /\ op_state' = IF at = "Finished" THEN [op_state EXCEPT ![o] = "Finished"] ELSE op_state
        /\ UNCHANGED <<dependencies, operations>>
    BY <1>5 DEF Op!Main, Op!Last, Op!queue
  <2>2. mains[o] = 0 /\ o \in Operations
    <3>1. op_frames[t] \in Seq(OpFrames) /\ n \in 1 .. Len(op_frames[t])
      BY <2>1 DEF OpInv, OpTypes
    <3>2. Started(op_frames[t][n], op_state, dependencies, mains) /\ op_frames[t][n] \in OpFrames
      BY <3>1 DEF OpInv
    <3>3. QED
      BY <2>1, <3>2 DEF Started, OpFrames
  <2>3. mains' = [mains EXCEPT ![o] = 1]
    BY <2>1, <2>2 DEF OpInv, OpTypes
  <2>4. at \in {"main", "Finished"}
    OBVIOUS
  <2> HIDE DEF at, o, n
  <2>5. QED
    BY <2>1, <2>3, <2>4, FrameStep DEF o, n
<1>6. ASSUME NEW t \in OpThreads, Op!MainReturns(t) PROVE OpInv'
  <2> DEFINE n == Len(op_frames[t])
             o == op_frames[t][n].op
  <2>1. /\ op_frames[t] # <<>> /\ op_frames[t][n].at # "Finished"
        /\ op_frames' = [op_frames EXCEPT ![t][n].at = "Finished"]
        /\ op_state' = [op_state EXCEPT ![o] = "Finished"]
        /\ UNCHANGED <<dependencies, operations, mains>>
    BY <1>6 DEF Op!MainReturns, Op!Last, Op!queue
  <2>2. op_state' = IF "Finished" = "Finished" THEN [op_state EXCEPT ![o] = "Finished"] ELSE op_state
    BY <2>1
  <2>3. QED
    BY <2>1, <2>2, FrameStep
<1>7. ASSUME NEW t \in OpThreads, Op!StartReturns(t) PROVE OpInv'
  BY <1>7, ReturnStep
<1>8. ASSUME NEW t \in OpThreads, NEW b \in BOOLEAN, Op!setSuspended(t, b) PROVE OpInv'
  <2>1. UNCHANGED <<op_state, op_cancelled, dependencies, operations, op_frames, mains>>
    BY <1>8, NothingDue
  <2>2. QED
    BY <1>1, <2>1, QuietStep
<1>9. ASSUME NEW os, Op!cancel(os) PROVE OpInv'
  BY <1>1, <1>9, QuietStep DEF Op!cancel, Op!queue
<1>10. ASSUME NEW o \in Operations, NEW d \in Operations,
              Op!addDependency(o, d) \/ Op!removeDependency(o, d)
       PROVE  OpInv'
  <2>1. UNCHANGED <<op_state, op_frames, mains, operations>>
    BY <1>10 DEF Op!addDependency, Op!removeDependency, Op!queue
  <2>2. dependencies' \in [Operations -> SUBSET Operations]
    BY <1>1, <1>10 DEF Op!addDependency, Op!removeDependency
  <2>3. \A p \in Operations : op_state[p] # "Ready" => dependencies'[p] \subseteq dependencies[p]
    BY <1>1, <1>10 DEF Op!addDependency, Op!removeDependency
  <2>4. QED
    BY <1>1, <2>1, <2>2, <2>3, QuietStep
<1>11. QED
  BY <1>2, <1>3, <1>4, <1>5, <1>6, <1>7, <1>8, <1>9, <1>10
  DEF Op!Next, Op!cancelAllOperations

\* However often an operation is started, added and resumed, by whatever threads, its
\* main is called once; one that the queue started has no unfinished dependency, then
\* or later; and the queue lists an operation only while the call that put it there is
\* in progress. For any number of threads and operations, and any nesting.
THEOREM OperationsOnce ==
    Op!Spec => [](/\ Op!TypeOK /\ Op!MainOnce
                  /\ Op!DependenciesFirst /\ Op!ListedInProgress)
<1>1. Op!Init => OpInv
  BY DEF Op!Init, OpInv, OpTypes, CallsOnce, Op!ToSet
<1>2. OpInv /\ [Op!Next]_(Op!vars) => OpInv'
  BY OpNext
<1>3. OpInv => /\ Op!TypeOK /\ Op!MainOnce /\ Op!DependenciesFirst /\ Op!ListedInProgress
  <2> SUFFICES ASSUME OpInv
               PROVE  /\ Op!TypeOK /\ Op!MainOnce /\ Op!DependenciesFirst /\ Op!ListedInProgress
    OBVIOUS
  <2>1. ASSUME NEW t \in OpThreads
        PROVE  Op!ToSet(op_frames[t]) = {op_frames[t][i] : i \in 1 .. Len(op_frames[t])}
               /\ op_frames[t] \in Seq(OpFrames)
    BY DEF OpInv, OpTypes, Op!ToSet
  <2>2. ASSUME NEW t \in OpThreads, NEW f \in Op!ToSet(op_frames[t])
        PROVE  f \in OpFrames /\ Started(f, op_state, dependencies, mains)
    BY <2>1 DEF OpInv
  <2>3. Op!TypeOK
    BY <2>2 DEF OpInv, OpTypes, OpFrames, Started, Op!TypeOK
  <2>4. Op!MainOnce
    BY DEF OpInv, OpTypes, Op!MainOnce
  <2>5. Op!DependenciesFirst
    BY <2>2 DEF Started, Op!DependenciesFirst, Op!Finished
  <2>6. Op!ListedInProgress
    <3> SUFFICES ASSUME NEW p \in Op!ToSet(operations)
                 PROVE  \E t \in OpThreads : \E f \in Op!ToSet(op_frames[t]) :
                           f.op = p /\ f.caller = "addOperation"
      BY DEF Op!ListedInProgress
    <3>1. PICK t \in OpThreads : \E i \in 1 .. Len(op_frames[t]) :
              op_frames[t][i].op = p /\ op_frames[t][i].caller = "addOperation"
      BY DEF OpInv
    <3>2. PICK i \in 1 .. Len(op_frames[t]) :
              op_frames[t][i].op = p /\ op_frames[t][i].caller = "addOperation"
      BY <3>1
    <3>3. op_frames[t][i] \in Op!ToSet(op_frames[t])
      BY <2>1
    <3>4. QED
      BY <3>2, <3>3
  <2>7. QED
    BY <2>3, <2>4, <2>5, <2>6
<1>4. QED
  BY <1>1, <1>2, <1>3, PTL DEF Op!Spec

(***************************************************************************)
(* NSThread objects and their references                                   *)
(***************************************************************************)
CONSTANTS ThreadObjs, Workers, Targets, Main, nil, NoObject
VARIABLES ns_threads, refs, target_refs, host, worker, main_threads,
          guest, guestTargets, started, wasted
NSThread == INSTANCE NSThreads WITH Threads <- ThreadObjs

\* NSThreads has the definition of Cardinality from FiniteSetsExt.
LEMMA SameCardinality ==
    ASSUME NEW S
    PROVE  NSThread!Cardinality(S) = Cardinality(S)
  BY DEF NSThread!Cardinality, Cardinality

\* A worker is in the helper of thread object t, or about to be.
HasWorker(t) == \E p \in NSThread!Running : worker[p].thread = t

Held(t) == (IF HasWorker(t) THEN 1 ELSE 0)
         + (IF t \in guest \/ (HasWorker(t) /\ host[t].owned) THEN 1 ELSE 0)

NSTypes ==
    /\ ns_threads \in [NSThread!Pthreads -> ThreadObjs \cup {NoObject}]
    /\ refs \in [ThreadObjs -> Nat]
    /\ target_refs \in [Targets -> Nat]
    /\ host \in [ThreadObjs -> NSThread!HostObject]
    /\ worker \in [Workers -> [phase : NSThread!Phases, thread : ThreadObjs \cup {NoObject}]]
    /\ guest \subseteq ThreadObjs /\ guestTargets \subseteq Targets /\ started \subseteq ThreadObjs
    /\ wasted \in [Targets -> Nat]

WorkersInv ==
    /\ \A p \in NSThread!Running :
          LET t == worker[p].thread
          IN  /\ t \in started /\ ns_threads[p] = t
              /\ host[t].target # nil /\ ~host[t].finished
    /\ \A p \in NSThread!Running, q \in NSThread!Running :
          worker[p].thread = worker[q].thread => p = q
    /\ \A p \in NSThread!Pthreads \ NSThread!Running : ns_threads[p] # NoObject =>
          host[ns_threads[p]].target = nil /\ refs[ns_threads[p]] = 1

\* An object made for a thread that asked who it is keeps its one reference.
ObjectsInv ==
    /\ \A t \in ThreadObjs : host[t].target # nil => refs[t] = Held(t)
    /\ \A t \in ThreadObjs : host[t].target = nil => t \notin guest /\ refs[t] \in {0, 1}
    /\ \A t \in ThreadObjs : refs[t] = 0 /\ t \notin started => host[t].target = nil
    /\ \A t \in guest : /\ ~host[t].owned
                        /\ t \in started => HasWorker(t) \/ host[t].finished
                        /\ t \notin started => ~host[t].finished

TargetsInv == \A x \in Targets :
    /\ IsFiniteSet(NSThread!Holders(x))
    /\ target_refs[x] = Cardinality(NSThread!Holders(x)) + wasted[x]
                            + (IF x \in guestTargets THEN 1 ELSE 0)

NSInv == NSTypes /\ WorkersInv /\ ObjectsInv /\ TargetsInv

LEMMA NSInitial ==
    ASSUME NSThread!MainAssumption, NSThread!Init
    PROVE  NSInv
<1>1. NSThread!Running = {} /\ \A t \in ThreadObjs : host[t].target = nil /\ ~host[t].owned
  BY DEF NSThread!Init, NSThread!Running, NSThread!Idle, NSThread!Fresh
<1>2. \A x \in Targets : NSThread!Holders(x) = {}
  BY <1>1 DEF NSThread!Init, NSThread!Holders, NSThread!MainAssumption
<1>3. IsFiniteSet({}) /\ Cardinality({}) = 0
  BY FS_EmptySet
<1>4. NSTypes
  BY DEF NSThread!Init, NSTypes, NSThread!HostObject, NSThread!Fresh, NSThread!Idle, NSThread!Phases
<1>5. TargetsInv
  BY <1>2, <1>3 DEF NSThread!Init, TargetsInv
<1>6. WorkersInv /\ ObjectsInv
  BY <1>1 DEF NSThread!Init, WorkersInv, ObjectsInv, HasWorker
<1>7. QED
  BY <1>4, <1>5, <1>6 DEF NSInv

\* The workers, of which at most one is a thread's own, are all in the set that
\* a thread's references are counted by.
LEMMA OneWorker ==
    ASSUME NSTypes, WorkersInv, NEW t
    PROVE  Cardinality({p \in NSThread!Running : worker[p].thread = t})
              = IF HasWorker(t) THEN 1 ELSE 0
<1> DEFINE W == {p \in NSThread!Running : worker[p].thread = t}
<1>1. CASE HasWorker(t)
  <2>1. PICK p \in W : TRUE
    BY <1>1 DEF HasWorker
  <2>2. W = {p}
    BY <2>1 DEF WorkersInv
  <2>3. QED
    BY <1>1, <2>2, FS_Singleton
<1>2. CASE ~HasWorker(t)
  <2>1. W = {}
    BY <1>2 DEF HasWorker
  <2>2. QED
    BY <1>2, <2>1, FS_EmptySet
<1>3. QED
  BY <1>1, <1>2

LEMMA NSBalanced ==
    ASSUME NSThread!MainAssumption, NSInv
    PROVE  NSThread!AliveWhileRunning /\ NSThread!CurrentIsOwn /\ NSThread!ReferencesBalanced
<1>1. ASSUME NEW p \in NSThread!Running
      PROVE  refs[worker[p].thread] > 0 /\ target_refs[host[worker[p].thread].target] > 0
  <2> DEFINE t == worker[p].thread
             x == host[t].target
  <2>1. t \in ThreadObjs /\ x \in Targets /\ HasWorker(t) /\ ~host[t].finished /\ x # nil
    BY DEF NSInv, NSTypes, WorkersInv, HasWorker, NSThread!HostObject
  <2>2. refs[t] = Held(t) /\ refs[t] > 0
    BY <2>1 DEF NSInv, ObjectsInv, Held
  <2>3. t \in NSThread!Holders(x)
    BY <2>1, <2>2 DEF NSThread!Holders
  <2>4. IsFiniteSet(NSThread!Holders(x)) /\ wasted[x] \in Nat
        /\ target_refs[x] = Cardinality(NSThread!Holders(x)) + wasted[x]
                            + (IF x \in guestTargets THEN 1 ELSE 0)
    BY <2>1 DEF NSInv, TargetsInv, NSTypes
  <2>5. Cardinality(NSThread!Holders(x)) \in Nat /\ Cardinality(NSThread!Holders(x)) # 0
    BY <2>3, <2>4, FS_CardinalityType, FS_EmptySet
  <2>6. QED
    BY <2>2, <2>4, <2>5
<1>2. NSThread!AliveWhileRunning
  BY <1>1 DEF NSThread!AliveWhileRunning
<1>3. NSThread!CurrentIsOwn
  <2>1. \A p \in NSThread!Running : ns_threads[p] = worker[p].thread
    BY DEF NSInv, WorkersInv
  <2>2. ASSUME NEW p \in NSThread!Pthreads, ns_threads[p] # NoObject PROVE refs[ns_threads[p]] > 0
    BY <1>1, <2>1, <2>2 DEF NSInv, WorkersInv
  <2>3. QED
    BY <2>1, <2>2 DEF NSThread!CurrentIsOwn
<1>4. ASSUME NEW t \in ThreadObjs, host[t].target # nil
      PROVE  refs[t] = Cardinality({p \in NSThread!Running : worker[p].thread = t})
                  + (IF t \in guest \/ \E p \in NSThread!Running :
                            worker[p].thread = t /\ host[t].owned THEN 1 ELSE 0)
  <2>1. (HasWorker(t) /\ host[t].owned) <=>
            \E p \in NSThread!Running : worker[p].thread = t /\ host[t].owned
    BY DEF HasWorker
  <2>2. refs[t] = Held(t)
    BY <1>4 DEF NSInv, ObjectsInv
  <2>3. QED
    BY <2>1, <2>2, OneWorker DEF Held, NSInv
<1>5. NSThread!ReferencesBalanced
  <2>1. \A x \in Targets : target_refs[x] = Cardinality(NSThread!Holders(x)) + wasted[x]
                                           + (IF x \in guestTargets THEN 1 ELSE 0)
    BY DEF NSInv, TargetsInv
  <2>2. \A t \in ThreadObjs : host[t].target # nil =>
           refs[t] = Cardinality({p \in NSThread!Running : worker[p].thread = t})
                     + (IF t \in guest \/ \E p \in NSThread!Running :
                            worker[p].thread = t /\ host[t].owned THEN 1 ELSE 0)
    BY <1>4
  <2>3. QED
    BY <2>1, <2>2, SameCardinality, Zenon DEF NSThread!ReferencesBalanced
<1>6. QED
  BY <1>2, <1>3, <1>5
-----------------------------------------------------------------------------
\* The invariant tells apart no more of an object and of a worker than this.
SameHosts(T) == \A t \in T : /\ host'[t].target = host[t].target
                            /\ host'[t].owned = host[t].owned
                            /\ host'[t].finished = host[t].finished

SameWorkers == /\ NSThread!Running' = NSThread!Running
               /\ \A p \in NSThread!Running : worker'[p].thread = worker[p].thread

\* A target's holders, and the count, are as before, or with t or without it.
LEMMA HoldersSame ==
    ASSUME TargetsInv, UNCHANGED <<target_refs, wasted, guestTargets>>,
           \A t \in ThreadObjs, x \in Targets :
              t \in NSThread!Holders(x)' <=> t \in NSThread!Holders(x)
    PROVE  TargetsInv'
<1>1. \A x \in Targets : NSThread!Holders(x)' = NSThread!Holders(x)
  BY DEF NSThread!Holders
<1>2. QED
  BY <1>1 DEF TargetsInv

WithHolder(t, x) ==
    \A u \in ThreadObjs, y \in Targets :
       u \in NSThread!Holders(y)' <=> u \in NSThread!Holders(y) \/ (u = t /\ y = x)

WithoutHolder(t, x) ==
    \A u \in ThreadObjs, y \in Targets :
       u \in NSThread!Holders(y)' <=> u \in NSThread!Holders(y) /\ ~(u = t /\ y = x)

LEMMA HolderAdded ==
    ASSUME TargetsInv, NSTypes, NEW t \in ThreadObjs, NEW x \in Targets,
           WithHolder(t, x),
           t \notin NSThread!Holders(x),
           target_refs' = [target_refs EXCEPT ![x] = @ + 1],
           UNCHANGED <<wasted, guestTargets>>
    PROVE  TargetsInv'
<1>1. /\ NSThread!Holders(x)' = NSThread!Holders(x) \cup {t}
      /\ \A y \in Targets \ {x} : NSThread!Holders(y)' = NSThread!Holders(y)
  BY DEF NSThread!Holders, WithHolder
<1>2. /\ IsFiniteSet(NSThread!Holders(x)')
      /\ Cardinality(NSThread!Holders(x)') = Cardinality(NSThread!Holders(x)) + 1
      /\ Cardinality(NSThread!Holders(x)) \in Nat
  BY <1>1, FS_AddElement, FS_CardinalityType DEF TargetsInv
<1>3. target_refs'[x] = Cardinality(NSThread!Holders(x)') + wasted'[x]
                          + (IF x \in guestTargets' THEN 1 ELSE 0)
  BY <1>2 DEF TargetsInv, NSTypes
<1>4. ASSUME NEW y \in Targets \ {x}
      PROVE  /\ IsFiniteSet(NSThread!Holders(y)')
             /\ target_refs'[y] = Cardinality(NSThread!Holders(y)') + wasted'[y]
                          + (IF y \in guestTargets' THEN 1 ELSE 0)
  BY <1>1, <1>4 DEF TargetsInv, NSTypes
<1>5. QED
  BY <1>2, <1>3, <1>4 DEF TargetsInv

\* A reference goes with the holder, or is lost with it.
LEMMA HolderRemoved ==
    ASSUME TargetsInv, NSTypes, NEW t \in ThreadObjs, NEW x \in Targets,
           WithoutHolder(t, x),
           t \in NSThread!Holders(x),
           \/ target_refs' = [target_refs EXCEPT ![x] = @ - 1] /\ UNCHANGED wasted
           \/ UNCHANGED target_refs /\ wasted' = [wasted EXCEPT ![x] = @ + 1],
           UNCHANGED guestTargets
    PROVE  TargetsInv' /\ target_refs' \in [Targets -> Nat]
<1>1. /\ NSThread!Holders(x)' = NSThread!Holders(x) \ {t}
      /\ \A y \in Targets \ {x} : NSThread!Holders(y)' = NSThread!Holders(y)
  BY DEF NSThread!Holders, WithoutHolder
<1>2. /\ IsFiniteSet(NSThread!Holders(x)')
      /\ Cardinality(NSThread!Holders(x)') = Cardinality(NSThread!Holders(x)) - 1
      /\ Cardinality(NSThread!Holders(x)) \in Nat /\ Cardinality(NSThread!Holders(x)') \in Nat
  BY <1>1, FS_RemoveElement, FS_CardinalityType DEF TargetsInv
<1>3. /\ target_refs'[x] = Cardinality(NSThread!Holders(x)') + wasted'[x]
                          + (IF x \in guestTargets' THEN 1 ELSE 0)
      /\ target_refs'[x] \in Nat
  <2>1. /\ target_refs[x] = Cardinality(NSThread!Holders(x)) + wasted[x]
                          + (IF x \in guestTargets THEN 1 ELSE 0)
        /\ wasted[x] \in Nat
    BY DEF TargetsInv, NSTypes
  <2>2. CASE target_refs' = [target_refs EXCEPT ![x] = @ - 1] /\ UNCHANGED wasted
    <3>1. target_refs'[x] = target_refs[x] - 1
      BY <2>2 DEF NSTypes
    <3>2. QED
      BY <1>2, <2>1, <2>2, <3>1
  <2>3. CASE UNCHANGED target_refs /\ wasted' = [wasted EXCEPT ![x] = @ + 1]
    <3>1. wasted'[x] = wasted[x] + 1
      BY <2>3 DEF NSTypes
    <3>2. QED
      BY <1>2, <2>1, <2>3, <3>1
  <2>4. QED
    BY <2>2, <2>3
<1>4. ASSUME NEW y \in Targets \ {x}
      PROVE  /\ IsFiniteSet(NSThread!Holders(y)')
             /\ target_refs'[y] = Cardinality(NSThread!Holders(y)') + wasted'[y]
                          + (IF y \in guestTargets' THEN 1 ELSE 0)
             /\ target_refs'[y] \in Nat
  BY <1>1, <1>4 DEF TargetsInv, NSTypes
<1>5. TargetsInv'
  BY <1>2, <1>3, <1>4 DEF TargetsInv
<1>6. QED
  BY <1>3, <1>4, <1>5 DEF NSTypes

\* Nobody's references or worker change.
LEMMA NSQuiet ==
    ASSUME NSInv, NSTypes', SameHosts(ThreadObjs), SameWorkers,
           UNCHANGED <<ns_threads, refs, target_refs, guest, guestTargets, started, wasted>>
    PROVE  NSInv'
<1>1. \A t \in ThreadObjs : HasWorker(t)' <=> HasWorker(t)
  BY DEF HasWorker, SameWorkers
<1>2. \A p \in NSThread!Running : worker[p].thread \in ThreadObjs
  BY DEF NSInv, WorkersInv, NSTypes
<1>3. \A p \in NSThread!Pthreads : ns_threads[p] # NoObject => ns_threads[p] \in ThreadObjs
  BY DEF NSInv, NSTypes
<1>4. WorkersInv'
  BY <1>1, <1>2, <1>3 DEF NSInv, WorkersInv, SameHosts, SameWorkers, NSThread!Pthreads
<1>5. ObjectsInv'
  <2>1. \A t \in ThreadObjs : Held(t)' = Held(t)
    BY <1>1 DEF Held, SameHosts
  <2>2. QED
    BY <1>1, <2>1 DEF NSInv, NSTypes, ObjectsInv, SameHosts
<1>6. TargetsInv'
  BY HoldersSame DEF NSInv, SameHosts, NSThread!Holders
<1>7. QED
  BY <1>4, <1>5, <1>6 DEF NSInv

\* The parts of the invariant, for the steps that change something.
LEMMA NSParts ==
    ASSUME NSThread!MainAssumption, NSInv
    PROVE  /\ ns_threads \in [NSThread!Pthreads -> ThreadObjs \cup {NoObject}]
           /\ refs \in [ThreadObjs -> Nat] /\ target_refs \in [Targets -> Nat]
           /\ host \in [ThreadObjs -> NSThread!HostObject]
           /\ worker \in [Workers -> [phase : NSThread!Phases, thread : ThreadObjs \cup {NoObject}]]
           /\ guest \subseteq ThreadObjs /\ guestTargets \subseteq Targets
           /\ started \subseteq ThreadObjs /\ wasted \in [Targets -> Nat]
           /\ NSThread!Running \subseteq Workers /\ Workers \subseteq NSThread!Pthreads
           /\ Main \notin Workers /\ Main \in NSThread!Pthreads
           /\ nil \notin Targets /\ NoObject \notin ThreadObjs
           /\ \A p \in NSThread!Running : /\ worker[p].thread \in started
                                           /\ ns_threads[p] = worker[p].thread
                                           /\ host[worker[p].thread].target # nil
                                           /\ ~host[worker[p].thread].finished
           /\ \A t \in NSThread!Unused : /\ t \in ThreadObjs /\ refs[t] = 0 /\ t \notin started
                                         /\ t \notin guest /\ ~HasWorker(t)
                                         /\ host[t].target = nil
                                         /\ \A p \in NSThread!Pthreads : ns_threads[p] # t
<1>1. /\ NSThread!Running \subseteq Workers /\ Workers \subseteq NSThread!Pthreads
      /\ Main \notin Workers /\ Main \in NSThread!Pthreads
      /\ nil \notin Targets /\ NoObject \notin ThreadObjs
  BY DEF NSThread!Running, NSThread!Pthreads, NSThread!MainAssumption
<1>2. \A p \in NSThread!Running : /\ worker[p].thread \in started
                                  /\ ns_threads[p] = worker[p].thread
                                  /\ host[worker[p].thread].target # nil
                                  /\ ~host[worker[p].thread].finished
  BY DEF NSInv, WorkersInv
<1>3. ASSUME NEW t \in NSThread!Unused
      PROVE  /\ t \in ThreadObjs /\ refs[t] = 0 /\ t \notin started
             /\ t \notin guest /\ ~HasWorker(t) /\ host[t].target = nil
             /\ \A p \in NSThread!Pthreads : ns_threads[p] # t
  <2>1. t \in ThreadObjs /\ refs[t] = 0 /\ t \notin started
    BY DEF NSThread!Unused
  <2>2. host[t].target = nil /\ t \notin guest /\ ~HasWorker(t)
    BY <1>2, <2>1 DEF NSInv, ObjectsInv, HasWorker
  <2>3. ASSUME NEW p \in NSThread!Pthreads PROVE ns_threads[p] # t
    BY <1>1, <1>2, <2>1, <2>2 DEF NSInv, WorkersInv
  <2>4. QED
    BY <2>1, <2>2, <2>3
<1>4. QED
  BY <1>1, <1>2, <1>3 DEF NSInv, NSTypes
\* An object that was not used yet: init, currentThread, or mainThread make one.
LEMMA NSMade ==
    ASSUME NSThread!MainAssumption, NSInv, NEW t \in NSThread!Unused,
           NEW x \in Targets \cup {nil},
           host'[t].target = x, ~host'[t].owned, ~host'[t].finished,
           host' \in [ThreadObjs -> NSThread!HostObject],
           SameHosts(ThreadObjs \ {t}),
           refs' = [refs EXCEPT ![t] = 1],
           \/ /\ x = nil /\ UNCHANGED <<guest, target_refs>>
              /\ UNCHANGED ns_threads \/ \E p \in NSThread!Pthreads \ NSThread!Running :
                                             ns_threads' = [ns_threads EXCEPT ![p] = t]
           \/ /\ x # nil /\ guest' = guest \cup {t}
              /\ target_refs' = [target_refs EXCEPT ![x] = @ + 1] /\ UNCHANGED ns_threads,
           UNCHANGED <<worker, guestTargets, started, wasted>>
    PROVE  NSInv'
<1>0. NSThread!Running' = NSThread!Running /\ \A u \in ThreadObjs : HasWorker(u)' <=> HasWorker(u)
  BY DEF NSThread!Running, HasWorker
<1>1. NSTypes'
  BY NSParts DEF NSTypes
<1>2. WorkersInv'
  BY <1>0, NSParts DEF NSInv, WorkersInv, SameHosts, NSThread!Pthreads
<1>3. ObjectsInv'
  <2>1. \A u \in ThreadObjs \ {t} : Held(u)' = Held(u) /\ refs'[u] = refs[u] /\ (u \in guest' <=> u \in guest)
    BY <1>0, NSParts DEF Held, SameHosts
  <2>2. refs'[t] = 1 /\ ~HasWorker(t)' /\ (t \in guest' <=> x # nil)
    BY <1>0, NSParts
  <2>3. x # nil => Held(t)' = 1
    BY <2>2 DEF Held
  <2>4. QED
    BY <1>0, <2>1, <2>2, <2>3, NSParts DEF NSInv, ObjectsInv, SameHosts
<1>4. TargetsInv'
  <2>1. WithHolder(t, x)
    BY NSParts DEF NSThread!Holders, WithHolder, SameHosts
  <2>2. \A y \in Targets : t \notin NSThread!Holders(y)
    BY NSParts DEF NSThread!Holders
  <2>3. CASE x = nil
    BY <2>1, <2>3, HoldersSame, NSParts DEF NSInv, WithHolder
  <2>4. CASE x # nil
    <3>1. /\ x \in Targets /\ t \in ThreadObjs /\ target_refs' = [target_refs EXCEPT ![x] = @ + 1]
          /\ UNCHANGED <<wasted, guestTargets>>
      BY <2>4, NSParts
    <3>2. QED
      <4>1. TargetsInv /\ NSTypes /\ t \notin NSThread!Holders(x)
        BY <2>2, <3>1 DEF NSInv
      <4>2. QED
        BY <2>1, <3>1, <4>1, HolderAdded
  <2>5. QED
    BY <2>3, <2>4
<1>5. QED
  BY <1>1, <1>2, <1>3, <1>4 DEF NSInv

\* Worker p takes the object t up, that the guest has or made for it.
LEMMA NSTaken ==
    ASSUME NSThread!MainAssumption, NSInv, NEW t \in ThreadObjs, NEW p \in Workers,
           NSThread!StartOn(t, p), t \notin started,
           host'[t].target # nil, ~host'[t].finished,
           SameHosts(ThreadObjs \ {t}),
           \/ /\ t \in guest /\ ~host'[t].owned /\ host'[t].target = host[t].target
              /\ refs' = [refs EXCEPT ![t] = @ + 1] /\ UNCHANGED target_refs
           \/ /\ t \in NSThread!Unused /\ host'[t].owned /\ host'[t].target \in guestTargets
              /\ refs' = [refs EXCEPT ![t] = 2]
              /\ target_refs' = [target_refs EXCEPT ![host'[t].target] = @ + 1],
           host' \in [ThreadObjs -> NSThread!HostObject],
           UNCHANGED <<guest, guestTargets, wasted>>
    PROVE  NSInv'
<1>1. /\ p \notin NSThread!Running
      /\ NSThread!Running' = NSThread!Running \cup {p} /\ worker'[p].thread = t
      /\ \A q \in NSThread!Running : worker'[q] = worker[q]
      /\ ns_threads' = [ns_threads EXCEPT ![p] = t] /\ started' = started \cup {t}
      /\ worker' \in [Workers -> [phase : NSThread!Phases, thread : ThreadObjs \cup {NoObject}]]
  BY NSParts DEF NSThread!StartOn, NSThread!Running, NSThread!Phases
<1>2. \A q \in NSThread!Running : worker[q].thread # t
  BY NSParts
<1>3. /\ HasWorker(t)' /\ ~HasWorker(t)
      /\ \A u \in ThreadObjs \ {t} : HasWorker(u)' <=> HasWorker(u)
  BY <1>1, <1>2 DEF HasWorker
<1>4. NSTypes'
  BY <1>1, NSParts DEF NSTypes
<1>5. WorkersInv'
  <2>1. ASSUME NEW q \in NSThread!Running'
        PROVE  /\ worker'[q].thread \in started' /\ ns_threads'[q] = worker'[q].thread
               /\ host'[worker'[q].thread].target # nil /\ ~host'[worker'[q].thread].finished
    <3>1. CASE q = p
      BY <1>1, <3>1, NSParts
    <3>2. CASE q # p
      BY <1>1, <1>2, <3>2, NSParts DEF SameHosts
    <3>3. QED
      BY <3>1, <3>2
  <2>2. ASSUME NEW q \in NSThread!Running', NEW r \in NSThread!Running', worker'[q].thread = worker'[r].thread
        PROVE  q = r
    BY <1>1, <1>2, <2>2 DEF NSInv, WorkersInv
  <2>3. ASSUME NEW q \in NSThread!Pthreads \ NSThread!Running', ns_threads'[q] # NoObject
        PROVE  host'[ns_threads'[q]].target = nil /\ refs'[ns_threads'[q]] = 1
    <3>1. q # p /\ q \notin NSThread!Running /\ ns_threads'[q] = ns_threads[q] /\ ns_threads[q] \in ThreadObjs
      BY <1>1, <2>3, NSParts
    <3>2. host[ns_threads[q]].target = nil /\ refs[ns_threads[q]] = 1
      BY <2>3, <3>1 DEF NSInv, WorkersInv
    <3>3. ns_threads[q] # t
      BY <2>3, <3>1, <3>2, NSParts DEF NSInv, ObjectsInv
    <3>4. QED
      BY <3>1, <3>2, <3>3, NSParts DEF SameHosts
  <2>4. QED
    BY <2>1, <2>2, <2>3 DEF WorkersInv, NSThread!Pthreads
<1>6. ObjectsInv'
  <2>1. \A u \in ThreadObjs \ {t} : Held(u)' = Held(u) /\ refs'[u] = refs[u]
    BY <1>3, NSParts DEF Held, SameHosts
  <2>2. refs'[t] = Held(t)' /\ refs'[t] # 0
    <3>1. CASE t \in guest
      <4>1. host[t].target # nil /\ refs[t] = Held(t)
        BY <3>1, NSParts DEF NSInv, ObjectsInv
      <4>2. refs[t] = 1 /\ refs'[t] = 2
        BY <1>3, <3>1, <4>1, NSParts DEF Held
      <4>3. QED
        BY <1>3, <3>1, <4>2 DEF Held
    <3>2. CASE t \notin guest
      BY <1>3, <3>2, NSParts DEF Held
    <3>3. QED
      BY <3>1, <3>2
  <2>3. t \in guest => ~host'[t].owned
    BY NSParts
  <2>4. QED
    <3>1. \A u \in ThreadObjs \ {t} : u \in started' <=> u \in started
      BY <1>1
    <3>2. HasWorker(t)' /\ host'[t].target # nil /\ guest' = guest
      BY <1>3
    <3>3. \A u \in ThreadObjs : host'[u].target # nil => refs'[u] = Held(u)'
      BY <2>1, <2>2 DEF NSInv, ObjectsInv, SameHosts
    <3>4. \A u \in ThreadObjs : host'[u].target = nil => u \notin guest' /\ refs'[u] \in {0, 1}
      BY <2>1, <3>2 DEF NSInv, ObjectsInv, SameHosts
    <3>5. \A u \in ThreadObjs : refs'[u] = 0 /\ u \notin started' => host'[u].target = nil
      BY <2>1, <2>2, <3>1 DEF NSInv, ObjectsInv, SameHosts
    <3>6. \A u \in guest' : /\ ~host'[u].owned
                            /\ u \in started' => HasWorker(u)' \/ host'[u].finished
                            /\ u \notin started' => ~host'[u].finished
      BY <1>1, <1>3, <2>3, <3>1, <3>2, NSParts DEF NSInv, ObjectsInv, SameHosts
    <3>7. QED
      BY <3>3, <3>4, <3>5, <3>6 DEF ObjectsInv
<1>7. TargetsInv'
  <2>1. CASE t \in guest
    <3>1. /\ refs[t] > 0 /\ host'[t].target = host[t].target /\ ~host[t].finished
          /\ refs'[t] > 0 /\ UNCHANGED <<target_refs, wasted, guestTargets>>
      BY <2>1, NSParts DEF NSInv, ObjectsInv, Held
    <3>2. \A u \in ThreadObjs, y \in Targets : u \in NSThread!Holders(y)' <=> u \in NSThread!Holders(y)
      BY <3>1, NSParts DEF NSThread!Holders, SameHosts
    <3>3. QED
      BY <3>1, <3>2, HoldersSame DEF NSInv
  <2>2. CASE t \notin guest
    <3>0. PICK x : x = host'[t].target
      OBVIOUS
    <3>1. /\ refs[t] = 0 /\ x \in Targets /\ refs' = [refs EXCEPT ![t] = 2]
          /\ target_refs' = [target_refs EXCEPT ![x] = @ + 1]
      BY <2>2, <3>0, NSParts
    <3>2. WithHolder(t, x)
      BY <3>0, <3>1, NSParts DEF NSThread!Holders, WithHolder, SameHosts
    <3>3. t \notin NSThread!Holders(x)
      BY <3>1 DEF NSThread!Holders
    <3>4. QED
      BY <3>1, <3>2, <3>3, HolderAdded DEF NSInv
  <2>3. QED
    BY <2>1, <2>2
<1>8. QED
  BY <1>4, <1>5, <1>6, <1>7 DEF NSInv
\* Worker p is done with its object.
LEMMA NSDone ==
    ASSUME NSThread!MainAssumption, NSInv, NEW p \in Workers, NSThread!HelperReturns(p)
    PROVE  NSInv'
<1>0. PICK t, x : t = worker[p].thread /\ x = host[t].target
  OBVIOUS
<1>1. /\ p \in NSThread!Running /\ t \in ThreadObjs /\ t \in started /\ x \in Targets
      /\ HasWorker(t) /\ ~host[t].finished /\ host[t] \in NSThread!HostObject
      /\ x # nil
  <2>1. p \in NSThread!Running
    BY DEF NSThread!HelperReturns, NSThread!Running
  <2>2. QED
    BY <1>0, <2>1, NSParts DEF HasWorker, NSThread!HostObject
<1>2. /\ host' = [host EXCEPT ![t] = [@ EXCEPT !.finished = TRUE, !.executing = FALSE]]
      /\ target_refs' = [target_refs EXCEPT ![x] = @ - 1]
      /\ refs' = [refs EXCEPT ![t] = @ - NSThread!ReleasedByHelper(t)]
      /\ ns_threads' = [ns_threads EXCEPT ![p] = NoObject]
      /\ worker' = [worker EXCEPT ![p] = [phase |-> "ended", thread |-> NoObject]]
      /\ UNCHANGED <<guest, guestTargets, started, wasted>>
  BY <1>0, <1>1, NSParts DEF NSThread!HelperReturns
<1>3. /\ host'[t].target = x /\ host'[t].owned = host[t].owned /\ host'[t].finished
      /\ host' \in [ThreadObjs -> NSThread!HostObject]
      /\ SameHosts(ThreadObjs \ {t})
  BY <1>0, <1>1, <1>2, NSParts DEF NSThread!HostObject, SameHosts
<1>4. /\ NSThread!Running' = NSThread!Running \ {p}
      /\ \A q \in NSThread!Running \ {p} : worker'[q] = worker[q] /\ worker[q].thread # t
      /\ worker' \in [Workers -> [phase : NSThread!Phases, thread : ThreadObjs \cup {NoObject}]]
  BY <1>0, <1>1, <1>2, NSParts DEF NSThread!Running, NSThread!Phases, NSInv, WorkersInv
<1>5. /\ ~HasWorker(t)' /\ \A u \in ThreadObjs \ {t} : HasWorker(u)' <=> HasWorker(u)
  BY <1>0, <1>1, <1>4 DEF HasWorker
<1>6. /\ refs[t] = Held(t) /\ refs[t] > 0
      /\ refs'[t] = IF t \in guest THEN 1 ELSE 0
      /\ refs' \in [ThreadObjs -> Nat]
  <2>1. refs[t] = Held(t) /\ (t \in guest => ~host[t].owned)
    BY <1>0, <1>1 DEF NSInv, ObjectsInv
  <2>2. refs'[t] = refs[t] - NSThread!ReleasedByHelper(t)
    BY <1>1, <1>2, NSParts
  <2>3. refs'[t] = IF t \in guest THEN 1 ELSE 0
    BY <1>1, <2>1, <2>2 DEF Held, NSThread!ReleasedByHelper
  <2>4. refs[t] > 0
    BY <1>1, <2>1 DEF Held
  <2>5. QED
    BY <1>1, <1>2, <2>1, <2>3, <2>4, NSParts
<1>7. TargetsInv' /\ target_refs' \in [Targets -> Nat]
  <2>1. WithoutHolder(t, x)
    BY <1>0, <1>1, <1>2, <1>3, NSParts DEF NSThread!Holders, WithoutHolder, SameHosts
  <2>2. t \in NSThread!Holders(x)
    BY <1>0, <1>1, <1>6 DEF NSThread!Holders
  <2>3. QED
    BY <1>1, <1>2, <2>1, <2>2, HolderRemoved DEF NSInv
<1>8. NSTypes'
  BY <1>2, <1>3, <1>4, <1>6, <1>7, NSParts DEF NSTypes
<1>9. WorkersInv'
  <2>1. ASSUME NEW q \in NSThread!Running'
        PROVE  /\ worker'[q].thread \in started' /\ ns_threads'[q] = worker'[q].thread
               /\ host'[worker'[q].thread].target # nil /\ ~host'[worker'[q].thread].finished
    BY <1>2, <1>3, <1>4, NSParts DEF SameHosts
  <2>2. ASSUME NEW q \in NSThread!Running', NEW r \in NSThread!Running', worker'[q].thread = worker'[r].thread
        PROVE  q = r
    BY <1>4, <2>2 DEF NSInv, WorkersInv
  <2>3. ASSUME NEW q \in NSThread!Pthreads \ NSThread!Running', ns_threads'[q] # NoObject
        PROVE  host'[ns_threads'[q]].target = nil /\ refs'[ns_threads'[q]] = 1
    <3>1. q # p /\ q \notin NSThread!Running /\ ns_threads'[q] = ns_threads[q] /\ ns_threads[q] \in ThreadObjs
      BY <1>1, <1>2, <1>4, <2>3, NSParts
    <3>2. host[ns_threads[q]].target = nil /\ refs[ns_threads[q]] = 1
      BY <2>3, <3>1 DEF NSInv, WorkersInv
    <3>3. ns_threads[q] # t
      BY <1>0, <1>1, <3>2
    <3>4. QED
      BY <1>2, <1>3, <3>1, <3>2, <3>3, NSParts DEF SameHosts
  <2>4. QED
    BY <2>1, <2>2, <2>3 DEF WorkersInv, NSThread!Pthreads
<1>10. ObjectsInv'
  <2>1. \A u \in ThreadObjs \ {t} : Held(u)' = Held(u) /\ refs'[u] = refs[u]
    BY <1>2, <1>3, <1>5, NSParts DEF Held, SameHosts
  <2>2. Held(t)' = refs'[t]
    BY <1>2, <1>5, <1>6 DEF Held
  <2>3. \A u \in ThreadObjs : host'[u].target # nil => refs'[u] = Held(u)'
    BY <2>1, <2>2, <1>3 DEF NSInv, ObjectsInv, SameHosts
  <2>4. \A u \in ThreadObjs : host'[u].target = nil => u \notin guest' /\ refs'[u] \in {0, 1}
    BY <1>1, <1>2, <1>3, <2>1 DEF NSInv, ObjectsInv, SameHosts
  <2>5. \A u \in ThreadObjs : refs'[u] = 0 /\ u \notin started' => host'[u].target = nil
    BY <1>1, <1>2, <1>3, <2>1 DEF NSInv, ObjectsInv, SameHosts
  <2>6. \A u \in guest' : /\ ~host'[u].owned
                          /\ u \in started' => HasWorker(u)' \/ host'[u].finished
                          /\ u \notin started' => ~host'[u].finished
    BY <1>1, <1>2, <1>3, <1>5, NSParts DEF NSInv, ObjectsInv, SameHosts
  <2>7. QED
    BY <2>3, <2>4, <2>5, <2>6 DEF ObjectsInv
<1>11. QED
  BY <1>7, <1>8, <1>9, <1>10 DEF NSInv

\* The guest gives a thread up.
LEMMA NSGivenUp ==
    ASSUME NSThread!MainAssumption, NSInv, NEW t \in guest, NSThread!GuestReleases(t)
    PROVE  NSInv'
<1>0. PICK x : x = host[t].target
  OBVIOUS
<1>1. t \in ThreadObjs /\ x \in Targets /\ x # nil /\ refs[t] = Held(t) /\ refs[t] > 0 /\ ~host[t].owned
  BY <1>0, NSParts DEF NSInv, ObjectsInv, Held, NSThread!HostObject
<1>2. /\ guest' = guest \ {t} /\ refs' = [refs EXCEPT ![t] = @ - 1]
      /\ wasted' = IF t \in started THEN wasted ELSE [wasted EXCEPT ![x] = @ + 1]
      /\ started' = started \cup {t}
      /\ UNCHANGED <<ns_threads, target_refs, host, worker, guestTargets>>
  BY <1>0 DEF NSThread!GuestReleases
<1>3. NSThread!Running' = NSThread!Running /\ \A u \in ThreadObjs : HasWorker(u)' <=> HasWorker(u)
  BY <1>2 DEF NSThread!Running, HasWorker
<1>4. refs'[t] = refs[t] - 1 /\ refs'[t] = Held(t)' /\ refs' \in [ThreadObjs -> Nat]
  <2>1. refs'[t] = refs[t] - 1
    BY <1>1, <1>2, NSParts
  <2>2. Held(t) = Held(t)' + 1
    BY <1>1, <1>2, <1>3 DEF Held
  <2>3. Held(t)' \in Nat
    BY DEF Held
  <2>4. QED
    BY <1>1, <1>2, <2>1, <2>2, <2>3, NSParts
<1>5. NSTypes'
  BY <1>1, <1>2, <1>4, NSParts DEF NSTypes
<1>6. WorkersInv'
  BY <1>0, <1>1, <1>2, <1>3, NSParts DEF NSInv, WorkersInv, NSThread!Pthreads
<1>7. ObjectsInv'
  <2>1. \A u \in ThreadObjs \ {t} : Held(u)' = Held(u) /\ refs'[u] = refs[u]
    BY <1>2, <1>3, NSParts DEF Held
  <2>2. QED
    BY <1>1, <1>2, <1>3, <1>4, <2>1, NSParts DEF NSInv, ObjectsInv
<1>8. TargetsInv'
  <2>1. CASE t \in started
    <3>1. HasWorker(t) \/ host[t].finished
      BY <2>1 DEF NSInv, ObjectsInv
    <3>2. host[t].finished \/ refs'[t] > 0
      BY <1>1, <1>3, <1>4, <3>1 DEF Held
    <3>3. \A u \in ThreadObjs, y \in Targets : u \in NSThread!Holders(y)' <=> u \in NSThread!Holders(y)
      BY <1>0, <1>1, <1>2, <3>2, NSParts DEF NSThread!Holders
    <3>4. QED
      BY <1>2, <2>1, <3>3, HoldersSame DEF NSInv
  <2>2. CASE t \notin started
    <3>1. ~HasWorker(t) /\ ~host[t].finished
      BY <2>2, NSParts DEF NSInv, ObjectsInv, HasWorker
    <3>2. refs'[t] = 0
      BY <1>1, <1>2, <1>3, <1>4, <3>1 DEF Held
    <3>3. WithoutHolder(t, x)
      BY <1>0, <1>1, <1>2, <3>2, NSParts DEF NSThread!Holders, WithoutHolder
    <3>4. t \in NSThread!Holders(x)
      BY <1>0, <1>1, <3>1 DEF NSThread!Holders
    <3>5. UNCHANGED target_refs /\ wasted' = [wasted EXCEPT ![x] = @ + 1]
      BY <1>2, <2>2
    <3>6. QED
      <4>1. /\ TargetsInv /\ NSTypes /\ UNCHANGED guestTargets
            /\ t \in ThreadObjs /\ x \in Targets
            /\ \/ target_refs' = [target_refs EXCEPT ![x] = @ - 1] /\ UNCHANGED wasted
               \/ UNCHANGED target_refs /\ wasted' = [wasted EXCEPT ![x] = @ + 1]
        BY <1>1, <1>2, <3>5 DEF NSInv
      <4>2. QED
        BY <3>3, <3>4, <4>1, HolderRemoved, Zenon
  <2>3. QED
    BY <2>1, <2>2
<1>9. QED
  BY <1>5, <1>6, <1>7, <1>8 DEF NSInv
LEMMA NSStep ==
    ASSUME NSThread!MainAssumption, NSInv, [NSThread!Next]_(NSThread!vars)
    PROVE  NSInv'
<1>1. CASE UNCHANGED NSThread!vars
  <2>1. /\ SameHosts(ThreadObjs) /\ SameWorkers /\ NSTypes'
        /\ UNCHANGED <<ns_threads, refs, target_refs, guest, guestTargets, started, wasted>>
    BY <1>1 DEF NSThread!vars, SameHosts, SameWorkers, NSThread!Running, NSInv, NSTypes
  <2>2. QED
    BY <2>1, NSQuiet
<1>2. ASSUME NEW t \in ThreadObjs, NEW x \in Targets, NSThread!initWithTarget(t, x)
      PROVE  NSInv'
  <2>1. /\ t \in NSThread!Unused /\ refs' = [refs EXCEPT ![t] = 1] /\ x # nil
        /\ host' = [host EXCEPT ![t] = [NSThread!Fresh EXCEPT !.target = x]]
        /\ target_refs' = [target_refs EXCEPT ![x] = @ + 1] /\ guest' = guest \cup {t}
        /\ UNCHANGED <<ns_threads, worker, guestTargets, started, wasted>>
    BY <1>2, NSParts DEF NSThread!initWithTarget
  <2>2. /\ [NSThread!Fresh EXCEPT !.target = x] \in NSThread!HostObject
        /\ [NSThread!Fresh EXCEPT !.target = x].target = x
        /\ ~[NSThread!Fresh EXCEPT !.target = x].owned
        /\ ~[NSThread!Fresh EXCEPT !.target = x].finished
    BY DEF NSThread!Fresh, NSThread!HostObject
  <2>3. /\ host'[t].target = x /\ ~host'[t].owned /\ ~host'[t].finished
        /\ host' \in [ThreadObjs -> NSThread!HostObject] /\ SameHosts(ThreadObjs \ {t})
    BY <2>1, <2>2, NSParts DEF SameHosts
  <2>4. QED
    BY <2>1, <2>3, NSMade
<1>3. ASSUME NEW t \in ThreadObjs, NEW x \in Targets, NEW p \in Workers,
             NSThread!detach_new_thread(t, x, p)
      PROVE  NSInv'
  <2>1. /\ t \in NSThread!Unused /\ refs' = [refs EXCEPT ![t] = 2] /\ x \in guestTargets
        /\ NSThread!StartOn(t, p) /\ x # nil /\ t \notin started
        /\ host' = [host EXCEPT ![t] = [NSThread!Fresh EXCEPT !.target = x, !.owned = TRUE]]
        /\ target_refs' = [target_refs EXCEPT ![x] = @ + 1]
        /\ UNCHANGED <<guest, guestTargets, wasted>>
    BY <1>3, NSParts DEF NSThread!detach_new_thread
  <2> DEFINE object == [NSThread!Fresh EXCEPT !.target = x, !.owned = TRUE]
  <2>2. object \in NSThread!HostObject /\ object.target = x /\ object.owned /\ ~object.finished
    BY DEF NSThread!Fresh, NSThread!HostObject
  <2>3. host'[t] = object /\ SameHosts(ThreadObjs \ {t}) /\ host' \in [ThreadObjs -> NSThread!HostObject]
    BY <2>1, <2>2, NSParts DEF SameHosts
  <2> HIDE DEF object
  <2>4. /\ host'[t].target = x /\ host'[t].target # nil /\ host'[t].owned /\ ~host'[t].finished
        /\ host'[t].target \in guestTargets
        /\ target_refs' = [target_refs EXCEPT ![host'[t].target] = @ + 1]
    BY <2>1, <2>2, <2>3
  <2>5. QED
    BY <2>1, <2>3, <2>4, NSTaken
<1>4. ASSUME NEW t \in ThreadObjs, NEW p \in Workers, NSThread!start(t, p)
      PROVE  NSInv'
  <2>1. /\ t \in guest /\ t \notin started /\ NSThread!StartOn(t, p) /\ host[t].target # nil
        /\ refs' = [refs EXCEPT ![t] = @ + 1] /\ UNCHANGED <<host, target_refs, guest, guestTargets, wasted>>
    BY <1>4 DEF NSThread!start
  <2>2. ~host[t].owned /\ ~host[t].finished
    BY <2>1 DEF NSInv, ObjectsInv
  <2>3. SameHosts(ThreadObjs \ {t}) /\ host' \in [ThreadObjs -> NSThread!HostObject]
    BY <2>1, NSParts DEF SameHosts
  <2>4. /\ host'[t].target # nil /\ ~host'[t].owned /\ ~host'[t].finished
        /\ host'[t].target = host[t].target
    BY <2>1, <2>2
  <2>5. QED
    BY <2>1, <2>3, <2>4, NSTaken
\* An object for a thread that asks which it is, with no target.
<1>a. ASSUME NEW t \in NSThread!Unused, NEW main \in BOOLEAN,
             host' = [host EXCEPT ![t] = [NSThread!Fresh EXCEPT !.is_main_thread = main]]
      PROVE  /\ host'[t].target = nil /\ ~host'[t].owned /\ ~host'[t].finished
             /\ host' \in [ThreadObjs -> NSThread!HostObject] /\ SameHosts(ThreadObjs \ {t})
  <2> DEFINE object == [NSThread!Fresh EXCEPT !.is_main_thread = main]
  <2>1. object \in NSThread!HostObject /\ object.target = nil /\ ~object.owned /\ ~object.finished
    BY DEF NSThread!Fresh, NSThread!HostObject
  <2>2. host'[t] = object /\ SameHosts(ThreadObjs \ {t}) /\ host' \in [ThreadObjs -> NSThread!HostObject]
    BY <1>a, <2>1, NSParts DEF SameHosts
  <2> HIDE DEF object
  <2>3. QED
    BY <2>1, <2>2
<1>5. ASSUME NEW t \in ThreadObjs, NEW p \in NSThread!Pthreads, NSThread!currentThread(p, t)
      PROVE  NSInv'
  <2>1. /\ t \in NSThread!Unused /\ ns_threads[p] = NoObject
        /\ ns_threads' = [ns_threads EXCEPT ![p] = t] /\ refs' = [refs EXCEPT ![t] = 1]
        /\ (p = Main) \in BOOLEAN
        /\ host' = [host EXCEPT ![t] = [NSThread!Fresh EXCEPT !.is_main_thread = (p = Main)]]
        /\ UNCHANGED <<target_refs, worker, guest, guestTargets, started, wasted>>
    BY <1>5 DEF NSThread!currentThread
  <2>2. p \notin NSThread!Running
    BY <2>1, NSParts
  <2>3. /\ host'[t].target = nil /\ ~host'[t].owned /\ ~host'[t].finished
        /\ host' \in [ThreadObjs -> NSThread!HostObject] /\ SameHosts(ThreadObjs \ {t})
    BY <1>a, <2>1
  <2>4. QED
    BY <2>1, <2>2, <2>3, NSMade
<1>6. ASSUME NEW t \in ThreadObjs, NSThread!mainThread(t)
      PROVE  NSInv'
  <2>1. CASE NSThread!MarkedMain # {}
    <3>1. /\ SameHosts(ThreadObjs) /\ SameWorkers /\ NSTypes'
          /\ UNCHANGED <<ns_threads, refs, target_refs, guest, guestTargets, started, wasted>>
      BY <1>6, <2>1 DEF NSThread!mainThread, SameHosts, SameWorkers, NSThread!Running, NSInv, NSTypes
    <3>2. QED
      BY <3>1, NSQuiet
  <2>2. CASE ~(NSThread!MarkedMain # {})
    <3>1. /\ t \in NSThread!Unused /\ refs' = [refs EXCEPT ![t] = 1]
          /\ host' = [host EXCEPT ![t] = [NSThread!Fresh EXCEPT !.is_main_thread = TRUE]]
          /\ UNCHANGED <<ns_threads, target_refs, worker, guest, guestTargets, started, wasted>>
      BY <1>6, <2>2 DEF NSThread!mainThread
    <3>2. /\ host'[t].target = nil /\ ~host'[t].owned /\ ~host'[t].finished
          /\ host' \in [ThreadObjs -> NSThread!HostObject] /\ SameHosts(ThreadObjs \ {t})
      BY <1>a, <3>1
    <3>3. QED
      BY <3>1, <3>2, NSMade
  <2>3. QED
    BY <2>1, <2>2
\* The flags that the invariant does not look at.
<1>f. ASSUME NEW t \in ThreadObjs,
             \/ host' = [host EXCEPT ![t] = [@ EXCEPT !.cancelled = TRUE]]
             \/ host' = [host EXCEPT ![t] = [@ EXCEPT !.executing = TRUE]]
      PROVE  SameHosts(ThreadObjs) /\ host' \in [ThreadObjs -> NSThread!HostObject]
  <2>1. PICK h : h = host[t] /\ h \in NSThread!HostObject
    BY NSParts
  <2>2. PICK g : /\ g = [h EXCEPT !.cancelled = TRUE] \/ g = [h EXCEPT !.executing = TRUE]
                 /\ host' = [host EXCEPT ![t] = g]
    BY <1>f, <2>1
  <2>3. /\ g \in NSThread!HostObject
        /\ g.target = h.target /\ g.owned = h.owned /\ g.finished = h.finished
    BY <2>1, <2>2 DEF NSThread!HostObject
  <2>4. host'[t] = g /\ \A u \in ThreadObjs \ {t} : host'[u] = host[u]
    BY <2>2, NSParts
  <2>5. host' \in [ThreadObjs -> NSThread!HostObject]
    BY <2>2, <2>3, NSParts
  <2>6. QED
    BY <2>1, <2>3, <2>4, <2>5 DEF SameHosts
<1>7. ASSUME NEW t \in guest, NSThread!cancel(t)
      PROVE  NSInv'
  <2>1. /\ host' = [host EXCEPT ![t] = [@ EXCEPT !.cancelled = TRUE]] /\ t \in ThreadObjs
        /\ UNCHANGED <<ns_threads, refs, target_refs, worker, guest, guestTargets, started, wasted>>
    BY <1>7, NSParts DEF NSThread!cancel
  <2>2. SameHosts(ThreadObjs) /\ host' \in [ThreadObjs -> NSThread!HostObject]
    BY <1>f, <2>1, NSParts, Zenon
  <2>3. SameWorkers /\ NSTypes'
    BY <2>1, <2>2, NSParts DEF SameWorkers, NSThread!Running, NSTypes
  <2>4. QED
    BY <2>1, <2>2, <2>3, NSQuiet
<1>8. ASSUME NEW x \in Targets, NSThread!GuestReleasesTarget(x)
      PROVE  NSInv'
  <2>1. /\ x \in guestTargets /\ guestTargets' = guestTargets \ {x}
        /\ target_refs' = [target_refs EXCEPT ![x] = @ - 1]
        /\ UNCHANGED <<ns_threads, refs, host, worker, guest, started, wasted>>
    BY <1>8 DEF NSThread!GuestReleasesTarget
  <2>2. /\ \A y \in Targets : NSThread!Holders(y)' = NSThread!Holders(y)
        /\ NSThread!Running' = NSThread!Running
        /\ \A t \in ThreadObjs : HasWorker(t)' <=> HasWorker(t)
    BY <2>1 DEF NSThread!Holders, NSThread!Running, HasWorker
  <2>3. ASSUME NEW y \in Targets
        PROVE  /\ IsFiniteSet(NSThread!Holders(y)')
               /\ target_refs'[y] = Cardinality(NSThread!Holders(y)') + wasted'[y]
                            + (IF y \in guestTargets' THEN 1 ELSE 0)
               /\ target_refs'[y] \in Nat
    <3>1. /\ IsFiniteSet(NSThread!Holders(y)) /\ Cardinality(NSThread!Holders(y)) \in Nat
          /\ target_refs[y] = Cardinality(NSThread!Holders(y)) + wasted[y]
                            + (IF y \in guestTargets THEN 1 ELSE 0)
          /\ wasted[y] \in Nat
      BY FS_CardinalityType DEF NSInv, TargetsInv, NSTypes
    <3>2. target_refs'[y] = IF y = x THEN target_refs[y] - 1 ELSE target_refs[y]
      BY <2>1, NSParts
    <3>3. QED
      BY <2>1, <2>2, <3>1, <3>2
  <2>4. TargetsInv'
    BY <2>3 DEF TargetsInv
  <2>5. NSTypes'
    BY <2>1, <2>3, NSParts DEF NSTypes
  <2>6. WorkersInv' /\ ObjectsInv'
    <3>1. WorkersInv'
      BY <2>1, <2>2 DEF NSInv, WorkersInv, NSThread!Pthreads
    <3>2. \A t \in ThreadObjs : Held(t)' = Held(t)
      BY <2>1, <2>2 DEF Held
    <3>3. ObjectsInv'
      BY <2>1, <2>2, <3>2, NSParts DEF NSInv, ObjectsInv
    <3>4. QED
      BY <3>1, <3>3
  <2>7. QED
    BY <2>4, <2>5, <2>6 DEF NSInv
<1>9. ASSUME NEW p \in Workers, NSThread!InvocationHelper(p)
      PROVE  NSInv'
  <2>1. /\ worker[p].phase = "created" /\ p \in NSThread!Running
        /\ worker' = [worker EXCEPT ![p] = [@ EXCEPT !.phase = "main"]]
        /\ host' = [host EXCEPT ![worker[p].thread] = [@ EXCEPT !.executing = TRUE]]
        /\ worker[p].thread \in ThreadObjs
        /\ UNCHANGED <<ns_threads, refs, target_refs, guest, guestTargets, started, wasted>>
    BY <1>9, NSParts DEF NSThread!InvocationHelper, NSThread!Running
  <2>2. SameHosts(ThreadObjs) /\ host' \in [ThreadObjs -> NSThread!HostObject]
    BY <1>f, <2>1, NSParts, Zenon
  <2>3. /\ SameWorkers
        /\ worker' \in [Workers -> [phase : NSThread!Phases, thread : ThreadObjs \cup {NoObject}]]
    BY <2>1, NSParts DEF SameWorkers, NSThread!Running, NSThread!Phases
  <2>4. QED
    BY <2>1, <2>2, <2>3, NSParts, NSQuiet DEF NSTypes
<1>10. ASSUME NEW p \in Workers, NSThread!ForeignStarts(p) \/ NSThread!ForeignEnds(p)
       PROVE  NSInv'
  <2>1. PICK phase \in {"foreign", "ended"} :
          /\ worker' = [worker EXCEPT ![p] = [phase |-> phase, thread |-> NoObject]]
          /\ p \notin NSThread!Running
          /\ UNCHANGED <<ns_threads, refs, target_refs, host, guest, guestTargets, started, wasted>>
    BY <1>10 DEF NSThread!ForeignStarts, NSThread!ForeignEnds, NSThread!Running
  <2>2. /\ SameWorkers /\ SameHosts(ThreadObjs)
        /\ worker' \in [Workers -> [phase : NSThread!Phases, thread : ThreadObjs \cup {NoObject}]]
    BY <2>1, NSParts DEF SameWorkers, SameHosts, NSThread!Running, NSThread!Phases
  <2>3. QED
    BY <2>1, <2>2, NSParts, NSQuiet DEF NSTypes
<1>11. QED
  BY <1>1, <1>2, <1>3, <1>4, <1>5, <1>6, <1>7, <1>8, <1>9, <1>10, NSDone, NSGivenUp
  DEF NSThread!Next, NSThread!cancel, NSThread!GuestReleases

\* A worker's NSThread and the target it calls are alive until it leaves the helper,
\* whatever the guest gives up meanwhile; currentThread answers the object that
\* started the thread and none that is gone; and each reference to a thread or a
\* target is somebody's: none is lost, none is given up twice.
THEOREM ThreadReferences ==
    ASSUME NSThread!MainAssumption
    PROVE  NSThread!Spec => [](/\ NSThread!AliveWhileRunning
                               /\ NSThread!CurrentIsOwn
                               /\ NSThread!ReferencesBalanced)
<1>1. NSThread!Init => NSInv
  BY NSInitial
<1>2. NSInv /\ [NSThread!Next]_(NSThread!vars) => NSInv'
  BY NSStep
<1>3. NSInv => /\ NSThread!AliveWhileRunning
               /\ NSThread!CurrentIsOwn
               /\ NSThread!ReferencesBalanced
  BY NSBalanced
<1>4. QED
  BY <1>1, <1>2, <1>3, PTL DEF NSThread!Spec

=============================================================================
