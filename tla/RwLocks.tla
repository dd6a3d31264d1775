------------------------------- MODULE RwLocks -------------------------------
(***************************************************************************)
(* Read-write locks (src/src/libc/pthread/rwlock.rs): each is a NORMAL host*)
(* mutex, for readers and writers alike, whose id is in the guest's lock.  *)
(* The guest unlocks what it holds, and may do anything else at any time:  *)
(* initialise, lock, try, and destroy while the lock is held or waited for.*)
(***************************************************************************)
EXTENDS MutexState, FiniteSets

CONSTANT Locks          \* addresses of pthread_rwlock_t

VARIABLES word,         \* lock -> magic and rwlock_id
          blocked,      \* thread -> the mutex of ThreadBlock::Mutex
          wants,        \* thread -> the lock and mode of the call it is in
          held,         \* history: thread -> lock -> modes it was granted
          refused       \* history: <<mode held, mode asked for>> of every EDEADLK
vars == <<mutexVars, word, blocked, wants, held, refused>>

Modes == {"read", "write"}
NoCall == [lock |-> "none", mode |-> "none"]
Word(magic, id) == [magic |-> magic, rwlock_id |-> id]

\* PTHREAD_RWLOCK_INITIALIZER.
Init ==
    /\ MutexInit
    /\ word = [l \in Locks |-> Word("static", NoMutex)]
    /\ blocked = [t \in ThreadIds |-> NoMutex]
    /\ wants = [t \in ThreadIds |-> NoCall]
    /\ held = [t \in ThreadIds |-> [l \in Locks |-> {}]]
    /\ refused = {}

Runs(t) == blocked[t] = NoMutex

\* The word and the mutexes once check_or_register_rwlock has accepted the lock.
Usable(l) == \/ word[l].magic = "rwlock"
             \/ word[l].magic = "static" /\ mutex_count < MaxMutexes

Registered(l) ==
    IF word[l].magic = "static"
    THEN [word |-> [word EXCEPT ![l] = Word("rwlock", mutex_count)], id |-> mutex_count,
          mutexes |-> init_mutex(mutexes, mutex_count, "NORMAL"), count |-> mutex_count + 1]
    ELSE [word |-> word, id |-> word[l].rwlock_id, mutexes |-> mutexes, count |-> mutex_count]

Grant(t, l, mode) == held' = [held EXCEPT ![t][l] = @ \cup {mode}]

InUse(l) == \E t \in ThreadIds : held[t][l] # {} \/ wants[t].lock = l

\* Over memory that is not a lock in use.
pthread_rwlock_init(t, l) ==
    /\ Runs(t) /\ mutex_count < MaxMutexes
    /\ word[l].magic # "rwlock" /\ ~InUse(l)
    /\ mutexes' = init_mutex(mutexes, mutex_count, "NORMAL")
    /\ mutex_count' = mutex_count + 1
    /\ word' = [word EXCEPT ![l] = Word("rwlock", mutex_count)]
    /\ UNCHANGED <<blocked, wants, held, refused>>

\* Fault: the thread does not wait for the lock.
LockInner_barging(t, l, mode, r) ==
    /\ mutexes' = IF mutex_is_locked(r.mutexes, r.id) THEN r.mutexes
                  ELSE take(r.mutexes, r.id, t)
    /\ Grant(t, l, mode)
    /\ UNCHANGED <<blocked, wants, refused>>

\* lock_mutex of a NORMAL mutex: taken, refused with EDEADLK, or waited for.
LockInner(t, l, mode, r) ==
    \/ /\ ~mutex_is_locked(r.mutexes, r.id)
       /\ mutexes' = take(r.mutexes, r.id, t)
       /\ Grant(t, l, mode)
       /\ UNCHANGED <<blocked, wants, refused>>
    \/ /\ mutex_is_locked_by(r.mutexes, r.id, t)
       /\ mutexes' = r.mutexes
       /\ refused' = refused \cup (held[t][l] \X {mode})
       /\ UNCHANGED <<blocked, wants, held>>
    \/ /\ mutex_is_locked(r.mutexes, r.id) /\ ~mutex_is_locked_by(r.mutexes, r.id, t)
       /\ mutexes' = add_waiter(r.mutexes, r.id)
       /\ blocked' = [blocked EXCEPT ![t] = r.id]
       /\ wants' = [wants EXCEPT ![t] = [lock |-> l, mode |-> mode]]
       /\ UNCHANGED <<held, refused>>

\* pthread_rwlock_rdlock and pthread_rwlock_wrlock; EINVAL changes nothing.
lock_inner(t, l, mode) ==
    /\ Runs(t) /\ Usable(l)
    /\ LET r == Registered(l) IN
       /\ LockInner(t, l, mode, r)
       /\ word' = r.word /\ mutex_count' = r.count

trylock_inner(t, l, mode) ==
    /\ Runs(t) /\ Usable(l)
    /\ LET r == Registered(l) IN
       /\ word' = r.word /\ mutex_count' = r.count
       /\ IF mutex_is_locked(r.mutexes, r.id)
          THEN mutexes' = r.mutexes /\ UNCHANGED held
          ELSE mutexes' = take(r.mutexes, r.id, t) /\ Grant(t, l, mode)
    /\ UNCHANGED <<blocked, wants, refused>>

\* By a thread that was granted the lock.
pthread_rwlock_unlock(t, l) ==
    /\ Runs(t) /\ held[t][l] # {} /\ word[l].magic = "rwlock"
    /\ ~unlock_refused(mutexes, word[l].rwlock_id, t)
    /\ mutexes' = unlock_mutex(mutexes, word[l].rwlock_id)
    /\ held' = [held EXCEPT ![t][l] = {}]
    /\ UNCHANGED <<mutex_count, word, blocked, wants, refused>>

\* Fault: destroy_mutex does not look for a holder and waiters.
Destroyed_anyway(ms, id) == destroy_mutex(ms, id)

Destroyed(ms, id) == IF destroy_refused(ms, id) THEN ms ELSE destroy_mutex(ms, id)

\* The guest's lock is wiped also when destroy_mutex answers EBUSY.
pthread_rwlock_destroy(t, l) ==
    /\ Runs(t) /\ Usable(l)
    /\ LET r == Registered(l) IN
       /\ mutexes' = Destroyed(r.mutexes, r.id)
       /\ mutex_count' = r.count
       /\ word' = [word EXCEPT ![l] = Word("wiped", NoMutex)]
    /\ UNCHANGED <<blocked, wants, held, refused>>

\* The scheduler gives a free mutex to a thread that waits.
relock_unblocked_mutex(t) ==
    /\ ~Runs(t) /\ ~mutex_is_locked(mutexes, blocked[t])
    /\ mutexes' = relock(mutexes, blocked[t], t)
    /\ blocked' = [blocked EXCEPT ![t] = NoMutex]
    /\ wants' = [wants EXCEPT ![t] = NoCall]
    /\ Grant(t, wants[t].lock, wants[t].mode)
    /\ UNCHANGED <<mutex_count, word, refused>>

Next ==
    \/ \E t \in ThreadIds, l \in Locks :
          \/ pthread_rwlock_init(t, l)
          \/ \E mode \in Modes : lock_inner(t, l, mode) \/ trylock_inner(t, l, mode)
          \/ pthread_rwlock_unlock(t, l) \/ pthread_rwlock_destroy(t, l)
    \/ \E t \in ThreadIds : relock_unblocked_mutex(t)

Spec == Init /\ [][Next]_vars

(***************************************************************************)
(* Properties                                                              *)
(***************************************************************************)
TypeOK ==
    /\ MutexTypeOK
    /\ word \in [Locks -> [magic : {"static", "rwlock", "wiped"},
                           rwlock_id : MutexIds \cup {NoMutex}]]
    /\ blocked \in [ThreadIds -> MutexIds \cup {NoMutex}]
    /\ held \in [ThreadIds -> [Locks -> SUBSET Modes]]

\* The locks behave as read-write locks should, although readers exclude each
\* other and any thread may unlock a NORMAL mutex.
Abstract == INSTANCE AbstractRwLock WITH Threads <- ThreadIds,
    readers <- [l \in Locks |-> {t \in ThreadIds : "read" \in held[t][l]}],
    writers <- [l \in Locks |-> {t \in ThreadIds : "write" \in held[t][l]}]
Implements == Abstract!Spec

\* A destroyed lock takes its mutex away from nobody: what a thread waits for
\* exists and counts it, and what a thread holds is locked by it, unless
\* the guest's lock has been wiped before.
MutexesKept ==
    /\ \A id \in MutexIds :
          LET waiting == {t \in ThreadIds : blocked[t] = id} IN
          /\ mutexes[id].waiting_count = Cardinality(waiting)
          /\ waiting # {} => Exists(mutexes, id)
    /\ \A t \in ThreadIds, l \in Locks : held[t][l] # {} =>
          \E id \in MutexIds : /\ mutexes[id].locked_by = t
                               /\ word[l].magic = "rwlock" => word[l].rwlock_id = id

=============================================================================
