------------------------------- MODULE MCSync -------------------------------
(***************************************************************************)
(* The locks that are built beside those of the scheduler, named           *)
(* semaphores, pthread_once and dispatch. A behaviour is that of an app    *)
(* that uses one of them (app, chosen in the initial state) and leaves the *)
(* others as they were initialised, so that TLC explores the sum of their  *)
(* state spaces: no two of them share any state, and those that use host   *)
(* mutexes have mutexes of their own.                                      *)
(***************************************************************************)
EXTENDS Integers

CONSTANTS AnyCond, NoOwner   \* model values

VARIABLES app,         \* the component that the app of this behaviour uses
    \* ConditionLock
    blocked, suspended, stopped, suspends, locked, condition, waiting_threads,
    call, want, date, owner,
    \* RwLocks
    mutexes, mutex_count, word, rw_blocked, wants, held, refused,
    \* ObjectLocks
    ol_mutexes, ol_mutex_count, sync_mutexes, property_locks, ol_blocked, stack,
    live,
    \* NamedSemaphores
    named_semaphores, open_semaphores, objects, ns_blocked, put, taken,
    \* NamedSemaphores, closed under waiters
    sc_named_semaphores, sc_open_semaphores, sc_objects, sc_blocked, sc_put,
    sc_taken,
    \* PthreadOnce
    magic, init, routines, begun, passed,
    \* Dispatch, from two threads
    once_tokens, current_queue_stack, queue_specifics, next_queue_handle, queues,
    semaphores, frames, ran,
    \* Dispatch, from one thread
    od_once_tokens, od_current_queue_stack, od_queue_specifics,
    od_next_queue_handle, od_queues, od_semaphores, od_frames, od_ran

\* One thread has the lock, one is in the queue and one comes in between; a thread
\* is suspended at most once.
ConditionLocks == INSTANCE ConditionLock WITH
    Threads <- {"t1", "t2", "t3"}, Conds <- {1, 2}, MaxSuspends <- 1

\* Two mutexes: for two locks, or for one that is destroyed and made again.
ReadWriteLocks == INSTANCE RwLocks WITH
    Locks <- {"l1", "l2"}, MaxThreads <- 3, MaxMutexes <- 2, MaxDepth <- 1,
    blocked <- rw_blocked

\* Blocks and accessors two deep on two objects; three mutexes, so that a lock that
\* was destroyed is made again.
LocksOfObjects == INSTANCE ObjectLocks WITH
    Objs <- {"o1", "o2"}, MaxThreads <- 3, MaxMutexes <- 3, MaxDepth <- 2,
    mutexes <- ol_mutexes, mutex_count <- ol_mutex_count, blocked <- ol_blocked

\* Two names and two addresses; a name is opened again while another thread has its
\* object.
Semaphores == INSTANCE NamedSemaphores WITH
    Threads <- {"t1", "t2", "t3"}, Names <- {"n1", "n2"}, Addresses <- {100, 200},
    MaxObjects <- 2, MaxTokens <- 2, CloseWaited <- FALSE, blocked <- ns_blocked

\* One name that is closed, unlinked and opened again while a thread waits for what
\* it was.
SemaphoresClosed == INSTANCE NamedSemaphores WITH
    Threads <- {"t1", "t2"}, Names <- {"n1"}, Addresses <- {100, 200},
    MaxObjects <- 2, MaxTokens <- 2, CloseWaited <- TRUE,
    named_semaphores <- sc_named_semaphores, open_semaphores <- sc_open_semaphores,
    objects <- sc_objects, blocked <- sc_blocked, put <- sc_put, taken <- sc_taken

\* Two controls, so that the routine of one calls pthread_once on the other.
OnceControls == INSTANCE PthreadOnce WITH
    Threads <- {"t1", "t2", "t3"}, Controls <- {"c1", "c2"}, MaxDepth <- 2

\* Two threads that dispatch to the queues that exist, two blocks deep.
TwoDispatch == INSTANCE Dispatch WITH
    Threads <- {"t1", "t2"}, Tokens <- {"k1"}, MaxHandles <- 0, MaxCount <- 1,
    MaxDepth <- 2

\* One thread that makes queues and semaphores as well.
OneDispatches == INSTANCE Dispatch WITH
    Threads <- {"t1"}, Tokens <- {"k1"}, MaxHandles <- 2, MaxCount <- 1,
    MaxDepth <- 2, once_tokens <- od_once_tokens,
    current_queue_stack <- od_current_queue_stack,
    queue_specifics <- od_queue_specifics,
    next_queue_handle <- od_next_queue_handle, queues <- od_queues,
    semaphores <- od_semaphores, frames <- od_frames, ran <- od_ran

cl == <<blocked, suspended, stopped, suspends, locked, condition, waiting_threads,
    call, want, date, owner>>
rw == <<mutexes, mutex_count, word, rw_blocked, wants, held, refused>>
ol == <<ol_mutexes, ol_mutex_count, sync_mutexes, property_locks, ol_blocked,
    stack, live>>
ns == <<named_semaphores, open_semaphores, objects, ns_blocked, put, taken>>
sc == <<sc_named_semaphores, sc_open_semaphores, sc_objects, sc_blocked, sc_put,
    sc_taken>>
po == <<magic, init, routines, begun, passed>>
td == <<once_tokens, current_queue_stack, queue_specifics, next_queue_handle,
    queues, semaphores, frames, ran>>
od == <<od_once_tokens, od_current_queue_stack, od_queue_specifics,
    od_next_queue_handle, od_queues, od_semaphores, od_frames, od_ran>>

ASSUME BoundsAssumption ==
    /\ ConditionLocks!BlocksAssumption
    /\ ConditionLocks!LockAssumption
    /\ Semaphores!SemaphoreAssumption
    /\ TwoDispatch!DispatchAssumption

vars == <<app, cl, rw, ol, ns, sc, po, td, od>>

Init ==
    /\ app \in {"condition lock", "read-write locks", "object locks",
                 "named semaphores", "closed semaphores", "pthread_once",
                 "dispatch", "dispatch alone"}
    /\ ConditionLocks!Init /\ (app # "condition lock" => condition = 1)
    /\ ReadWriteLocks!Init
    /\ LocksOfObjects!Init
    /\ Semaphores!Init
    /\ SemaphoresClosed!Init
    /\ OnceControls!Init /\ (app # "pthread_once" => magic = {} /\ init = {})
    /\ TwoDispatch!Init
    /\ OneDispatches!Init

Next ==
    /\ UNCHANGED app
    /\ \/ app = "condition lock" /\ ConditionLocks!Next /\ UNCHANGED <<rw, ol, ns, sc, po, td, od>>
       \/ app = "read-write locks" /\ ReadWriteLocks!Next /\ UNCHANGED <<cl, ol, ns, sc, po, td, od>>
       \/ app = "object locks" /\ LocksOfObjects!Next /\ UNCHANGED <<cl, rw, ns, sc, po, td, od>>
       \/ app = "named semaphores" /\ Semaphores!Next /\ UNCHANGED <<cl, rw, ol, sc, po, td, od>>
       \/ app = "closed semaphores" /\ SemaphoresClosed!Next /\ UNCHANGED <<cl, rw, ol, ns, po, td, od>>
       \/ app = "pthread_once" /\ OnceControls!Next /\ UNCHANGED <<cl, rw, ol, ns, sc, td, od>>
       \/ app = "dispatch" /\ TwoDispatch!Next /\ UNCHANGED <<cl, rw, ol, ns, sc, po, od>>
       \/ app = "dispatch alone" /\ OneDispatches!Next /\ UNCHANGED <<cl, rw, ol, ns, sc, po, td>>

Spec == Init /\ [][Next]_vars

\* NSConditionLock goes only from nobody to a thread whose condition holds, also
\* when threads are suspended in it: what AbstractLock says, whatever the queue,
\* barging threads and time limits do.
LockImplements ==
    /\ ConditionLocks!Abstract!Init
    /\ [][app = "condition lock" => [ConditionLocks!Abstract!Next]_(ConditionLocks!Abstract!vars)]_vars

\* The read-write locks exclude as AbstractRwLock says: writers everybody, readers
\* writers.
RwLockImplements ==
    /\ ReadWriteLocks!Abstract!Init
    /\ [][app = "read-write locks" => [ReadWriteLocks!Abstract!Next]_(ReadWriteLocks!Abstract!vars)]_vars

\* pthread_rwlock_destroy takes the mutex of a lock away from nobody who holds it or
\* waits for it.
RwMutexesKept == app = "read-write locks" => ReadWriteLocks!MutexesKept

\* One thread at a time is in the @synchronized blocks, or the atomic accessors, of
\* an object, and all of them have met the same mutex.
ObjectExclusive == app = "object locks" => LocksOfObjects!ObjectExclusive

\* The mutex of @synchronized exists while a thread is in a block of the object or
\* waits for one, and no longer.
SyncMutexTransient == app = "object locks" => LocksOfObjects!SyncMutexTransient

\* Every mutex that exists is in one table, at one address.
NoMutexLeaked == app = "object locks" => LocksOfObjects!NoMutexLeaked

\* sem_open, sem_close and sem_unlink keep the table of addresses and the objects in
\* agreement.
HandlesExact == app = "named semaphores" => Semaphores!HandlesExact

\* A token is neither made nor lost when a name is closed and opened again.
TokensKept == app = "named semaphores" => Semaphores!TokensKept

\* The waiters that sem_getvalue counts are the threads that are blocked, if no
\* semaphore is closed under a waiter.
WaitersReported == app = "named semaphores" => Semaphores!WaitersReported

\* Closing a semaphore under a waiter mixes up no names, addresses and objects.
ClosedHandlesExact == app = "closed semaphores" => SemaphoresClosed!HandlesExact

\* Closing a semaphore under a waiter loses and makes no token.
ClosedTokensKept == app = "closed semaphores" => SemaphoresClosed!TokensKept

\* The routine of a control is called once, and nobody returns before it is called.
RoutineOnce == app = "pthread_once" => OnceControls!RoutineOnce

\* dispatch_once calls the block of a token at most once, from whatever threads and
\* blocks.
OnceAtMostOnce == app = "dispatch" => TwoDispatch!OnceAtMostOnce

\* The stack of current queues has one entry for each block that runs, on whatever
\* thread.
StackBalanced == app = "dispatch" => TwoDispatch!StackBalanced

\* dispatch_get_specific answers for the queue of the innermost block, with one
\* thread.
SpecificOfCaller == app = "dispatch alone" => OneDispatches!SpecificOfCaller

\* Host mutexes exist as long as something of the guest stands on them: one that is
\* held or waited for is not taken away, and one that no lock and no object has any
\* more is gone.
MutexesKept ==
    /\ app = "read-write locks" => ReadWriteLocks!TypeOK
    /\ app = "object locks" => LocksOfObjects!TypeOK
    /\ RwMutexesKept
    /\ SyncMutexTransient
    /\ NoMutexLeaked

\* Names, addresses and objects of named semaphores agree, and with them tokens and
\* waiters, through closing, unlinking and opening again.
SemaphoresSound ==
    /\ app = "named semaphores" => Semaphores!TypeOK
    /\ app = "closed semaphores" => SemaphoresClosed!TypeOK
    /\ HandlesExact
    /\ TokensKept
    /\ WaitersReported
    /\ ClosedHandlesExact
    /\ ClosedTokensKept


\* The stack of current queues is that of the blocks in progress, and its top, with
\* one thread, the queue of the caller.
QueuesNested ==
    /\ app = "dispatch" => TwoDispatch!TypeOK
    /\ app = "dispatch alone" => OneDispatches!TypeOK
    /\ StackBalanced
    /\ SpecificOfCaller

\* Condition locks and read-write locks are what their abstract specifications say.
ExclusionImplements ==
    /\ LockImplements
    /\ RwLockImplements
=============================================================================
