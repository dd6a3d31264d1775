----------------------------- MODULE ObjectLocks -----------------------------
(***************************************************************************)
(* The mutexes that the Objective-C runtime keeps per object:              *)
(* @synchronized blocks (src/src/objc/synchronization.rs) and the accessors*)
(* of atomic properties (src/src/objc/properties.rs). Both look a mutex up *)
(* by the address of the object and make one when there is none; the first *)
(* destroys it with the last exit, the second keeps it. A thread enters    *)
(* blocks and setters inside each other (a setter runs copyWithZone: and   *)
(* dealloc methods of the guest), so it has a stack of them.               *)
(***************************************************************************)
EXTENDS MutexState, SequencesExt

CONSTANT Objs           \* addresses of objects

VARIABLES sync_mutexes, property_locks, \* ObjC: address -> MutexId
          blocked,      \* per thread: the mutex of ThreadBlock::Mutex
          stack,        \* per thread: the blocks and accessors it is in
          live          \* the addresses where an object lives

vars == <<mutexVars, sync_mutexes, property_locks, blocked, stack, live>>

Kinds == {"sync", "property"}

Frame(kind, o) == [kind |-> kind, obj |-> o]

Init ==
    /\ MutexInit
    /\ sync_mutexes = [o \in Objs |-> NoMutex]
    /\ property_locks = [o \in Objs |-> NoMutex]
    /\ blocked = [t \in ThreadIds |-> NoMutex]
    /\ stack = [t \in ThreadIds |-> <<>>]
    /\ live = Objs

Runs(t) == blocked[t] = NoMutex

\* lock_mutex of an existing mutex of type RECURSIVE.
lock_mutex(t, id) ==
    /\ mutexes' = IF ~mutex_is_locked(mutexes, id) THEN take(mutexes, id, t)
                  ELSE IF mutex_is_locked_by(mutexes, id, t) THEN relevel(mutexes, id)
                  ELSE add_waiter(mutexes, id)
    /\ blocked' = IF mutex_is_locked(mutexes, id) /\ ~mutex_is_locked_by(mutexes, id, t)
                  THEN [blocked EXCEPT ![t] = id] ELSE blocked
    /\ UNCHANGED mutex_count

lock_new_mutex(t) ==
    /\ mutex_count < MaxMutexes
    /\ mutexes' = take(init_mutex(mutexes, mutex_count, "RECURSIVE"), mutex_count, t)
    /\ mutex_count' = mutex_count + 1
    /\ UNCHANGED blocked

\* Fault: the new mutex is not remembered.
Entered_forgotten(table, o) == table

\* The entry of o in one of the tables after a thread entered.
Entered(table, o) ==
    IF table[o] = NoMutex THEN [table EXCEPT ![o] = mutex_count] ELSE table

Push(t, kind, o) ==
    /\ Runs(t) /\ o \in live
    /\ Len(stack[t]) < MaxDepth
    /\ stack' = [stack EXCEPT ![t] = Append(@, Frame(kind, o))]
    /\ UNCHANGED live

objc_sync_enter(t, o) ==
    /\ Push(t, "sync", o)
    /\ IF sync_mutexes[o] # NoMutex THEN lock_mutex(t, sync_mutexes[o])
       ELSE lock_new_mutex(t)
    /\ sync_mutexes' = Entered(sync_mutexes, o)
    /\ UNCHANGED property_locks

\* objc_getProperty and objc_setProperty with atomic = true, up to the lock.
lock_property_atomic(t, o) ==
    /\ Push(t, "property", o)
    /\ IF property_locks[o] # NoMutex THEN lock_mutex(t, property_locks[o])
       ELSE lock_new_mutex(t)
    /\ property_locks' = Entered(property_locks, o)
    /\ UNCHANGED sync_mutexes

Pop(t, kind) ==
    /\ Runs(t)
    /\ stack[t] # <<>> /\ Last(stack[t]).kind = kind
    /\ stack' = [stack EXCEPT ![t] = Front(@)]
    /\ UNCHANGED <<mutex_count, blocked, live>>

\* Fault: the entry is removed although a waiter keeps the mutex alive.
Forget_always(ms, id) == TRUE

\* Does the exit remove the mutex? Only when destroy_mutex agrees.
Forget(ms, id) == ~destroy_refused(ms, id)

\* Fault: the last exit unlocks the mutex and leaves it in the table.
objc_sync_exit_keep(t) ==
    /\ Pop(t, "sync")
    /\ mutexes' = unlock_mutex(mutexes, sync_mutexes[Last(stack[t]).obj])
    /\ UNCHANGED <<sync_mutexes, property_locks>>

objc_sync_exit(t) ==
    /\ Pop(t, "sync")
    /\ LET o  == Last(stack[t]).obj
           id == sync_mutexes[o]
           ms == unlock_mutex(mutexes, id)
       IN  IF Forget(ms, id)
           THEN /\ mutexes' = destroy_mutex(ms, id)
                /\ sync_mutexes' = [sync_mutexes EXCEPT ![o] = NoMutex]
           ELSE mutexes' = ms /\ UNCHANGED sync_mutexes
    /\ UNCHANGED property_locks

unlock_property_atomic(t) ==
    /\ Pop(t, "property")
    /\ mutexes' = unlock_mutex(mutexes, property_locks[Last(stack[t]).obj])
    /\ UNCHANGED <<sync_mutexes, property_locks>>

\* The scheduler finds the mutex free and gives it to a thread that waits.
relock_unblocked_mutex(t) ==
    /\ blocked[t] # NoMutex
    /\ ~mutex_is_locked(mutexes, blocked[t])
    /\ mutexes' = relock(mutexes, blocked[t], t)
    /\ blocked' = [blocked EXCEPT ![t] = NoMutex]
    /\ UNCHANGED <<mutex_count, sync_mutexes, property_locks, stack, live>>

InUse(o) == \E t \in ThreadIds : \E i \in DOMAIN stack[t] : stack[t][i].obj = o

dealloc_object(o) ==
    /\ o \in live /\ ~InUse(o)
    /\ live' = live \ {o}
    /\ UNCHANGED <<mutexVars, sync_mutexes, property_locks, blocked, stack>>

\* A later object at the same address.
alloc_object(o) ==
    /\ o \notin live
    /\ live' = live \cup {o}
    /\ UNCHANGED <<mutexVars, sync_mutexes, property_locks, blocked, stack>>

Next ==
    \/ \E t \in ThreadIds :
          \/ \E o \in Objs : objc_sync_enter(t, o) \/ lock_property_atomic(t, o)
          \/ objc_sync_exit(t) \/ unlock_property_atomic(t)
          \/ relock_unblocked_mutex(t)
    \/ \E o \in Objs : dealloc_object(o) \/ alloc_object(o)

Spec == Init /\ [][Next]_vars

(***************************************************************************)
(* Properties                                                              *)
(***************************************************************************)
TypeOK ==
    /\ MutexTypeOK
    /\ sync_mutexes \in [Objs -> MutexIds \cup {NoMutex}]
    /\ property_locks \in [Objs -> MutexIds \cup {NoMutex}]
    /\ blocked \in [ThreadIds -> MutexIds \cup {NoMutex}]
    /\ stack \in [ThreadIds -> Seq([kind : Kinds, obj : Objs])]
    /\ live \subseteq Objs

Table(kind) == IF kind = "sync" THEN sync_mutexes ELSE property_locks

\* How often t has entered: a thread that waits has not entered its last frame.
Depth(t, kind, o) ==
    LET entered == IF Runs(t) THEN stack[t] ELSE Front(stack[t])
    IN  Cardinality({i \in DOMAIN entered : entered[i] = Frame(kind, o)})

Waiting(kind, o) == {t \in ThreadIds : ~Runs(t) /\ Last(stack[t]) = Frame(kind, o)}

\* One thread at a time is in the @synchronized blocks, or in the atomic
\* accessors, of an object: whatever destruction and lookup of mutexes does in
\* between, all of them have met the same mutex, and its count is their depth.
ObjectExclusive == \A kind \in Kinds, o \in Objs :
    LET inside == {t \in ThreadIds : Depth(t, kind, o) > 0}
        id     == Table(kind)[o]
    IN  /\ Cardinality(inside) <= 1
        /\ \A t \in inside : id # NoMutex /\ mutexes[id].locked_by = t
                             /\ mutexes[id].lock_count = Depth(t, kind, o)
        /\ \A t \in Waiting(kind, o) : blocked[t] = id /\ Exists(mutexes, id)

\* The mutex of an object exists for @synchronized exactly while some thread is
\* in such a block of it or waits for one: it is not destroyed under a waiter,
\* and it is not left behind for the next object at the address.
SyncMutexTransient == \A o \in Objs :
    sync_mutexes[o] # NoMutex <=>
        \E t \in ThreadIds : \E i \in DOMAIN stack[t] : stack[t][i] = Frame("sync", o)

\* Every mutex that exists can be found in exactly one table at one address.
NoMutexLeaked == \A id \in MutexIds : Exists(mutexes, id) =>
    Cardinality({ko \in Kinds \X Objs : Table(ko[1])[ko[2]] = id}) = 1

=============================================================================
