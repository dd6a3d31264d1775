--------------------------- MODULE AbstractRwLock ---------------------------
(***************************************************************************)
(* What POSIX promises of read-write locks and src/src/libc/pthread/       *)
(* rwlock.rs claims to preserve: a writer excludes everybody, readers      *)
(* exclude writers only.                                                   *)
(***************************************************************************)
EXTENDS Integers

CONSTANTS Threads, Locks

VARIABLES readers, writers      \* lock -> the threads that hold it

vars == <<readers, writers>>

Init ==
    /\ readers = [l \in Locks |-> {}]
    /\ writers = [l \in Locks |-> {}]

AcquireRead(t, l) ==
    /\ writers[l] = {}
    /\ readers' = [readers EXCEPT ![l] = @ \cup {t}]
    /\ UNCHANGED writers

AcquireWrite(t, l) ==
    /\ writers[l] = {} /\ readers[l] = {}
    /\ writers' = [writers EXCEPT ![l] = {t}]
    /\ UNCHANGED readers

Release(t, l) ==
    /\ t \in readers[l] \cup writers[l]
    /\ readers' = [readers EXCEPT ![l] = @ \ {t}]
    /\ writers' = [writers EXCEPT ![l] = @ \ {t}]

Next == \E t \in Threads, l \in Locks :
           AcquireRead(t, l) \/ AcquireWrite(t, l) \/ Release(t, l)

Spec == Init /\ [][Next]_vars
=============================================================================
