----------------------------- MODULE Semaphores -----------------------------
(***************************************************************************)
(* The semaphores of src/src/libc/semaphore.rs.                            *)
(*                                                                         *)
(* State::open_semaphores maps the guest address of a sem_t to a           *)
(* SemaphoreHostObject {value, waiting, guest_sem, named}.  A member of    *)
(* SemPtrs is such an address; an address that is not a key of the map is  *)
(* closed.  posted and passed are history variables, not program state:    *)
(* the tokens ever put into the semaphore at an address and the sem_wait   *)
(* and sem_trywait calls on it that have returned 0, since it was opened.  *)
(***************************************************************************)
EXTENDS MutexState, FiniteSets

CONSTANTS SemPtrs,      \* guest addresses of the unnamed semaphores
          SemValues,    \* initial values the guest passes to sem_init
          MaxPosted     \* bound on the tokens put into one open semaphore

ASSUME SemAssumption ==
    /\ SemPtrs \subseteq Nat
    /\ SemValues \subseteq Nat
    /\ MaxPosted \in Nat

VARIABLES sems,         \* State::open_semaphores
          posted,       \* history: tokens provided at each address
          passed        \* history: successful waits at each address

semVars == <<sems, posted, passed>>

Semaphore == [open : BOOLEAN, value : Nat, waiting : SUBSET ThreadIds]

SemTypeOK ==
    /\ sems \in [SemPtrs -> Semaphore]
    /\ posted \in [SemPtrs -> Nat]
    /\ passed \in [SemPtrs -> Nat]

ClosedSem == [open |-> FALSE, value |-> 0, waiting |-> {}]

SemInit ==
    /\ sems = [s \in SemPtrs |-> ClosedSem]
    /\ posted = [s \in SemPtrs |-> 0]
    /\ passed = [s \in SemPtrs |-> 0]

(***************************************************************************)
(* The part of each call that touches only the semaphore                   *)
(***************************************************************************)
\* sem_init returns 0 without touching an address that is already open.
InitSem(s, v) ==
    /\ UNCHANGED passed
    /\ IF sems[s].open
       THEN UNCHANGED <<sems, posted>>
       ELSE /\ posted[s] + v <= MaxPosted
            /\ posted' = [posted EXCEPT ![s] = @ + v]
            /\ sems' = [sems EXCEPT
                          ![s] = [open |-> TRUE, value |-> v, waiting |-> {}]]

\* sem_destroy drops the host object, waiters or not.
CloseSem(s) ==
    /\ sems[s].open
    /\ sems' = [sems EXCEPT ![s] = ClosedSem]
    /\ posted' = [posted EXCEPT ![s] = 0]
    /\ passed' = [passed EXCEPT ![s] = 0]

\* Environment::sem_increment
sem_increment(s) ==
    /\ sems[s].open
    /\ posted[s] < MaxPosted
    /\ sems' = [sems EXCEPT ![s].value = @ + 1]
    /\ posted' = [posted EXCEPT ![s] = @ + 1]
    /\ UNCHANGED passed

\* Environment::sem_decrement when the value is positive: no blocking.
sem_decrement(s) ==
    /\ sems[s].open
    /\ sems[s].value > 0
    /\ sems' = [sems EXCEPT ![s].value = @ - 1]
    /\ passed' = [passed EXCEPT ![s] = @ + 1]
    /\ UNCHANGED posted

\* Environment::sem_decrement at zero, before the thread yields.
EnqueueSemWaiter(s, t) ==
    /\ sems[s].open
    /\ sems[s].value = 0
    /\ sems' = [sems EXCEPT ![s].waiting = @ \cup {t}]
    /\ UNCHANGED <<posted, passed>>

\* Fault: the token is granted and kept.
GrantSem_kept(s, t) ==
    /\ sems[s].open
    /\ sems[s].value > 0
    /\ sems' = [sems EXCEPT ![s].waiting = @ \ {t}]
    /\ UNCHANGED <<posted, passed>>

\* The scheduler grants a token to a blocked thread.
GrantSem(s, t) ==
    /\ sems[s].open
    /\ sems[s].value > 0
    /\ sems' = [sems EXCEPT ![s].value = @ - 1, ![s].waiting = @ \ {t}]
    /\ UNCHANGED <<posted, passed>>

=============================================================================
