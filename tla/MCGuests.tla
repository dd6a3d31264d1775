------------------------------- MODULE MCGuests -------------------------------
(***************************************************************************)
(* Four guests in one state space: a behaviour is that of one guest, chosen*)
(* in the initial state, so that TLC explores the sum of their behaviours. *)
(***************************************************************************)
EXTENDS GuestThreads

(***************************************************************************)
(* The guests that TLC explores: which calls they make.                    *)
(***************************************************************************)
\* Mutexes of all types, and destroying them at any time.
MutexGuest == {"mutex_init", "mutex_lock", "mutex_trylock", "mutex_unlock",
               "mutex_destroy", "create"}

\* Condition variables with one statically initialised mutex.
CondGuest == {"mutex_lock", "mutex_unlock", "cond_init", "cond_wait",
              "cond_timedwait", "cond_signal", "cond_broadcast",
              "cond_destroy", "create", "suspend", "resume"}

SemGuest == {"sem_init", "sem_destroy", "sem_post", "sem_wait",
             "sem_trywait", "create", "exit"}

ThreadGuest == {"create", "create_suspended", "exit", "join", "detach",
                "suspend", "resume", "sleep"}

\* A guest that destroys and re-initialises what other threads wait on.
MisuseGuest == {"mutex_lock", "mutex_unlock", "mutex_destroy", "cond_init",
                "cond_wait", "cond_timedwait", "cond_signal", "cond_destroy",
                "create"}

VARIABLE guest

AllGuests == MutexGuest \cup CondGuest \cup SemGuest \cup ThreadGuest

\* Destroying a mutex at any time is left to the guest that uses nothing else,
\* and the others do with one mutex.
MutexCalls == INSTANCE GuestThreads WITH GuestCalls <- MutexGuest, Careless <- TRUE
CondCalls == INSTANCE GuestThreads
    WITH GuestCalls <- CondGuest, MutexPtrs <- {0}, MaxMutexes <- 1
SemCalls == INSTANCE GuestThreads WITH GuestCalls <- SemGuest
ThreadCalls == INSTANCE GuestThreads WITH GuestCalls <- ThreadGuest

\* What guest memory holds matters to the guest that uses it only.
GuestsInit ==
    /\ Init
    /\ guest \in {"mutexes", "conditions", "semaphores", "threads"}
    /\ \A c \in CondPtrs : cond_word[c] = "STATIC" \/ guest = "conditions"
    /\ \A p \in MutexPtrs : mutex_word[p].magic = "STATIC" \/ (guest = "conditions" /\ p = 0)

GuestsNext ==
    /\ UNCHANGED guest
    /\ \/ guest = "mutexes" /\ MutexCalls!Next
       \/ guest = "conditions" /\ CondCalls!Next
       \/ guest = "semaphores" /\ SemCalls!Next
       \/ guest = "threads" /\ ThreadCalls!Next

GuestsSpec == GuestsInit /\ [][GuestsNext]_<<vars, guest>>

\* For liveness, where the scheduler is fair, whatever the guest calls. Two
\* threads are enough to time out on a condition while the mutex is taken.
LiveNext ==
    /\ guest # "mutexes" /\ GuestsNext
    /\ guest = "conditions" => nthreads' <= 2

LiveInit == GuestsInit /\ guest # "mutexes"

LiveSpec == LiveInit /\ [][LiveNext]_<<vars, guest>> /\ Fairness

\* The guest that destroys and re-initialises what its threads wait on.
MisuseInit == Init /\ guest = "misuse"

MisuseSpec == MisuseInit /\ [][Next /\ UNCHANGED guest]_<<vars, guest>>

\* Nobody waits for ever who need not: timed blocks end, and round robin starves
\* no thread that could run.
GuestsProgress == TimedBlockEnds /\ EligibleRuns

=============================================================================
