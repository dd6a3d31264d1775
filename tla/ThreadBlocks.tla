---------------------------- MODULE ThreadBlocks ----------------------------
(***************************************************************************)
(* The part of Thread.blocked_by (src/src/environment.rs) that Foundation  *)
(* locks write themselves, without going through a mutex: sleeping,        *)
(* suspension of the current thread, and the assignment of NotBlocked to   *)
(* another thread. Suspended(n, prev) is suspended = n with blocked = prev.*)
(* Which of the runnable threads the scheduler picks is left open.         *)
(***************************************************************************)
EXTENDS Integers

CONSTANTS Threads,
          MaxSuspends   \* bound: how often the guest calls thread_suspend

BlocksAssumption == MaxSuspends \in Nat

VARIABLES blocked,      \* "none" or "sleeping"
          suspended,    \* the count of ThreadBlock::Suspended, 0 without it
          stopped,      \* history: thread_suspend minus thread_resume
          suspends      \* how often thread_suspend has been called

blockVars == <<blocked, suspended, stopped, suspends>>

BlocksInit ==
    /\ blocked = [t \in Threads |-> "none"]
    /\ suspended = [t \in Threads |-> 0]
    /\ stopped = [t \in Threads |-> 0]
    /\ suspends = 0

Runnable(t) == blocked[t] = "none" /\ suspended[t] = 0

\* suspend_thread of the current thread by a host function.
SuspendSelf(t) ==
    /\ suspended' = [suspended EXCEPT ![t] = 1]
    /\ UNCHANGED <<blocked, stopped, suspends>>

\* yield_thread(ThreadBlock::Sleeping(..)).
Sleep(t) ==
    /\ blocked' = [blocked EXCEPT ![t] = "sleeping"]
    /\ UNCHANGED <<suspended, stopped, suspends>>

\* threads[u].blocked_by = ThreadBlock::NotBlocked for every u in the set.
SetNotBlocked(us) ==
    /\ blocked' = [t \in Threads |-> IF t \in us THEN "none" ELSE blocked[t]]
    /\ suspended' = [t \in Threads |-> IF t \in us THEN 0 ELSE suspended[t]]
    /\ UNCHANGED <<stopped, suspends>>

\* SetNotBlocked(us), after which the current thread sleeps or is suspended.
SetNotBlockedThenBlock(us, t, sleeps) ==
    /\ blocked' = [u \in Threads |->
           IF u = t /\ sleeps THEN "sleeping"
           ELSE IF u \in us THEN "none" ELSE blocked[u]]
    /\ suspended' = [u \in Threads |->
           IF u = t /\ ~sleeps THEN 1 ELSE IF u \in us THEN 0 ELSE suspended[u]]
    /\ UNCHANGED <<stopped, suspends>>

\* The scheduler finds that the time to sleep is over.
SleepEnds(t) ==
    /\ blocked[t] = "sleeping" /\ suspended[t] = 0
    /\ blocked' = [blocked EXCEPT ![t] = "none"]
    /\ UNCHANGED <<suspended, stopped, suspends>>

\* thread_suspend of another thread.
thread_suspend(t) ==
    /\ stopped[t] = 0 /\ suspends < MaxSuspends
    /\ suspends' = suspends + 1
    /\ suspended' = [suspended EXCEPT ![t] = @ + 1]
    /\ stopped' = [stopped EXCEPT ![t] = @ + 1]
    /\ UNCHANGED blocked

\* thread_resume; a thread that is not suspended ends up NotBlocked.
thread_resume(t) ==
    /\ stopped[t] > 0
    /\ UNCHANGED suspends
    /\ stopped' = [stopped EXCEPT ![t] = @ - 1]
    /\ IF suspended[t] = 0
       THEN blocked' = [blocked EXCEPT ![t] = "none"] /\ UNCHANGED suspended
       ELSE suspended' = [suspended EXCEPT ![t] = @ - 1] /\ UNCHANGED blocked

BlocksTypeOK ==
    /\ blocked \in [Threads -> {"none", "sleeping"}]
    /\ suspended \in [Threads -> Nat]
    /\ stopped \in [Threads -> Nat] /\ suspends \in 0 .. MaxSuspends

=============================================================================
