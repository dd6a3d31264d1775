----------------------------- MODULE MCLiveness -----------------------------
(***************************************************************************)
(* What must come about in the components that wait for one another:       *)
(* NSConditionLock, NSCondition, the run loop, performSelector and audio   *)
(* queues. A behaviour is that of an app that uses one of them (app,       *)
(* chosen in the initial state) and leaves the others as they were         *)
(* initialised; only the fairness of the one in use applies to it.         *)
(***************************************************************************)
EXTENDS Integers

CONSTANTS AnyCond, NoOwner   \* model values

VARIABLES app,         \* the component that the app of this behaviour uses
    \* ConditionLock
    blocked, suspended, stopped, suspends, locked, condition, waiting_threads,
    call, want, date, owner,
    \* ConditionMonitor
    cm_blocked, cm_suspended, cm_stopped, cm_suspends, cm_locked,
    lock_waiting_threads, cm_waiting_threads, cm_call, cm_date, answer, cm_owner,
    \* RunLoop
    timers, rl_stopped, due, left, repeats, running, in_loop, rc, owned, stack,
    fired,
    \* PerformSelectors
    ps_timers, SYNC_PERFORM_SEMAPHORES, posted, CANCELLED_PERFORMS, firing, waits,
    cancelled,
    \* AudioQueues
    queues, live, buffers, buffer_queue, is_running, is_running_handler, source,
    handler, enqueues, panicked

\* One thread has the lock, one is in the queue and one comes in between; no thread
\* is suspended by others.
ConditionLocks == INSTANCE ConditionLock WITH
    Threads <- {"t1", "t2", "t3"}, Conds <- {1, 2}, MaxSuspends <- 0

\* Two threads wait and one signals, or one waits and two compete for the lock.
Conditions == INSTANCE ConditionMonitor WITH
    Threads <- {"t1", "t2", "t3"}, MaxSuspends <- 0, blocked <- cm_blocked,
    suspended <- cm_suspended, stopped <- cm_stopped, suspends <- cm_suspends,
    locked <- cm_locked, waiting_threads <- cm_waiting_threads, call <- cm_call,
    date <- cm_date, owner <- cm_owner

\* One timer; loops and callbacks nested twice.
Loops == INSTANCE RunLoop WITH
    Timers <- {"a"}, Interval <- 1, MaxLate <- 1, MaxFrames <- 4,
    stopped <- rl_stopped

\* Two threads that wait; three requests, which may be cancelled.
Performing == INSTANCE PerformSelectors WITH
    Threads <- {"t1", "t2"}, Objects <- {"x"}, Selectors <- {"s1"}, MaxTimers <- 3,
    MaxCancels <- 1, MaxDepth <- 2, timers <- ps_timers

\* One queue with two buffers; the source ends no buffer while a handler runs.
Playing == INSTANCE AudioQueues WITH
    Buffers <- {"b1", "b2"}, PrimesQueues <- FALSE,
    CallsFromCallbacks <- {"play", "stop", "buffers", "dispose"},
    SourceMayFail <- FALSE, PlaysOn <- FALSE, MaxQueues <- 1, MaxEnqueues <- 3

cl == <<blocked, suspended, stopped, suspends, locked, condition, waiting_threads,
    call, want, date, owner>>
cm == <<cm_blocked, cm_suspended, cm_stopped, cm_suspends, cm_locked,
    lock_waiting_threads, cm_waiting_threads, cm_call, cm_date, answer, cm_owner>>
rl == <<timers, rl_stopped, due, left, repeats, running, in_loop, rc, owned, stack,
    fired>>
ps == <<ps_timers, SYNC_PERFORM_SEMAPHORES, posted, CANCELLED_PERFORMS, firing,
    waits, cancelled>>
aq == <<queues, live, buffers, buffer_queue, is_running, is_running_handler,
    source, handler, enqueues, panicked>>

ASSUME BoundsAssumption ==
    /\ Conditions!BlocksAssumption
    /\ Conditions!MonitorAssumption

vars == <<app, cl, cm, rl, ps, aq>>

Init ==
    /\ app \in {"condition lock", "condition", "run loop", "perform", "audio"}
    /\ ConditionLocks!Init /\ (app # "condition lock" => condition = 1)
    /\ Conditions!Init
    /\ Loops!Init
    /\ Performing!Init
    /\ Playing!Init

Next ==
    /\ UNCHANGED app
    /\ \/ app = "condition lock" /\ ConditionLocks!Next /\ UNCHANGED <<cm, rl, ps, aq>>
       \/ app = "condition" /\ Conditions!Next /\ UNCHANGED <<cl, rl, ps, aq>>
       \/ app = "run loop" /\ Loops!Next /\ UNCHANGED <<cl, cm, ps, aq>>
       \/ app = "perform" /\ Performing!Next /\ UNCHANGED <<cl, cm, rl, aq>>
       \/ app = "audio" /\ Playing!Next /\ UNCHANGED <<cl, cm, rl, ps>>

Spec == Init /\ [][Next]_vars

\* The fairness of each component, for the behaviours that use it: runnable threads are
\* scheduled, sleep ends and callbacks return (its FairSpec says why).
Fairness ==
    /\ \A t \in {"t1", "t2", "t3"} :
          /\ WF_cl(app = "condition lock" /\ ConditionLocks!Turn(t))
          /\ WF_cl(app = "condition lock" /\ ConditionLocks!DatePasses(t))
          /\ WF_cl(app = "condition lock" /\ ConditionLocks!WakeUp(t))
          /\ WF_cm(app = "condition" /\ Conditions!Turn(t))
          /\ WF_cm(app = "condition" /\ Conditions!DatePasses(t))
          /\ WF_cm(app = "condition" /\ Conditions!WakeUp(t))
    /\ WF_rl(app = "run loop" /\ Loops!LoopStep)
    /\ \A d \in 1..4 : SF_rl(app = "run loop" /\ Loops!CallbackAt(d))
    /\ \A k \in 1..3 : WF_ps(app = "perform" /\ Performing!TimerFires(k))
    /\ WF_ps(app = "perform" /\ Performing!SelectorReturns)
    /\ \A t \in {"t1", "t2"} : WF_ps(app = "perform" /\ Performing!WaitReturns(t))
    /\ WF_aq(app = "audio" /\ Playing!Handler)
    /\ SF_aq(app = "audio" /\ Playing!SourcePlays)

FairSpec == Spec /\ Fairness

\* While the lock is free, a waiter it would satisfy is queued only if another such
\* thread is awake.
NoLostWakeup == app = "condition lock" => ConditionLocks!NoLostWakeup

\* A thread is in the queue of an NSConditionLock once, while it waits in a call,
\* and not otherwise.
QueueExact == app = "condition lock" => ConditionLocks!QueueExact

\* A thread is in the queues of an NSCondition exactly while it is suspended for
\* them.
QueuesExact == app = "condition" => Conditions!QueuesExact

\* A signal reaches one waiter, giving the lock up and waiting are one step, and
\* waitUntilDate: answers YES if it was reached: what AbstractMonitor says.
MonitorImplements ==
    /\ Conditions!Monitor!Init
    /\ [][app = "condition" => [Conditions!Monitor!Next]_(Conditions!Monitor!vars)]_vars

\* An NSConditionLock that stays free does not stay free beside a thread that it
\* would satisfy.
ConditionLockTaken == ConditionLocks!FreeLockTaken

\* lockWhenCondition:beforeDate: returns, with or without the lock.
TimedLockReturns == ConditionLocks!TimedLockReturns

\* The lock of an NSCondition does not stay free while a thread queues for it or was
\* notified.
FreeLockTaken == Conditions!FreeLockTaken

\* waitUntilDate: gets past its sleep and asks for the lock again.
TimedWaitEnds == Conditions!TimedWaitEnds

\* A timer that is due is fired while a loop runs, by whichever activation of it.
DueTimerFires == Loops!DueTimerFires

\* CFRunLoopStop ends a loop that runs until it is stopped.
StopSeen == Loops!StopSeen

\* A thread that waits for a selector on the main thread goes on.
WaiterGoesOn == Performing!WaiterGoesOn

\* When the guest has made its last call, an asynchronous stop comes to its end.
StopCompletes == Playing!StopCompletes

\* When the guest has made its last call, a running queue gives every buffer back.
BuffersComeBack == Playing!BuffersComeBack

\* The queues of waiting threads, on which the rest depends, hold who waits; nobody
\* is left asleep in them beside a lock it could have.
QueuesSound ==
    /\ app = "condition lock" => ConditionLocks!TypeOK
    /\ app = "condition" => Conditions!TypeOK
    /\ NoLostWakeup
    /\ QueueExact
    /\ QueuesExact

\* Threads that wait for a lock go on: when it stays free, or when their time is up.
LocksTaken ==
    /\ ConditionLockTaken
    /\ TimedLockReturns
    /\ FreeLockTaken
    /\ TimedWaitEnds

=============================================================================
