------------------------------ MODULE MCEvents ------------------------------
(***************************************************************************)
(* What the main thread and the queues of Foundation do with work that is  *)
(* to be done later: run loops with their timers, operation queues,        *)
(* performSelector and audio queues. A behaviour is that of an app that    *)
(* uses one of them (app, chosen in the initial state) and leaves the      *)
(* others as they were initialised, so that TLC explores the sum of their  *)
(* state spaces.                                                           *)
(***************************************************************************)
EXTENDS Integers

VARIABLES app,         \* the component that the app of this behaviour uses
    \* RunLoop
    timers, stopped, due, left, repeats, running, in_loop, rc, owned, stack, fired,
    \* RunLoop, one timer
    nl_timers, nl_stopped, nl_due, nl_left, nl_repeats, nl_running, nl_in_loop,
    nl_rc, nl_owned, nl_stack, nl_fired,
    \* Operations
    state, cancelled, dependencies, operations, suspended, frames, mains,
    \* PerformSelectors
    ps_timers, SYNC_PERFORM_SEMAPHORES, posted, CANCELLED_PERFORMS, firing, waits,
    ps_cancelled,
    \* AudioQueues
    queues, live, buffers, buffer_queue, is_running, is_running_handler, source,
    handler, enqueues, panicked,
    \* AudioQueues, without calls from callbacks
    ca_queues, ca_live, ca_buffers, ca_buffer_queue, ca_is_running,
    ca_is_running_handler, ca_source, ca_handler, ca_enqueues, ca_panicked

\* Two timers, each with or without repetition, late by up to one tick; a loop
\* within a callback of a loop.
Loops == INSTANCE RunLoop WITH
    Timers <- {"a", "b"}, Interval <- 2, MaxLate <- 1, MaxFrames <- 3

\* One timer whose callbacks run the loop: two callbacks within loops and one more
\* loop.
NestedLoops == INSTANCE RunLoop WITH
    Timers <- {"a"}, Interval <- 2, MaxLate <- 1, MaxFrames <- 5,
    timers <- nl_timers, stopped <- nl_stopped, due <- nl_due, left <- nl_left,
    repeats <- nl_repeats, running <- nl_running, in_loop <- nl_in_loop,
    rc <- nl_rc, owned <- nl_owned, stack <- nl_stack, fired <- nl_fired

\* An operation and a block operation, two deep on two threads.
Queue == INSTANCE Operations WITH
    Threads <- {"t1", "t2"}, Operations <- {"o", "b"}, BlockOperations <- {"b"},
    MaxDepth <- 2

\* Three requests of two selectors; two threads that wait.
Performing == INSTANCE PerformSelectors WITH
    Threads <- {"t1", "t2"}, Objects <- {"x"}, Selectors <- {"s1", "s2"},
    MaxTimers <- 3, MaxCancels <- 2, MaxDepth <- 2, timers <- ps_timers,
    cancelled <- ps_cancelled

\* Two buffers, enqueued four times; the handler is interrupted by whatever a
\* callback may call, but for a second queue.
Playing == INSTANCE AudioQueues WITH
    Buffers <- {"b1", "b2"}, PrimesQueues <- FALSE,
    CallsFromCallbacks <- {"play", "stop", "buffers", "dispose"},
    SourceMayFail <- FALSE, PlaysOn <- TRUE, MaxQueues <- 2, MaxEnqueues <- 4

\* The guest primes queues and sources may be exhausted, but callbacks only enqueue.
PlayingCalmly == INSTANCE AudioQueues WITH
    Buffers <- {"b1", "b2"}, PrimesQueues <- TRUE, CallsFromCallbacks <- {},
    SourceMayFail <- TRUE, PlaysOn <- TRUE, MaxQueues <- 2, MaxEnqueues <- 3,
    queues <- ca_queues, live <- ca_live, buffers <- ca_buffers,
    buffer_queue <- ca_buffer_queue, is_running <- ca_is_running,
    is_running_handler <- ca_is_running_handler, source <- ca_source,
    handler <- ca_handler, enqueues <- ca_enqueues, panicked <- ca_panicked

rl == <<timers, stopped, due, left, repeats, running, in_loop, rc, owned, stack,
    fired>>
nl == <<nl_timers, nl_stopped, nl_due, nl_left, nl_repeats, nl_running, nl_in_loop,
    nl_rc, nl_owned, nl_stack, nl_fired>>
op == <<state, cancelled, dependencies, operations, suspended, frames, mains>>
ps == <<ps_timers, SYNC_PERFORM_SEMAPHORES, posted, CANCELLED_PERFORMS, firing,
    waits, ps_cancelled>>
aq == <<queues, live, buffers, buffer_queue, is_running, is_running_handler,
    source, handler, enqueues, panicked>>
ca == <<ca_queues, ca_live, ca_buffers, ca_buffer_queue, ca_is_running,
    ca_is_running_handler, ca_source, ca_handler, ca_enqueues, ca_panicked>>

ASSUME BoundsAssumption ==
    /\ Loops!LoopAssumption
    /\ PlayingCalmly!AudioAssumption
    /\ Performing!PerformAssumption

vars == <<app, rl, nl, op, ps, aq, ca>>

Init ==
    /\ app \in {"run loop", "nested loops", "operations", "perform", "audio",
                 "calm audio"}
    /\ Loops!Init
    /\ NestedLoops!Init
    /\ Queue!Init
    /\ Performing!Init
    /\ Playing!Init
    /\ PlayingCalmly!Init

Next ==
    /\ UNCHANGED app
    /\ \/ app = "run loop" /\ Loops!Next /\ UNCHANGED <<nl, op, ps, aq, ca>>
       \/ app = "nested loops" /\ NestedLoops!Next /\ UNCHANGED <<rl, op, ps, aq, ca>>
       \/ app = "operations" /\ Queue!Next /\ UNCHANGED <<rl, nl, ps, aq, ca>>
       \/ app = "perform" /\ Performing!Next /\ UNCHANGED <<rl, nl, op, aq, ca>>
       \/ app = "audio" /\ Playing!Next /\ UNCHANGED <<rl, nl, op, ps, ca>>
       \/ app = "calm audio" /\ PlayingCalmly!Next /\ UNCHANGED <<rl, nl, op, ps, aq>>

Spec == Init /\ [][Next]_vars

\* A timer has as many references as the guest, the list, the copies of the list
\* that iterations go through and its callback hold.
RefsExact == app = "run loop" => Loops!RefsExact

\* A timer that does not repeat fires once, also when its callback runs the loop.
OneShotOnce == app = "nested loops" => NestedLoops!OneShotOnce

\* A timer that repeats fires on its grid: what it missed is not made up for.
KeepsGrid == Loops!KeepsGrid

\* The main of an operation is called once, however often and by whom it is started.
MainOnce == app = "operations" => Queue!MainOnce

\* What the queue starts has no unfinished dependency.
DependenciesFirst == app = "operations" => Queue!DependenciesFirst

\* The array of the queue holds an operation while its addOperation: is in progress,
\* and no longer.
ListedInProgress == app = "operations" => Queue!ListedInProgress

\* A thread that waits for a selector is owed one post, by the timer, by the
\* selector in progress, or it has been made.
OnePostOwed == app = "perform" => Performing!OnePostOwed

\* The post comes when the selector has returned or will not be called.
PostedWhenDone == app = "perform" => Performing!PostedWhenDone

\* What was pending when all requests of its target were cancelled is not performed.
CancelAllHolds == app = "perform" => Performing!CancelAllHolds

\* The buffers of the source are the first of the queue, in their order, whatever
\* callbacks do to both.
InSync == app = "audio" => Playing!InSync

\* No assertion about the source fails, whatever callbacks do to it.
NoHostPanic == app = "audio" => Playing!NoHostPanic

\* A buffer that is still to be decoded has not been freed.
QueueHoldsLive == app = "audio" => Playing!QueueHoldsLive

\* An asynchronous stop ends when everything enqueued was played.
DrainedBeforeStopped == Playing!DrainedBeforeStopped

\* The source of a queue that is stopped or paused does not play.
StoppedIsSilent == app = "calm audio" => PlayingCalmly!StoppedIsSilent

\* A callback is given a buffer that exists, of a queue that does.
GivenLive == PlayingCalmly!GivenLive

\* Timers are referenced by who may still use them, and one that does not repeat
\* fires once.
TimersSound ==
    /\ app = "run loop" => Loops!TypeOK
    /\ RefsExact
    /\ OneShotOnce


\* The audio queue and its source agree about buffers, none of which is decoded
\* after it was freed, and about when they stop.
AudioSound ==
    /\ app = "audio" => Playing!TypeOK
    /\ app = "calm audio" => PlayingCalmly!TypeOK
    /\ InSync
    /\ NoHostPanic
    /\ QueueHoldsLive
    /\ StoppedIsSilent

\* A callback comes when it is due: that of a timer on its grid, that of an
\* asynchronous stop when everything was played, that of a buffer while the buffer
\* and its queue exist.
CallbacksSound ==
    /\ KeepsGrid
    /\ DrainedBeforeStopped
    /\ GivenLive
=============================================================================
