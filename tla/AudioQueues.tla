----------------------------- MODULE AudioQueues -----------------------------
(***************************************************************************)
(* An output queue of Audio Queue Services                                 *)
(* (src/src/frameworks/audio_toolbox/audio_queue.rs), the OpenAL source    *)
(* that plays it, and the handler that a run loop calls: it takes back the *)
(* buffers that were played, gives each to the callback of the guest, and  *)
(* refills the source. While a callback runs, the guest (this thread or    *)
(* another) may call any function of the queue, dispose of it, or make a   *)
(* new one, which is allocated at the same address.                        *)
(* The format is a supported one. Data, volume and pan are left out.       *)
(***************************************************************************)
EXTENDS Naturals, SequencesExt

CONSTANTS Buffers,          \* addresses of buffers
          PrimesQueues,     \* whether the guest calls AudioQueuePrime
          CallsFromCallbacks, \* what else than enqueueing it does while a handler runs
          SourceMayFail,    \* whether GenSources may find no source
          PlaysOn,          \* whether the source may end a buffer while a handler runs
          MaxQueues, MaxEnqueues    \* bounds: queues made, buffers enqueued

AudioAssumption ==
    /\ {PrimesQueues, SourceMayFail, PlaysOn} \subseteq BOOLEAN
    /\ CallsFromCallbacks \subseteq {"new", "play", "stop", "buffers", "dispose"}
    /\ MaxQueues \in Nat /\ MaxEnqueues \in Nat

VARIABLES
    queues,     \* AudioQueueRefs made so far; the live one is the last
    live,       \* audio_queues has the address
    buffers, buffer_queue, is_running, is_running_handler, \* AudioQueueHostObject
    source,     \* al_source: the OpenAL source, or NoSource
    handler,    \* handle_audio_queue: the locals of the run loop thread
    enqueues,   \* calls of AudioQueueEnqueueBuffer so far
    panicked    \* an assertion or an unwrap of the host failed

queueVars == <<queues, live, buffers>>
vars == <<queueVars, buffer_queue, is_running, is_running_handler, source, handler, enqueues, panicked>>

NoSource == [state |-> "none"]

\* OpenAL: an AL source has a queue of buffers, and a position in it.
Source(state, queue, pos) == [state |-> state, queue |-> queue, pos |-> pos]

NewSource == Source("INITIAL", <<>>, 0)

\* AL_BUFFERS_PROCESSED: none before the first play, all once it stopped (the
\* ones queued after it stopped too).
Processed(s) ==
    CASE s.state = "INITIAL" -> 0
      [] s.state = "STOPPED" -> Len(s.queue)
      [] OTHER -> s.pos

\* alSourcePlay: from the start of the queue, or on from a pause.
SourcePlay(s) ==
    IF s.queue = <<>> THEN Source("STOPPED", <<>>, 0)
    ELSE Source("PLAYING", s.queue, IF s.state = "PAUSED" THEN s.pos ELSE 0)

SourcePause(s) == IF s.state = "PLAYING" THEN [s EXCEPT !.state = "PAUSED"] ELSE s

\* alSourceStop: it does nothing to a source that was never played.
SourceStop(s) == IF s.state = "INITIAL" THEN s ELSE [s EXCEPT !.state = "STOPPED"]

\* unqueue_buffers: the processed buffers leave the source, not the others.
Unqueued(s) ==
    LET n == Processed(s)
    IN [s EXCEPT !.queue = SubSeq(@, n + 1, Len(@)), !.pos = 0]

Idle == [phase |-> "idle", left |-> <<>>, was |-> "Stopped", of |-> 0]

Init ==
    /\ queues = 0 /\ live = FALSE /\ buffers = {}
    /\ buffer_queue = <<>> /\ is_running = "Stopped" /\ is_running_handler = FALSE
    /\ source = NoSource
    /\ handler = Idle
    /\ enqueues = 0
    /\ panicked = FALSE

-----------------------------------------------------------------------------
(* prime_audio_queue.                                                      *)

Least(a, b) == IF a <= b THEN a ELSE b

\* Fault: the source is given the first buffers of the queue again.
Refilled_again(s, q) ==
    IF s.queue # <<>> /\ Processed(s) < Len(s.queue) THEN s
    ELSE [s EXCEPT !.queue = @ \o SubSeq(q, 1, Least(Len(q), 2))]

\* The source s refilled from the queue q of the guest: until two buffers are
\* not processed yet. Nothing is done when the source holds more than q.
Refilled(s, q) ==
    LET queued == Len(s.queue)
        wanted == IF s.state = "STOPPED" THEN Len(q) ELSE Least(Len(q), Processed(s) + 2)
    IN IF wanted <= queued THEN s
       ELSE [s EXCEPT !.queue = @ \o SubSeq(q, queued + 1, wanted)]

\* What prime_audio_queue may leave of the source.
Primed ==
    IF ~live THEN {source}
    ELSE (IF source # NoSource THEN {Refilled(source, buffer_queue)}
          ELSE {Refilled(NewSource, buffer_queue)})
         \cup (IF source = NoSource /\ SourceMayFail THEN {NoSource} ELSE {})

-----------------------------------------------------------------------------
(* Functions the guest calls.                                              *)

\* The guest runs: while a handler runs it is in a callback, or another thread.
GuestMay(call) ==
    /\ ~panicked
    /\ handler.phase = "idle" \/ call \in CallsFromCallbacks

AudioQueueNewOutput ==
    /\ GuestMay("new") /\ ~live /\ queues < MaxQueues
    /\ queues' = queues + 1 /\ live' = TRUE
    /\ buffers' = {} /\ buffer_queue' = <<>>
    /\ is_running' = "Stopped" /\ is_running_handler' = FALSE
    /\ source' = NoSource
    /\ UNCHANGED <<handler, enqueues, panicked>>

AudioQueueAllocateBuffer(b) ==
    /\ GuestMay("buffers") /\ live /\ b \notin buffers
    /\ buffers' = buffers \cup {b}
    /\ UNCHANGED <<queues, live, buffer_queue, is_running, is_running_handler,
                   source, handler, enqueues, panicked>>

\* Fault: a buffer that is enqueued is freed.
AudioQueueFreeBuffer_enqueued(b) ==
    /\ GuestMay("buffers") /\ live /\ b \in buffers
    /\ buffers' = buffers \ {b}
    /\ UNCHANGED <<queues, live, buffer_queue, is_running, is_running_handler,
                   source, handler, enqueues, panicked>>

AudioQueueFreeBuffer(b) ==
    /\ GuestMay("buffers") /\ live /\ b \in buffers
    /\ b \notin ToSet(buffer_queue)
    /\ buffers' = buffers \ {b}
    /\ UNCHANGED <<queues, live, buffer_queue, is_running, is_running_handler,
                   source, handler, enqueues, panicked>>

\* A callback enqueues the buffer it was given again, or any other.
AudioQueueEnqueueBuffer(b) ==
    /\ ~panicked /\ live /\ b \in buffers
    /\ enqueues < MaxEnqueues
    /\ buffer_queue' = Append(buffer_queue, b)
    /\ enqueues' = enqueues + 1
    /\ UNCHANGED <<queueVars, is_running, is_running_handler, source, handler, panicked>>

AudioQueuePrime ==
    /\ GuestMay("play") /\ live /\ PrimesQueues
    /\ source' \in Primed
    /\ UNCHANGED <<queueVars, buffer_queue, is_running, is_running_handler,
                   handler, enqueues, panicked>>

\* Without a source the queue is marked as running all the same.
AudioQueueStart ==
    /\ GuestMay("play") /\ live
    /\ is_running' = "Running"
    /\ \E s \in Primed : source' = IF s = NoSource THEN s ELSE SourcePlay(s)
    /\ UNCHANGED <<queueVars, buffer_queue, is_running_handler, handler, enqueues, panicked>>

\* Fault: the source plays on.
AudioQueuePause_playing ==
    /\ GuestMay("stop") /\ live
    /\ is_running' = "Stopped"
    /\ UNCHANGED <<queueVars, buffer_queue, is_running_handler, source, handler, enqueues, panicked>>

AudioQueuePause ==
    /\ GuestMay("stop") /\ live
    /\ is_running' = "Stopped"
    /\ source' = IF source = NoSource THEN source ELSE SourcePause(source)
    /\ UNCHANGED <<queueVars, buffer_queue, is_running_handler, handler, enqueues, panicked>>

\* AudioQueueReset, of a queue whose source is s: it pops a buffer of the guest
\* for each that leaves the source, and panics when there is none.
Reset(s) ==
    LET stopped == SourceStop(s)
    IN IF s = NoSource THEN /\ buffer_queue' = <<>>
                            /\ UNCHANGED <<source, panicked>>
       ELSE /\ source' = Unqueued(stopped)
            /\ panicked' = (Processed(stopped) > Len(buffer_queue))
            /\ buffer_queue' = <<>>

AudioQueueReset ==
    /\ GuestMay("stop") /\ live
    /\ Reset(source)
    /\ UNCHANGED <<queueVars, is_running, is_running_handler, handler, enqueues>>

\* AudioQueueStop(in_immediate = true), with finish_stopping_audio_queue.
StopNow ==
    /\ GuestMay("stop") /\ live
    /\ Reset(source)
    /\ is_running' = "Stopped"
    /\ UNCHANGED <<queueVars, is_running_handler, handler, enqueues>>

\* AudioQueueStop(in_immediate = false).
StopLater ==
    /\ GuestMay("stop") /\ live /\ is_running # "Stopped"
    /\ is_running' = "Stopping"
    /\ UNCHANGED <<queueVars, buffer_queue, is_running_handler, source, handler, enqueues, panicked>>

AudioQueueDispose ==
    /\ GuestMay("dispose") /\ live
    /\ live' = FALSE /\ buffers' = {} /\ buffer_queue' = <<>>
    /\ is_running' = "Stopped" /\ is_running_handler' = FALSE
    /\ source' = NoSource
    /\ UNCHANGED <<queues, handler, enqueues, panicked>>

-----------------------------------------------------------------------------
(* handle_audio_queue, which a run loop calls in every iteration.          *)

\* Fault: the buffers stay in the queue of the guest.
TakeBack_kept ==
    LET n == Processed(source)
    IN /\ source' = Unqueued(source)
       /\ UNCHANGED buffer_queue
       /\ handler' = [phase |-> "callbacks", left |-> SubSeq(buffer_queue, 1, Least(n, Len(buffer_queue))),
                      was |-> is_running, of |-> queues]

\* The processed buffers leave the source and the queue of the guest.
TakeBack ==
    LET n == Processed(source)
    IN /\ source' = Unqueued(source)
       /\ buffer_queue' = SubSeq(buffer_queue, n + 1, Len(buffer_queue))
       /\ handler' = [phase |-> "callbacks", left |-> SubSeq(buffer_queue, 1, Least(n, Len(buffer_queue))),
                      was |-> is_running, of |-> queues]

HandlerBegins ==
    /\ ~panicked /\ handler = Idle
    /\ live /\ source # NoSource /\ ~is_running_handler
    /\ TakeBack
    /\ is_running_handler' = TRUE
    /\ UNCHANGED <<queueVars, is_running, enqueues, panicked>>

\* The callback of the guest is called with the next buffer.
Callback ==
    /\ ~panicked /\ handler.phase = "callbacks" /\ handler.left # <<>>
    /\ handler' = [handler EXCEPT !.left = Tail(@)]
    /\ UNCHANGED <<queueVars, buffer_queue, is_running, is_running_handler, source, enqueues, panicked>>

\* Fault: a queue that is stopping is not restarted, and its stop cannot tell.
Restarted_not(s) == s

\* The source once a handler that found the queue running refilled and, if
\* need be, restarted it.
Restarted(s) == IF s.state = "STOPPED" THEN SourcePlay(s) ELSE s

\* The last callback returned, and the queue is still there: the handler goes
\* by what is_running was before the callbacks. An asynchronous stop is
\* complete when the source has nothing to play.
HandlerGoesOn ==
    /\ ~panicked /\ handler.phase = "callbacks" /\ handler.left = <<>> /\ live
    /\ \E s \in Primed :
        LET after == Restarted(s)
        IN IF handler.was = "Stopped"
           THEN /\ source' = s
                /\ is_running_handler' = FALSE /\ handler' = Idle
                /\ UNCHANGED <<buffer_queue, is_running, panicked>>
           ELSE IF s = NoSource
           THEN \* the name of the source of a queue disposed of is not valid
                /\ panicked' = TRUE
                /\ UNCHANGED <<buffer_queue, is_running, is_running_handler, source, handler>>
           ELSE IF handler.was = "Stopping" /\ after.state = "STOPPED"
           THEN /\ Reset(after)
                /\ is_running' = "Stopped"
                /\ handler' = [handler EXCEPT !.phase = "notifying"]
                /\ UNCHANGED is_running_handler
           ELSE /\ source' = after
                /\ is_running_handler' = FALSE /\ handler' = Idle
                /\ UNCHANGED <<buffer_queue, is_running, panicked>>
    /\ UNCHANGED <<queueVars, enqueues>>

\* The last callback returned, and there is no such queue.
HandlerGivesUp ==
    /\ ~panicked /\ handler.phase = "callbacks" /\ handler.left = <<>> /\ ~live
    /\ handler' = Idle
    /\ UNCHANGED <<queueVars, buffer_queue, is_running, is_running_handler, source, enqueues, panicked>>


\* The listeners that notify_aq_is_running called returned.
HandlerNotified ==
    /\ ~panicked /\ handler.phase = "notifying"
    /\ handler' = Idle
    /\ is_running_handler' = FALSE
    /\ UNCHANGED <<queueVars, buffer_queue, is_running, source, enqueues, panicked>>

-----------------------------------------------------------------------------
(* OpenAL plays on: one buffer is processed, and after the last it stops.  *)

SourcePlays ==
    /\ source.state = "PLAYING"
    /\ PlaysOn \/ handler.phase = "idle"
    /\ source' = IF source.pos + 1 < Len(source.queue) THEN [source EXCEPT !.pos = @ + 1]
                 ELSE [source EXCEPT !.state = "STOPPED"]
    /\ UNCHANGED <<queueVars, buffer_queue, is_running, is_running_handler, handler, enqueues, panicked>>

Guest ==
    \/ AudioQueueNewOutput \/ AudioQueuePrime \/ AudioQueueStart \/ AudioQueuePause
    \/ AudioQueueReset \/ StopNow \/ StopLater \/ AudioQueueDispose
    \/ \E b \in Buffers :
        \/ AudioQueueAllocateBuffer(b)
        \/ AudioQueueFreeBuffer(b)
        \/ AudioQueueEnqueueBuffer(b)

Handler == HandlerBegins \/ Callback \/ HandlerGoesOn \/ HandlerGivesUp \/ HandlerNotified

Next == Guest \/ Handler \/ SourcePlays

Spec == Init /\ [][Next]_vars

\* The run loop iterates and callbacks return. OpenAL plays in real time, so a
\* source gets on even if handlers (PlaysOn = FALSE: shorter than a buffer) run
\* again and again: strong fairness.
FairSpec == Spec /\ WF_vars(Handler) /\ SF_vars(SourcePlays)

-----------------------------------------------------------------------------

States == {"INITIAL", "PLAYING", "PAUSED", "STOPPED"}

TypeOK ==
    /\ queues \in 0..MaxQueues /\ live \in BOOLEAN /\ buffers \subseteq Buffers
    /\ buffer_queue \in Seq(Buffers)
    /\ is_running \in {"Running", "Stopping", "Stopped"}
    /\ is_running_handler \in BOOLEAN
    /\ \/ source = NoSource
       \/ /\ source \in [state : States, queue : Seq(Buffers), pos : Nat]
          /\ source.state = "PLAYING" => source.pos < Len(source.queue)
    /\ handler \in [phase : {"idle", "callbacks", "notifying"}, left : Seq(Buffers),
                    was : {"Running", "Stopping", "Stopped"}, of : 0..MaxQueues]
    /\ enqueues \in 0..MaxEnqueues /\ panicked \in BOOLEAN

\* "the nth item in this queue must also be the nth item in the OpenAL queue,
\* though the OpenAL queue may be shorter": what the source has played is told
\* from its position alone, over refills, resets, stops and new queues that
\* the guest calls for at any moment of the handler.
InSync ==
    live /\ source # NoSource => IsPrefix(source.queue, buffer_queue)

\* AudioQueueReset finds a buffer for each that the source gives back, and the
\* handler never asserts the state of a source that is gone.
NoHostPanic == ~panicked

\* A buffer that is still to be decoded is not freed (kAudioQueueErr_BufferInQueue),
\* whoever frees it: the next refill reads its data.
QueueHoldsLive == ToSet(buffer_queue) \subseteq buffers

\* The end of an asynchronous stop throws nothing away: AudioQueueReset, which
\* clears the queue, comes when everything enqueued was played, the buffers
\* too that a callback enqueued while the queue was stopping.
DrainedBeforeStopped ==
    [][handler.phase = "callbacks" /\ handler'.phase = "notifying" => buffer_queue = <<>>]_vars

\* "If it's running, the OpenAL source can be restarted": the source of a queue
\* that was stopped or paused does not play.
StoppedIsSilent ==
    live /\ is_running = "Stopped" => source.state # "PLAYING"

\* A callback is called for a queue that was not disposed of, with a buffer of it.
\* (The guest "is allowed to call AudioQueueDispose".)
GivenLive ==
    [][Callback => live /\ queues = handler.of /\ Head(handler.left) \in buffers]_vars

\* The guest stops calling at some point.
Quiet == <>[][~Guest]_vars

\* An asynchronous stop comes to its end, whatever the source was doing when
\* it was asked for.
StopCompletes == Quiet => <>[](is_running # "Stopping")

\* A running queue gives every buffer back: the source never stays stopped, or
\* paused, with buffers to play, although only the handler refills it.
BuffersComeBack ==
    Quiet => <>[](is_running = "Running" /\ source # NoSource => buffer_queue = <<>>)

=============================================================================
