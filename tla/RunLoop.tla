------------------------------- MODULE RunLoop -------------------------------
(***************************************************************************)
(* One NSRunLoop and its NSTimers (src/src/frameworks/foundation/          *)
(* ns_run_loop.rs and ns_timer.rs), as its thread runs them. Each iteration*)
(* takes a copy of the list of timers, retains them and fires those that   *)
(* are due; the callbacks are guest code, which adds, invalidates, fires   *)
(* and releases timers, stops the loop, and runs it again inside itself.   *)
(* Time is kept relative to now: left[t] is due_by - now, in units of which*)
(* an interval has Interval. What an iteration does besides timers (events,*)
(* audio, composition) is left out.                                        *)
(***************************************************************************)
EXTENDS Integers, SequencesExt

CONSTANTS Timers,
          Interval,     \* interval of every timer
          MaxLate,      \* bound: how late a timer gets
          MaxFrames     \* bound: nesting of run loops and callbacks

LoopAssumption ==
    Interval \in Nat \ {0} /\ MaxLate \in Nat /\ MaxFrames \in Nat

VARIABLES timers,       \* NSRunLoopHostObject.timers
          stopped,      \* NSRunLoopHostObject.stopped
          due,          \* timers with due_by = Some(..)
          left,         \* due_by - now
          repeats, running,     \* sets of timers: repeats, is_running_callback
          in_loop,      \* timers with run_loop /= nil
          rc,           \* reference counts, 0 for a timer that does not exist
          owned,        \* timers the guest has a reference to
          stack,        \* activations of run_run_loop and of callbacks
          fired         \* history: times the loop fired a timer (2: more than once)

timerVars == <<due, left, repeats, running, in_loop, rc, owned, fired>>
vars == <<timers, stopped, stack, timerVars>>

RunFrame(single) == [kind |-> "run", single |-> single, todo |-> <<>>,
                     phase |-> "begin"]
FireFrame(t, byLoop) == [kind |-> "fire", timer |-> t, byLoop |-> byLoop]

Init ==
    /\ timers = <<>> /\ stack = <<>> /\ stopped = FALSE
    /\ due = {} /\ repeats = {} /\ running = {} /\ in_loop = {} /\ owned = {}
    /\ left = [t \in Timers |-> 0]
    /\ rc = [t \in Timers |-> 0]
    /\ fired = [t \in Timers |-> 0]

InGuest == IF stack = <<>> THEN TRUE ELSE Last(stack).kind = "fire"

Replace(frame) == stack' = [stack EXCEPT ![Len(stack)] = frame]
Pop == stack' = Front(stack)

(***************************************************************************)
(* References: release runs dealloc, which invalidates                     *)
(***************************************************************************)
Release(t, n) ==
    /\ rc' = [rc EXCEPT ![t] = @ - n]
    /\ due' = IF rc[t] = n THEN due \ {t} ELSE due

\* A list of timers without those of S; kept[i] is what the first i leave.
Without(list, S) ==
    LET kept[i \in 0 .. Len(list)] ==
            IF i = 0 THEN <<>>
            ELSE IF list[i] \in S THEN kept[i - 1] ELSE Append(kept[i - 1], list[i])
    IN  kept[Len(list)]

\* invalidate and remove_timer (swap_remove: the order of timers means nothing),
\* with n more references given back.
Invalidate(t, n) ==
    /\ timers' = IF t \in in_loop THEN Without(timers, {t}) ELSE timers
    /\ in_loop' = in_loop \ {t}
    /\ due' = due \ {t}
    /\ rc' = [rc EXCEPT ![t] = @ - n - (IF t \in in_loop THEN 1 ELSE 0)]

(***************************************************************************)
(* What guest code does                                                    *)
(***************************************************************************)
\* timerWithTimeInterval and initWithFireDate.
NewTimer(t, r) ==
    /\ InGuest /\ rc[t] = 0
    /\ rc' = [rc EXCEPT ![t] = 1]
    /\ owned' = owned \cup {t}
    /\ due' = due \cup {t}
    /\ left' = [left EXCEPT ![t] = Interval]
    /\ repeats' = IF r THEN repeats \cup {t} ELSE repeats \ {t}
    /\ fired' = [fired EXCEPT ![t] = 0]
    /\ UNCHANGED <<timers, stopped, stack, running, in_loop>>

addTimer(t) ==
    /\ InGuest /\ t \in owned
    /\ t \notin ToSet(timers)
    /\ timers' = Append(timers, t)
    /\ in_loop' = in_loop \cup {t}
    /\ rc' = [rc EXCEPT ![t] = @ + 1]
    /\ UNCHANGED <<stopped, stack, due, left, repeats, running, owned, fired>>

invalidate(t) ==
    /\ InGuest /\ rc[t] > 0
    /\ Invalidate(t, 0)
    /\ UNCHANGED <<stopped, stack, left, repeats, running, owned, fired>>

\* S: the timers of one target.
cancelPerformSelectorsWithTarget(S) ==
    /\ InGuest /\ S \cap ToSet(timers) # {}
    /\ timers' = Without(timers, S)
    /\ LET gone == S \cap ToSet(timers) IN
       /\ in_loop' = in_loop \ gone
       /\ due' = due \ gone
       /\ rc' = [t \in Timers |-> rc[t] - (IF t \in gone THEN 1 ELSE 0)]
    /\ UNCHANGED <<stopped, stack, left, repeats, running, owned, fired>>

\* The guest keeps its reference while its own call of fire runs.
release(t) ==
    /\ InGuest /\ t \in owned
    /\ \A i \in DOMAIN stack : stack[i] # FireFrame(t, FALSE)
    /\ Release(t, 1)
    /\ owned' = owned \ {t}
    /\ UNCHANGED <<timers, stopped, stack, left, repeats, running, in_loop, fired>>

setFireDate(t) ==
    /\ InGuest /\ t \in due
    /\ \E d \in {0, Interval} : left' = [left EXCEPT ![t] = d]
    /\ UNCHANGED <<timers, stopped, stack, due, repeats, running, in_loop, rc, owned, fired>>

fire(t) ==
    /\ InGuest /\ t \in owned \cap due /\ Len(stack) < MaxFrames
    /\ stack' = Append(stack, FireFrame(t, FALSE))
    /\ UNCHANGED <<timers, stopped, timerVars>>

FireReturns ==
    /\ stack # <<>> /\ InGuest /\ ~Last(stack).byLoop
    /\ Pop
    /\ LET t == Last(stack).timer IN
       IF t \in repeats THEN UNCHANGED <<timers, in_loop, due, rc>> ELSE Invalidate(t, 0)
    /\ UNCHANGED <<stopped, left, repeats, running, owned, fired>>

CFRunLoopStop ==
    /\ InGuest
    /\ stopped' = TRUE
    /\ UNCHANGED <<timers, stack, timerVars>>

\* run and runUntilDate, or one iteration of runMode:beforeDate:.
run_run_loop(single) ==
    /\ InGuest /\ Len(stack) < MaxFrames - 1
    /\ stack' = Append(stack, RunFrame(single))
    /\ UNCHANGED <<timers, stopped, timerVars>>

(***************************************************************************)
(* run_run_loop                                                            *)
(***************************************************************************)
AtLoop(phase) ==
    stack # <<>> /\ Last(stack).kind = "run" /\ Last(stack).phase = phase

\* Fault: the timers copied are not retained.
RetainAll_none == rc

RetainAll == [t \in Timers |-> rc[t] + (IF t \in ToSet(timers) THEN 1 ELSE 0)]

BeginIteration ==
    /\ AtLoop("begin")
    /\ Replace([Last(stack) EXCEPT !.todo = timers, !.phase = "timers"])
    /\ rc' = RetainAll
    /\ UNCHANGED <<timers, stopped, due, left, repeats, running, in_loop, owned, fired>>

Next1(frame) == [frame EXCEPT !.todo = Tail(@)]

\* Fault: a timer whose callback runs is not recognised.
DueNow_again(t) == t \in due /\ left[t] <= 0

DueNow(t) == t \notin running /\ t \in due /\ left[t] <= 0

SkipTimer ==
    /\ AtLoop("timers") /\ Last(stack).todo # <<>>
    /\ LET t == Head(Last(stack).todo) IN
       /\ ~DueNow(t)
       /\ Replace(Next1(Last(stack)))
       /\ Release(t, 1)
    /\ UNCHANGED <<timers, stopped, left, repeats, running, in_loop, owned, fired>>

\* Fault: the next date counts from now.
Rescheduled_drift(l) == Interval

\* due_by + interval * max(1, ceil(overdue / interval)), relative to now.
Rescheduled(l) == LET ratio == (Interval - 1 - l) \div Interval
                  IN  l + Interval * (IF ratio < 1 THEN 1 ELSE ratio)

FireTimer ==
    /\ AtLoop("timers") /\ Last(stack).todo # <<>> /\ Len(stack) < MaxFrames
    /\ LET t == Head(Last(stack).todo) IN
       /\ DueNow(t)
       /\ rc' = [rc EXCEPT ![t] = @ + 1]
       /\ left' = IF t \in repeats THEN [left EXCEPT ![t] = Rescheduled(@)] ELSE left
       /\ running' = running \cup {t}
       /\ fired' = [fired EXCEPT ![t] = IF @ = 2 THEN 2 ELSE @ + 1]
       /\ stack' = Append(stack, FireFrame(t, TRUE))
    /\ UNCHANGED <<timers, stopped, due, repeats, in_loop, owned>>

\* Fault: a timer fired once is taken to be in its callback for ever.
NotRunning_stuck(t) == running

NotRunning(t) == running \ {t}

\* The rest of handle_timer, and the release after it in run_run_loop.
CallbackReturns ==
    /\ stack # <<>> /\ InGuest /\ Last(stack).byLoop
    /\ LET t     == Last(stack).timer
           depth == Len(stack) - 1
       IN  /\ running' = NotRunning(t)
           /\ IF t \in repeats
              THEN Release(t, 2) /\ UNCHANGED <<timers, in_loop>>
              ELSE Invalidate(t, 2)
           /\ stack' = [Front(stack) EXCEPT ![depth] = Next1(@)]
    /\ UNCHANGED <<stopped, left, repeats, owned, fired>>

\* Fault: only the outermost loop looks at the flag.
EndIteration_outer ==
    /\ AtLoop("timers") /\ Last(stack).todo = <<>>
    /\ UNCHANGED <<timers, timerVars>>
    /\ \/ Last(stack).single /\ Pop /\ UNCHANGED stopped
       \/ ~Last(stack).single /\ stopped /\ Len(stack) = 1 /\ Pop /\ stopped' = FALSE
       \/ ~Last(stack).single /\ UNCHANGED stopped
          /\ Replace([Last(stack) EXCEPT !.phase = "begin"])

\* Sleep, then leave after one iteration, on stop or when the date has passed.
EndIteration ==
    /\ AtLoop("timers") /\ Last(stack).todo = <<>>
    /\ UNCHANGED <<timers, timerVars>>
    /\ \/ Last(stack).single /\ Pop /\ UNCHANGED stopped
       \/ ~Last(stack).single /\ stopped /\ Pop /\ stopped' = FALSE
       \/ ~Last(stack).single /\ ~stopped /\ UNCHANGED stopped
          /\ (Pop \/ Replace([Last(stack) EXCEPT !.phase = "begin"]))

TimePasses ==
    /\ due # {} /\ \A t \in due : left[t] > -MaxLate
    /\ left' = [t \in Timers |-> IF t \in due THEN left[t] - 1 ELSE left[t]]
    /\ UNCHANGED <<timers, stopped, stack, due, repeats, running, in_loop, rc, owned, fired>>

LoopStep == BeginIteration \/ SkipTimer \/ FireTimer \/ EndIteration

Next ==
    \/ \E t \in Timers :
          \/ \E r \in BOOLEAN : NewTimer(t, r)
          \/ addTimer(t) \/ invalidate(t) \/ release(t) \/ setFireDate(t) \/ fire(t)
    \/ \E S \in SUBSET Timers : cancelPerformSelectorsWithTarget(S)
    \/ FireReturns \/ CFRunLoopStop
    \/ \E single \in BOOLEAN : run_run_loop(single)
    \/ LoopStep \/ CallbackReturns \/ TimePasses

Spec == Init /\ [][Next]_vars

\* The loop goes on, and a callback at any depth returns if it gets the chance.
CallbackAt(d) == (CallbackReturns \/ FireReturns) /\ Len(stack) = d

FairSpec == Spec /\ WF_vars(LoopStep) /\ \A d \in 1 .. MaxFrames : SF_vars(CallbackAt(d))

(***************************************************************************)
(* Properties                                                              *)
(***************************************************************************)
Frames(kind) == {i \in DOMAIN stack : stack[i].kind = kind}

TypeOK ==
    /\ timers \in Seq(Timers) /\ stopped \in BOOLEAN
    /\ due \subseteq Timers /\ repeats \subseteq Timers /\ running \subseteq Timers
    /\ in_loop \subseteq Timers /\ owned \subseteq Timers
    /\ left \in [Timers -> -MaxLate .. Interval]
    /\ rc \in [Timers -> Nat] /\ fired \in [Timers -> 0 .. 2]
    /\ Len(stack) <= MaxFrames
    /\ \A i \in Frames("fire") : stack[i].timer \in Timers

\* Every reference to a timer is counted and every count is a reference: of the
\* guest, of the list, of each copy of the list an iteration still has to go
\* through, and of the callback. So a timer that another timer cancels lives
\* until every copy has passed it, and none lives longer.
RefsExact == \A t \in Timers :
    /\ rc[t] = (IF t \in owned THEN 1 ELSE 0)
             + Cardinality({i \in DOMAIN timers : timers[i] = t})
             + Cardinality({i \in Frames("run") : t \in ToSet(stack[i].todo)})
             + Cardinality({i \in Frames("fire") : stack[i] = FireFrame(t, TRUE)})
    /\ rc[t] = 0 => t \notin due
    /\ t \in in_loop <=> t \in ToSet(timers)

\* A one-shot timer is fired by the loop at most once, although it stays due
\* until its callback has returned and the callback may run the loop again.
OneShotOnce == \A t \in Timers : t \notin repeats => fired[t] < 2

\* A repeating timer keeps to its grid: it is fired when a date of the grid has
\* passed, the next date is a later one, and periods that were missed are not
\* made up for.
KeepsGrid == [][\A t \in repeats : FireTimer /\ t \in running' \ running =>
                   /\ left[t] <= 0 /\ left'[t] > left[t]
                   /\ left'[t] \in 0 .. Interval
                   /\ (left'[t] - left[t]) % Interval = 0]_vars

\* A timer that is due is fired while some loop runs, whichever activation of
\* the loop comes to it, unless it is postponed or invalidated; only its own
\* callback keeps it from being fired.
DueTimerFires == \A t \in Timers :
    LET waits == /\ t \in due /\ left[t] <= 0 /\ t \in in_loop
                 /\ \A i \in Frames("fire") : stack[i] # FireFrame(t, TRUE)
                 /\ Frames("run") # {}
    IN  waits ~> ~waits

\* CFRunLoopStop ends a loop: the flag is seen by the innermost one that runs
\* until it is stopped.
StopSeen ==
    (stopped /\ \E i \in Frames("run") : ~stack[i].single) ~> ~stopped

=============================================================================
