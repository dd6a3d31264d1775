--------------------------- MODULE PerformSelectors ---------------------------
(***************************************************************************)
(* Selectors performed later or on the main thread                         *)
(* (src/src/frameworks/foundation/ns_object.rs). Every request becomes a   *)
(* timer of the main run loop; a background thread that waits for its      *)
(* request sleeps on a semaphore that the timer's method posts; a request  *)
(* is cancelled by leaving a note that the timer's method looks for.       *)
(***************************************************************************)
EXTENDS Naturals, SequencesExt

CONSTANTS Threads,      \* the background threads
          Objects, Selectors,
          MaxTimers,    \* bound: requests made
          MaxCancels,   \* bound: notes of cancelled requests kept at once
          MaxDepth      \* bound: timers fired within a timer's method

VARIABLES timers,       \* the requests: target, selector, and how far each got
          SYNC_PERFORM_SEMAPHORES,  \* timer -> the thread on its semaphore
          posted,       \* timers whose semaphore has been posted
          CANCELLED_PERFORMS,       \* sequence of <<target, selector or all>>
          firing,       \* the main thread's calls of the timers' method
          waits,        \* thread -> the timer it waits for, 0 if none
          cancelled     \* history: <<timer, selector or all>>: pending when cancelled
vars == <<timers, SYNC_PERFORM_SEMAPHORES, posted, CANCELLED_PERFORMS, firing, waits,
          cancelled>>

All == "all selectors"

PerformAssumption == All \notin Selectors
Timer(o, sel) == [target |-> o, selector |-> sel, at |-> "pending"]
Pending == {k \in DOMAIN timers : timers[k].at = "pending"}

Init ==
    /\ timers = <<>> /\ SYNC_PERFORM_SEMAPHORES = <<>> /\ posted = {}
    /\ CANCELLED_PERFORMS = <<>> /\ firing = <<>>
    /\ waits = [t \in Threads |-> 0]
    /\ cancelled = {}

(***************************************************************************)
(* Requests                                                                *)
(***************************************************************************)
addTimer(o, sel) ==
    /\ Len(timers) < MaxTimers
    /\ timers' = Append(timers, Timer(o, sel))

\* performSelector:withObject:afterDelay:, by any thread; performSelector:onThread:
\* and performSelectorOnMainThread: without waiting come to the same.
performSelector_afterDelay(o, sel) ==
    /\ addTimer(o, sel)
    /\ UNCHANGED <<SYNC_PERFORM_SEMAPHORES, posted, CANCELLED_PERFORMS, firing, waits,
                   cancelled>>

\* A background thread performs a selector on the main thread and waits; on the main
\* thread itself the selector is called at once.
performSelectorOnMainThread_wait(t, o, sel) ==
    /\ waits[t] = 0
    /\ addTimer(o, sel)
    /\ LET k == Len(timers) + 1
       IN  /\ SYNC_PERFORM_SEMAPHORES' =
                 [j \in DOMAIN SYNC_PERFORM_SEMAPHORES \cup {k} |->
                     IF j = k THEN t ELSE SYNC_PERFORM_SEMAPHORES[j]]
           /\ waits' = [waits EXCEPT ![t] = k]
    /\ UNCHANGED <<posted, CANCELLED_PERFORMS, firing, cancelled>>

\* sem_wait returns and the semaphore is destroyed.
WaitReturns(t) ==
    /\ waits[t] \in posted
    /\ posted' = posted \ {waits[t]}
    /\ waits' = [waits EXCEPT ![t] = 0]
    /\ UNCHANGED <<timers, SYNC_PERFORM_SEMAPHORES, CANCELLED_PERFORMS, firing, cancelled>>

\* Whatever is pending; with sel = All the note is for every selector of o.
cancelPreviousPerformRequests(o, sel) ==
    /\ Len(CANCELLED_PERFORMS) < MaxCancels
    /\ CANCELLED_PERFORMS' = Append(CANCELLED_PERFORMS, <<o, sel>>)
    /\ cancelled' = cancelled \cup
         {<<k, sel>> : k \in {j \in Pending : /\ timers[j].target = o
                                              /\ sel \in {All, timers[j].selector}}}
    /\ UNCHANGED <<timers, SYNC_PERFORM_SEMAPHORES, posted, firing, waits>>

(***************************************************************************)
(* The timers' method, _touchHLE_timerFireMethod:                          *)
(***************************************************************************)
NotesFor(o, sel) == {i \in DOMAIN CANCELLED_PERFORMS : CANCELLED_PERFORMS[i] = <<o, sel>>}


\* A note that names the selector is used up, a note for all selectors stays.
UseNote(o, sel) ==
    LET notes == NotesFor(o, sel)
    IN  CANCELLED_PERFORMS' = IF notes = {} THEN CANCELLED_PERFORMS
                              ELSE RemoveAt(CANCELLED_PERFORMS, Min(notes))

Waited(k) == k \in DOMAIN SYNC_PERFORM_SEMAPHORES

\* Fault: the entry of a timer stays.
TakeSemaphore_kept(k) == UNCHANGED SYNC_PERFORM_SEMAPHORES

TakeSemaphore(k) ==
    SYNC_PERFORM_SEMAPHORES' =
       [j \in DOMAIN SYNC_PERFORM_SEMAPHORES \ {k} |-> SYNC_PERFORM_SEMAPHORES[j]]

\* Fault: a request that is not performed forgets its waiter.
Skip_unposted(k) ==
    /\ timers' = [timers EXCEPT ![k].at = "skipped"]
    /\ UNCHANGED <<posted, firing>>

Skip(k) ==
    /\ timers' = [timers EXCEPT ![k].at = "skipped"]
    /\ posted' = IF Waited(k) THEN posted \cup {k} ELSE posted
    /\ UNCHANGED firing

\* Fault: the waiter is let go when the selector is called.
Call_posted(k) ==
    /\ timers' = [timers EXCEPT ![k].at = "running"]
    /\ posted' = IF Waited(k) THEN posted \cup {k} ELSE posted
    /\ firing' = Append(firing, [timer |-> k, waited |-> FALSE])

\* The selector is called, its waiter is kept until it returns.
Call(k) ==
    /\ timers' = [timers EXCEPT ![k].at = "running"]
    /\ firing' = Append(firing, [timer |-> k, waited |-> Waited(k)])
    /\ UNCHANGED posted

timerFireMethod(k) ==
    /\ k \in Pending /\ Len(firing) < MaxDepth
    /\ LET o == timers[k].target
           sel == timers[k].selector
       IN  /\ UseNote(o, sel)
           /\ IF NotesFor(o, sel) \cup NotesFor(o, All) # {} THEN Skip(k) ELSE Call(k)
    /\ TakeSemaphore(k)
    /\ UNCHANGED <<waits, cancelled>>

SelectorReturns ==
    /\ firing # <<>>
    /\ LET f == Last(firing)
       IN  /\ timers' = [timers EXCEPT ![f.timer].at = "performed"]
           /\ posted' = IF f.waited THEN posted \cup {f.timer} ELSE posted
    /\ firing' = Front(firing)
    /\ UNCHANGED <<SYNC_PERFORM_SEMAPHORES, CANCELLED_PERFORMS, waits, cancelled>>

Next ==
    \/ \E o \in Objects, sel \in Selectors :
          \/ performSelector_afterDelay(o, sel)
          \/ \E t \in Threads : performSelectorOnMainThread_wait(t, o, sel)
    \/ \E o \in Objects, sel \in Selectors \cup {All} : cancelPreviousPerformRequests(o, sel)
    \/ \E k \in DOMAIN timers : timerFireMethod(k)
    \/ SelectorReturns
    \/ \E t \in Threads : WaitReturns(t)

\* The main run loop fires every timer (RunLoop!DueTimerFires), guest selectors
\* return, and the scheduler runs a thread whose semaphore is posted.
TimerFires(k) == k \in DOMAIN timers /\ timerFireMethod(k)

Fairness ==
    /\ \A k \in 1..MaxTimers : WF_vars(TimerFires(k))
    /\ WF_vars(SelectorReturns)
    /\ \A t \in Threads : WF_vars(WaitReturns(t))

Spec == Init /\ [][Next]_vars
FairSpec == Spec /\ Fairness

(***************************************************************************)
(* Properties                                                              *)
(***************************************************************************)
TypeOK ==
    /\ \A k \in DOMAIN timers :
          /\ timers[k].target \in Objects /\ timers[k].selector \in Selectors
          /\ timers[k].at \in {"pending", "running", "performed", "skipped"}
    /\ DOMAIN SYNC_PERFORM_SEMAPHORES \subseteq Pending
    /\ posted \subseteq DOMAIN timers
    /\ CANCELLED_PERFORMS \in Seq(Objects \X (Selectors \cup {All}))
    /\ waits \in [Threads -> {0} \cup DOMAIN timers]
    /\ {f.timer : f \in ToSet(firing)} = {k \in DOMAIN timers : timers[k].at = "running"}

\* A thread that waits is owed exactly one post: by the timer that has not fired, by
\* the selector in progress, or it has been posted (the semaphore is taken out of the
\* side channel up front and posted on every way out of the timers' method).
OnePostOwed ==
    \A t \in Threads : waits[t] # 0 =>
       Cardinality({x \in {"side channel", "selector", "posted"} :
          \/ x = "side channel" /\ waits[t] \in DOMAIN SYNC_PERFORM_SEMAPHORES
          \/ x = "selector" /\ \E f \in ToSet(firing) : f.timer = waits[t] /\ f.waited
          \/ x = "posted" /\ waits[t] \in posted}) = 1

\* A semaphore is posted when the selector has returned or will not be called, never
\* before (sem_post after msg_send).
PostedWhenDone == \A k \in posted : timers[k].at \in {"performed", "skipped"}

\* What was pending when all requests of its target were cancelled is not performed,
\* however many there are and whatever else was cancelled (the note stays).
CancelAllHolds ==
    \A k \in DOMAIN timers :
       <<k, All>> \in cancelled => timers[k].at \in {"pending", "skipped"}

\* A thread that waits for its selector goes on.
WaiterGoesOn == \A t \in Threads : waits[t] # 0 ~> waits[t] = 0

=============================================================================
