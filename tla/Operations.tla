------------------------------ MODULE Operations ------------------------------
(***************************************************************************)
(* NSOperation, NSBlockOperation and NSOperationQueue                      *)
(* (src/src/frameworks/foundation/ns_operation.rs). A queue has no thread  *)
(* of its own: addOperation: starts an operation that is ready and returns *)
(* when it has finished. An operation runs guest code in its observers and *)
(* in its main, which may start, add, cancel and suspend in its turn, as   *)
(* may the other guest threads while it runs.                              *)
(***************************************************************************)
EXTENDS Naturals, SequencesExt, TLC

CONSTANTS Threads, Operations,
          BlockOperations,  \* the NSBlockOperations of them, with one block each
          MaxDepth          \* bound: operations started within operations

VARIABLES state, cancelled, dependencies,
          operations,   \* the one queue: its array
          suspended,
          frames,       \* thread -> its calls of start in progress
          mains         \* history: calls of main, at most 2 counted
queue == <<operations, suspended>>
vars == <<state, cancelled, dependencies, queue, frames, mains>>

Init ==
    /\ state = [o \in Operations |-> "Ready"]
    /\ cancelled = [o \in Operations |-> FALSE]
    /\ dependencies = [o \in Operations |-> {}]
    /\ operations = <<>> /\ suspended = FALSE
    /\ frames = [t \in Threads |-> <<>>]
    /\ mains = [o \in Operations |-> 0]

(***************************************************************************)
(* Starting an operation                                                   *)
(***************************************************************************)
Finished(o) == state[o] = "Finished"

isReady(o) ==
    /\ state[o] = "Ready"
    /\ \A d \in dependencies[o] : Finished(d)

\* A call of start of o, up to its observers or its main; caller is what goes on
\* when start returns: guest code, addOperation, or the n rounds of setSuspended.
Frame(o, at, caller, i, n) ==
    [op |-> o, at |-> at, caller |-> caller, round |-> i, rounds |-> n]

\* Fault: only an operation that is executing is not started.
MayStart_again(o) == state[o] # "Executing"

\* The early return of start.
MayStart(o) == state[o] = "Ready"

\* start on thread t, whose frames are then fs below it. Observers of what it sets
\* are called after the assignment.
start(t, fs, o, caller, i, n) ==
    /\ Len(fs) < MaxDepth
    /\ LET s == IF cancelled[o] THEN "Finished" ELSE "Executing"
       IN  /\ state' = [state EXCEPT ![o] = s]
           /\ frames' = [frames EXCEPT ![t] = Append(fs, Frame(o, s, caller, i, n))]
    /\ UNCHANGED <<cancelled, dependencies, mains>>

\* The guest starts an operation itself.
StartByGuest(t, o) ==
    /\ MayStart(o)
    /\ start(t, frames[t], o, "guest", 0, 0)
    /\ UNCHANGED queue

\* The observers of isExecuting have returned and main is called: a subclass's or
\* an invocation's main is guest code, NSBlockOperation's sends its block the message
\* invoke, for which the runtime finds no method, so that no guest code runs.
Main(t) ==
    /\ frames[t] # <<>> /\ Last(frames[t]).at = "Executing"
    /\ LET o == Last(frames[t]).op
           next == IF o \in BlockOperations THEN "Finished" ELSE "main"
       IN  /\ mains' = [mains EXCEPT ![o] = IF @ = 2 THEN 2 ELSE @ + 1]
           /\ frames' = [frames EXCEPT ![t][Len(frames[t])].at = next]
           /\ IF o \in BlockOperations
              THEN state' = [state EXCEPT ![o] = "Finished"]
              ELSE UNCHANGED state
    /\ UNCHANGED <<cancelled, dependencies, queue>>

\* The main of a subclass returns.
MainReturns(t) ==
    /\ frames[t] # <<>> /\ Last(frames[t]).at = "main"
    /\ state' = [state EXCEPT ![Last(frames[t]).op] = "Finished"]
    /\ frames' = [frames EXCEPT ![t][Len(frames[t])].at = "Finished"]
    /\ UNCHANGED <<cancelled, dependencies, queue, mains>>

(***************************************************************************)
(* The queue                                                               *)
(***************************************************************************)
\* Fault: what did not run stays in the queue.
Leave_unlessReady(o, ops) == IF state[o] = "Ready" THEN ops ELSE SelectSeq(ops, LAMBDA p : p # o)

\* removeObject: takes every entry equal to o; kept[i] is what the first i leave.
Leave(o, ops) ==
    LET kept[i \in 0 .. Len(ops)] ==
            IF i = 0 THEN <<>>
            ELSE IF ops[i] = o THEN kept[i - 1] ELSE Append(kept[i - 1], ops[i])
    IN  kept[Len(ops)]

\* addOperation: a queue that is suspended, or an operation that is not ready, and
\* the operation leaves the queue again without having run.
addOperation(t, o) ==
    IF ~suspended /\ isReady(o)
    THEN /\ operations' = Append(operations, o)
         /\ start(t, frames[t], o, "addOperation", 0, 0)
         /\ UNCHANGED suspended
    ELSE /\ operations' = Leave(o, Append(operations, o))
         /\ UNCHANGED <<state, cancelled, dependencies, suspended, frames, mains>>

\* setSuspended goes on at round i of n, the length of the queue when it began: it
\* starts the next entry that is ready now, past the end there is nil. As
\* ListedInProgress says, no entry ever is.
Resume(t, fs, i, n) ==
    LET due == {k \in i..n : k <= Len(operations) /\ isReady(operations[k])}
    IN  IF due = {}
        THEN /\ frames' = [frames EXCEPT ![t] = fs]
             /\ UNCHANGED <<state, cancelled, dependencies, mains>>
        ELSE LET k == Min(due) IN start(t, fs, operations[k], "setSuspended", k, n)

setSuspended(t, b) ==
    /\ suspended' = b
    /\ UNCHANGED operations
    /\ IF b THEN UNCHANGED <<state, cancelled, dependencies, frames, mains>>
            ELSE Resume(t, frames[t], 1, Len(operations))

\* The observers of isFinished have returned, the completion block is sent its
\* message, and start returns.
StartReturns(t) ==
    /\ frames[t] # <<>> /\ Last(frames[t]).at = "Finished"
    /\ LET f == Last(frames[t])
           fs == Front(frames[t])
       IN  IF f.caller = "setSuspended"
           THEN Resume(t, fs, f.round + 1, f.rounds) /\ UNCHANGED queue
           ELSE /\ frames' = [frames EXCEPT ![t] = fs]
                /\ IF f.caller = "addOperation"
                   THEN /\ operations' = Leave(f.op, operations)
                        /\ UNCHANGED suspended
                   ELSE UNCHANGED queue
                /\ UNCHANGED <<state, cancelled, dependencies, mains>>

(***************************************************************************)
(* Cancelling and dependencies                                             *)
(***************************************************************************)
cancel(os) ==
    /\ cancelled' = [o \in Operations |-> cancelled[o] \/ o \in os]
    /\ UNCHANGED <<state, dependencies, queue, frames, mains>>

cancelAllOperations == cancel(ToSet(operations))

\* Fault: a dependency is added to an operation that has started.
addDependency_late(o, d) ==
    /\ dependencies' = [dependencies EXCEPT ![o] = @ \cup {d}]
    /\ UNCHANGED <<state, cancelled, queue, frames, mains>>

addDependency(o, d) ==
    /\ state[o] = "Ready"
    /\ dependencies' = [dependencies EXCEPT ![o] = @ \cup {d}]
    /\ UNCHANGED <<state, cancelled, queue, frames, mains>>

removeDependency(o, d) ==
    /\ d \in dependencies[o]
    /\ dependencies' = [dependencies EXCEPT ![o] = @ \ {d}]
    /\ UNCHANGED <<state, cancelled, queue, frames, mains>>

Next ==
    \/ \E t \in Threads :
          \/ \E o \in Operations : StartByGuest(t, o) \/ addOperation(t, o)
          \/ Main(t) \/ MainReturns(t) \/ StartReturns(t)
          \/ \E b \in BOOLEAN : setSuspended(t, b)
    \/ \E o \in Operations : cancel({o})
    \/ cancelAllOperations
    \/ \E o, d \in Operations : addDependency(o, d) \/ removeDependency(o, d)

Spec == Init /\ [][Next]_vars

(***************************************************************************)
(* Properties                                                              *)
(***************************************************************************)
\* The three states, and frames of started operations only.
TypeOK ==
    /\ state \in [Operations -> {"Ready", "Executing", "Finished"}]
    /\ dependencies \in [Operations -> SUBSET Operations]
    /\ operations \in Seq(Operations)
    /\ \A t \in Threads : \A f \in ToSet(frames[t]) :
          /\ f.op \in Operations
          /\ state[f.op] = IF f.at = "Finished" THEN "Finished" ELSE "Executing"

\* However often an operation is started, added and resumed, by whatever threads, its
\* main is called once (the early return of start).
MainOnce == \A o \in Operations : mains[o] <= 1

\* An operation that the queue started has no unfinished dependency, then or later
\* (isReady in addOperation: and setSuspended:, the early return of addDependency:).
DependenciesFirst ==
    \A t \in Threads : \A f \in ToSet(frames[t]) :
       f.caller # "guest" => \A d \in dependencies[f.op] : Finished(d)

\* The array of the queue holds an operation only while the addOperation: that put it
\* there is in progress, so a queue nobody is adding to is empty (addOperation:).
ListedInProgress ==
    \A o \in ToSet(operations) : \E t \in Threads : \E f \in ToSet(frames[t]) :
       f.op = o /\ f.caller = "addOperation"

=============================================================================
