------------------------------ MODULE Dispatch ------------------------------
(***************************************************************************)
(* Grand Central Dispatch (src/src/libc/dispatch.rs). A block that is      *)
(* dispatched, on whatever queue and however, is called at once on the     *)
(* thread that dispatches it; what is kept is the set of once tokens, the  *)
(* values of semaphores, the values set on queues and one stack of current *)
(* queues for all threads. Guest threads run between any two calls of the  *)
(* host, so the blocks of several threads overlap.                         *)
(***************************************************************************)
EXTENDS Integers, SequencesExt

CONSTANTS Threads, Tokens,
          MaxHandles,   \* bound: queues and semaphores created
          MaxCount,     \* bound: value of a semaphore
          MaxDepth      \* bound: blocks within blocks on one thread

DispatchAssumption == Tokens \cap {"block", "function", "group"} = {}

VARIABLES once_tokens,
          current_queue_stack,
          queue_specifics,      \* queues that have a value for the one key
          next_queue_handle,
          queues,               \* handles given out by dispatch_queue_create
          semaphores,           \* handle -> value
          frames,               \* thread -> the calls of guest blocks in progress
          ran                   \* history: times the block of a token was called

vars == <<once_tokens, current_queue_stack, queue_specifics, next_queue_handle,
          queues, semaphores, frames, ran>>

MAIN_QUEUE_PTR == 1
GLOBAL_QUEUE_PTR == 3
QueueBit == 2 ^ 24
SemaphoreBits == 3 * 2 ^ 24

Queues == {MAIN_QUEUE_PTR, GLOBAL_QUEUE_PTR} \cup queues

Init ==
    /\ once_tokens = {} /\ current_queue_stack = <<>> /\ queue_specifics = {}
    /\ next_queue_handle = 0 /\ queues = {} /\ semaphores = <<>>
    /\ frames = [t \in Threads |-> <<>>]
    /\ ran = [tok \in Tokens |-> 0]

(***************************************************************************)
(* Calls of guest blocks                                                   *)
(***************************************************************************)
\* A block or function called for queue q, n more times after this one.
Frame(kind, q, n) == [kind |-> kind, queue |-> q, again |-> n]

Call(t, frame) ==
    /\ Len(frames[t]) < MaxDepth
    /\ frames' = [frames EXCEPT ![t] = Append(@, frame)]

\* The queue that the innermost block of t was dispatched on.
QueueOf(t) == IF frames[t] = <<>> THEN MAIN_QUEUE_PTR ELSE Last(frames[t]).queue


TakeToken(tok) == once_tokens' = once_tokens \cup {tok}

\* A call that finds the token taken returns at once.
dispatch_once(t, tok) ==
    /\ tok \notin once_tokens
    /\ TakeToken(tok)
    /\ Call(t, Frame(tok, QueueOf(t), 0))
    /\ ran' = [ran EXCEPT ![tok] = IF @ = 2 THEN 2 ELSE @ + 1]
    /\ UNCHANGED <<current_queue_stack, queue_specifics, next_queue_handle, queues,
                   semaphores>>

(***************************************************************************)
(* Queues                                                                  *)
(***************************************************************************)

NewHandle == next_queue_handle + 2

dispatch_queue_create ==
    /\ next_queue_handle < 2 * MaxHandles
    /\ next_queue_handle' = NewHandle
    /\ queues' = queues \cup {NewHandle + QueueBit}
    /\ UNCHANGED <<once_tokens, current_queue_stack, queue_specifics, semaphores,
                   frames, ran>>

dispatch_queue_set_specific(q) ==
    /\ \/ queue_specifics' = queue_specifics \cup {q}
       \/ queue_specifics' = queue_specifics \ {q}
    /\ UNCHANGED <<once_tokens, current_queue_stack, next_queue_handle, queues,
                   semaphores, frames, ran>>

\* Fault: the current queue is the one that was entered first.
CurrentQueue_outer ==
    IF current_queue_stack = <<>> THEN MAIN_QUEUE_PTR ELSE Head(current_queue_stack)

CurrentQueue ==
    IF current_queue_stack = <<>> THEN MAIN_QUEUE_PTR ELSE Last(current_queue_stack)

dispatch_get_specific == CurrentQueue \in queue_specifics

\* dispatch_async, dispatch_sync and the barriers of blocks.
dispatch_async(t, q) ==
    /\ Call(t, Frame("block", q, 0))
    /\ current_queue_stack' = Append(current_queue_stack, q)
    /\ UNCHANGED <<once_tokens, queue_specifics, next_queue_handle, queues, semaphores,
                   ran>>

\* The same of functions (.._f), dispatch_after and dispatch_apply.
dispatch_async_f(t, q) ==
    /\ \E n \in 0 .. 1 : Call(t, Frame("function", q, n))
    /\ UNCHANGED <<once_tokens, current_queue_stack, queue_specifics, next_queue_handle,
                   queues, semaphores, ran>>

\* Fault: the queue of a block stays on the stack.
LeaveQueue_kept(frame) == current_queue_stack

LeaveQueue(frame) ==
    IF frame.kind = "block" THEN Front(current_queue_stack) ELSE current_queue_stack

BlockReturns(t) ==
    /\ frames[t] # <<>>
    /\ LET frame == Last(frames[t]) IN
       /\ current_queue_stack' = LeaveQueue(frame)
       /\ frames' = [frames EXCEPT ![t] =
              IF frame.again = 0 THEN Front(@)
              ELSE Append(Front(@), [frame EXCEPT !.again = @ - 1])]
    /\ UNCHANGED <<once_tokens, queue_specifics, next_queue_handle, queues, semaphores,
                   ran>>

(***************************************************************************)
(* Groups: one handle stands for all of them, and dispatch_group_wait and  *)
(* the counting of a group do nothing                                      *)
(***************************************************************************)
dispatch_group_async(t, q) ==
    /\ Call(t, Frame("group", q, 0))
    /\ UNCHANGED <<once_tokens, current_queue_stack, queue_specifics, next_queue_handle,
                   queues, semaphores, ran>>

dispatch_group_notify(t, q) ==
    /\ Call(t, Frame("function", q, 0))
    /\ UNCHANGED <<once_tokens, current_queue_stack, queue_specifics, next_queue_handle,
                   queues, semaphores, ran>>

(***************************************************************************)
(* Semaphores                                                              *)
(***************************************************************************)
dispatch_semaphore_create ==
    /\ next_queue_handle < 2 * MaxHandles
    /\ next_queue_handle' = NewHandle
    /\ \E value \in 0 .. 1 :
          LET h == NewHandle + SemaphoreBits IN
          semaphores' = [s \in DOMAIN semaphores \cup {h} |->
                            IF s = h THEN value ELSE semaphores[s]]
    /\ UNCHANGED <<once_tokens, current_queue_stack, queue_specifics, queues, frames, ran>>

dispatch_semaphore_wait(s) ==
    /\ semaphores[s] > -MaxCount
    /\ semaphores' = [semaphores EXCEPT ![s] = @ - 1]
    /\ UNCHANGED <<once_tokens, current_queue_stack, queue_specifics, next_queue_handle,
                   queues, frames, ran>>

dispatch_semaphore_signal(s) ==
    /\ semaphores[s] < MaxCount
    /\ semaphores' = [semaphores EXCEPT ![s] = @ + 1]
    /\ UNCHANGED <<once_tokens, current_queue_stack, queue_specifics, next_queue_handle,
                   queues, frames, ran>>

Next ==
    \/ dispatch_queue_create \/ dispatch_semaphore_create
    \/ \E q \in Queues : dispatch_queue_set_specific(q)
    \/ \E t \in Threads :
          \/ \E tok \in Tokens : dispatch_once(t, tok)
          \/ \E q \in Queues : \/ dispatch_async(t, q) \/ dispatch_async_f(t, q)
                               \/ dispatch_group_async(t, q) \/ dispatch_group_notify(t, q)
          \/ BlockReturns(t)
    \/ \E s \in DOMAIN semaphores : dispatch_semaphore_wait(s) \/ dispatch_semaphore_signal(s)

Spec == Init /\ [][Next]_vars

(***************************************************************************)
(* Properties                                                              *)
(***************************************************************************)
Indices(t, kind) == {i \in DOMAIN frames[t] : frames[t][i].kind = kind}

TypeOK ==
    /\ once_tokens \subseteq Tokens
    /\ current_queue_stack \in Seq(Queues)
    /\ Len(current_queue_stack) <= MaxDepth * Cardinality(Threads)
    /\ queue_specifics \subseteq Queues
    /\ next_queue_handle \in 0 .. 2 * MaxHandles
    /\ \A s \in DOMAIN semaphores : semaphores[s] \in Int
    /\ \A t \in Threads : \A i \in DOMAIN frames[t] : frames[t][i].queue \in Queues

\* dispatch_once calls the block of a token at most once, although the threads
\* that meet at it are not held up and the block may meet it again.
OnceAtMostOnce == \A tok \in Tokens : ran[tok] < 2

\* Every block on a queue is on the stack of current queues, which is empty
\* when no block runs.
StackBalanced ==
    Len(current_queue_stack) =
        Cardinality(UNION {{t} \X Indices(t, "block") : t \in Threads})

\* "Returns the value associated with key on the queue currently executing the
\* caller" (src/src/libc/dispatch.rs:643): in a block, the queue it was
\* dispatched on, whatever ran on other queues in between.
SpecificOfCaller == \A t \in Threads :
    (frames[t] # <<>> /\ Last(frames[t]).kind = "block") =>
        (dispatch_get_specific <=> QueueOf(t) \in queue_specifics)

=============================================================================
