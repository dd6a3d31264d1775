------------------------------ MODULE CondVars ------------------------------
(***************************************************************************)
(* The condition variables of src/src/libc/pthread/cond.rs.                *)
(*                                                                         *)
(* State::condition_variables maps the guest address of a pthread_cond_t   *)
(* to a CondHostObject {waiting, waking, curr_mutex, timed_out}.  The      *)
(* guest memory at the address holds a magic number: "STATIC" is           *)
(* MAGIC_COND_STATIC (PTHREAD_COND_INITIALIZER), "COND" is MAGIC_COND, and *)
(* "JUNK" is any other content.                                            *)
(***************************************************************************)
EXTENDS MutexState, Sequences

CONSTANTS CondPtrs,     \* guest addresses of the condition variables
          InitialMagic  \* what guest memory may hold before the first call

ASSUME CondAssumption ==
    /\ CondPtrs \subseteq Nat
    /\ InitialMagic \subseteq {"STATIC", "JUNK"}

VARIABLES conds,        \* State::condition_variables
          cond_word     \* the magic number in guest memory

condVars == <<conds, cond_word>>

CondHostObject == [present    : BOOLEAN,
                   waiting    : Seq(ThreadIds),
                   waking     : Seq(ThreadIds),
                   curr_mutex : MutexIds \cup {NoMutex},
                   timed_out  : SUBSET ThreadIds]

CondMapOK(cs) == cs \in [CondPtrs -> CondHostObject]

CondTypeOK ==
    /\ CondMapOK(conds)
    /\ cond_word \in [CondPtrs -> {"STATIC", "COND", "JUNK"}]

FreshCond == [present |-> TRUE, waiting |-> <<>>, waking |-> <<>>,
              curr_mutex |-> NoMutex, timed_out |-> {}]
NoCond    == [FreshCond EXCEPT !.present = FALSE]

CondInit ==
    /\ conds = [c \in CondPtrs |-> NoCond]
    /\ cond_word \in [CondPtrs -> InitialMagic]

\* Fault: the thread stays in its queue.
Without_noop(queue, t) == queue

\* VecDeque::retain(|u| u != t).  A thread is in a queue at most once (see
\* CondQueues in GuestThreads), so retain drops at most one position.
Without(queue, t) ==
    IF \E i \in 1 .. Len(queue) : queue[i] = t
    THEN LET i == CHOOSE i \in 1 .. Len(queue) : queue[i] = t
         IN  SubSeq(queue, 1, i - 1) \o SubSeq(queue, i + 1, Len(queue))
    ELSE queue

(***************************************************************************)
(* check_or_register_cond: a statically initialised variable is registered *)
(* by its first use, unknown memory is EINVAL.                             *)
(***************************************************************************)
CondKnown(c) == cond_word[c] \in {"STATIC", "COND"}

RegisterCond(c) == cond_word' = [cond_word EXCEPT ![c] = "COND"]

\* The map after check_or_register_cond.
CondsAt(c) == IF cond_word[c] = "STATIC"
              THEN [conds EXCEPT ![c] = FreshCond]
              ELSE conds

\* pthread_cond_init always replaces the host object.
InitCond(c) ==
    /\ cond_word' = [cond_word EXCEPT ![c] = "COND"]
    /\ conds' = [conds EXCEPT ![c] = FreshCond]

\* The assertion of pthread_cond_wait and pthread_cond_timedwait: all the
\* current waiters use the same mutex.
SameMutex(cs, c, id) ==
    \/ cs[c].curr_mutex = id
    \/ cs[c].waking = <<>> /\ cs[c].waiting = <<>>

Enqueue(cs, c, id, t) ==
    [cs EXCEPT ![c].curr_mutex = id, ![c].waiting = Append(@, t)]

SignalOne(cs, c) ==
    IF cs[c].waiting = <<>>
    THEN cs
    ELSE [cs EXCEPT ![c].waking = Append(@, Head(cs[c].waiting)),
                    ![c].waiting = Tail(@)]

SignalAll(cs, c) ==
    [cs EXCEPT ![c].waking = @ \o cs[c].waiting, ![c].waiting = <<>>]

\* The scheduler lets the front of the waking queue go.
PopWaking(cs, c) == [cs EXCEPT ![c].waking = Tail(@)]

IsFrontWaking(cs, c, t) == cs[c].waking # <<>> /\ Head(cs[c].waking) = t

\* Fault: a thread that was signalled already stays in waking.
TimeOut_waking(cs, c, t) ==
    [cs EXCEPT ![c].timed_out = @ \cup {t}, ![c].waiting = Without(@, t)]

\* The scheduler finds that the deadline of a waiting thread has passed.
TimeOut(cs, c, t) ==
    [cs EXCEPT ![c].timed_out = @ \cup {t},
               ![c].waking    = Without(@, t),
               ![c].waiting   = Without(@, t)]

\* Fault: the mark of a time-out is not removed.
ClearTimedOut_noop(cs, c, t) == cs

\* The call returns, with ETIMEDOUT if the thread was marked.
ClearTimedOut(cs, c, t) == [cs EXCEPT ![c].timed_out = @ \ {t}]

=============================================================================
