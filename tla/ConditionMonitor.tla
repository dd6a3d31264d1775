--------------------------- MODULE ConditionMonitor ---------------------------
(***************************************************************************)
(* NSCondition (src/src/frameworks/foundation/ns_condition.rs): a lock and *)
(* a condition in one object, with a queue for each. Notifications go to a *)
(* thread, not to the condition: a waiter with a time limit finds out      *)
(* whether it was notified by looking for itself in the queue.             *)
(***************************************************************************)
EXTENDS ThreadBlocks, SequencesExt, FiniteSetTheorems, TLAPS

CONSTANT NoOwner

MonitorAssumption == NoOwner \notin Threads

VARIABLES locked, lock_waiting_threads, waiting_threads, \* NSConditionHostObject
          call,         \* per thread: "guest", or the call it is suspended in
          date,         \* limit of its wait: "none", "pending", "passed"
          answer,       \* !timed_out of its last wait: "none", "notified", "late"
          owner         \* history: who has the lock

monitorVars == <<locked, lock_waiting_threads, waiting_threads, call, date, answer, owner>>
vars == <<monitorVars, blockVars>>

Init ==
    /\ BlocksInit
    /\ locked = FALSE
    /\ lock_waiting_threads = <<>> /\ waiting_threads = <<>>
    /\ call = [t \in Threads |-> "guest"]
    /\ date = [t \in Threads |-> "none"]
    /\ answer = [t \in Threads |-> "none"]
    /\ owner = NoOwner

InGuest(t) == call[t] = "guest" /\ Runnable(t)

(***************************************************************************)
(* lock: one turn of its loop                                              *)
(***************************************************************************)
LockTurn(t) ==
    \/ /\ ~locked
       /\ locked' = TRUE
       /\ owner' = t
       /\ call' = [call EXCEPT ![t] = "guest"]
       /\ UNCHANGED <<lock_waiting_threads, blockVars>>
    \/ /\ locked
       /\ lock_waiting_threads' = Append(lock_waiting_threads, t)
       /\ call' = [call EXCEPT ![t] = "lock"]
       /\ SuspendSelf(t)
       /\ UNCHANGED <<locked, owner>>

lock(t) ==
    /\ InGuest(t) /\ owner # t
    /\ LockTurn(t)
    /\ UNCHANGED <<waiting_threads, date, answer>>

LockAgain(t) ==
    /\ call[t] = "lock" /\ Runnable(t)
    /\ LockTurn(t)
    /\ UNCHANGED <<waiting_threads, date, answer>>

(***************************************************************************)
(* unlock, and the unlock inside wait and waitUntilDate                    *)
(***************************************************************************)
\* Fault: the head leaves the queue and is not woken.
HeadOf_lost(queue) == {}

\* VecDeque::pop_front: the thread to wake, if any.
HeadOf(queue) == IF queue = <<>> THEN {} ELSE {Head(queue)}

WithoutHead(queue) == IF queue = <<>> THEN <<>> ELSE Tail(queue)

GiveBack ==
    /\ locked' = FALSE
    /\ owner' = NoOwner
    /\ lock_waiting_threads' = WithoutHead(lock_waiting_threads)

unlock(t) ==
    /\ InGuest(t) /\ owner = t
    /\ GiveBack
    /\ SetNotBlocked(HeadOf(lock_waiting_threads))
    /\ UNCHANGED <<waiting_threads, call, date, answer>>

(***************************************************************************)
(* wait and waitUntilDate                                                  *)
(***************************************************************************)
\* Fault: a waiter is suspended, whether it has a time limit or not.
Park_suspends(t, how) ==
    /\ InGuest(t) /\ owner = t
    /\ GiveBack
    /\ waiting_threads' = Append(waiting_threads, t)
    /\ SetNotBlockedThenBlock(HeadOf(lock_waiting_threads), t, FALSE)
    /\ call' = [call EXCEPT ![t] = how]
    /\ answer' = [answer EXCEPT ![t] = "none"]

Park(t, how) ==
    /\ InGuest(t) /\ owner = t
    /\ GiveBack
    /\ waiting_threads' = Append(waiting_threads, t)
    /\ SetNotBlockedThenBlock(HeadOf(lock_waiting_threads), t, how = "timed")
    /\ call' = [call EXCEPT ![t] = how]
    /\ answer' = [answer EXCEPT ![t] = "none"]

wait(t) == Park(t, "wait") /\ UNCHANGED date

\* A date that has passed returns FALSE at once, with the lock.
waitUntilDate(t) == Park(t, "timed") /\ date' = [date EXCEPT ![t] = "pending"]

WaitAgain(t) ==
    /\ call[t] = "wait" /\ Runnable(t)
    /\ answer' = [answer EXCEPT ![t] = "notified"]
    /\ LockTurn(t)
    /\ UNCHANGED <<waiting_threads, date>>

\* Fault: the thread looks at the clock to find out whether it was notified.
TimedAgain_clock(t) ==
    /\ call[t] = "timed" /\ Runnable(t)
    /\ waiting_threads' = RemoveFirst(waiting_threads, t)
    /\ answer' = [answer EXCEPT ![t] = IF date[t] = "passed" THEN "late" ELSE "notified"]
    /\ date' = [date EXCEPT ![t] = "none"]
    /\ LockTurn(t)

TimedAgain(t) ==
    /\ call[t] = "timed" /\ Runnable(t)
    /\ waiting_threads' = RemoveFirst(waiting_threads, t)
    /\ answer' = [answer EXCEPT ![t] =
           IF t \in ToSet(waiting_threads) THEN "late" ELSE "notified"]
    /\ date' = [date EXCEPT ![t] = "none"]
    /\ LockTurn(t)

DatePasses(t) ==
    /\ date[t] = "pending"
    /\ date' = [date EXCEPT ![t] = "passed"]
    /\ UNCHANGED <<locked, lock_waiting_threads, waiting_threads, call, answer, owner, blockVars>>

WakeUp(t) ==
    /\ date[t] = "passed"
    /\ SleepEnds(t)
    /\ UNCHANGED monitorVars

(***************************************************************************)
(* signal and broadcast, with or without the lock                          *)
(***************************************************************************)
\* Fault: the thread notified is unblocked and stays in the queue.
Notify_kept(ts, rest) ==
    /\ SetNotBlocked(ts)
    /\ UNCHANGED monitorVars

Notify(ts, rest) ==
    /\ SetNotBlocked(ts)
    /\ waiting_threads' = rest
    /\ UNCHANGED <<locked, lock_waiting_threads, call, date, answer, owner>>

signal(t) ==
    /\ InGuest(t) /\ waiting_threads # <<>>
    /\ Notify(HeadOf(waiting_threads), WithoutHead(waiting_threads))

broadcast(t) ==
    /\ InGuest(t) /\ waiting_threads # <<>>
    /\ Notify(ToSet(waiting_threads), <<>>)

Turn(t) == LockAgain(t) \/ WaitAgain(t) \/ TimedAgain(t)

Next == \E t \in Threads :
    \/ lock(t) \/ unlock(t) \/ wait(t) \/ waitUntilDate(t)
    \/ signal(t) \/ broadcast(t)
    \/ Turn(t) \/ DatePasses(t) \/ WakeUp(t)

Spec == Init /\ [][Next]_vars

\* A runnable thread is scheduled, time passes and sleep ends. Nothing is
\* assumed of the guest: it need not unlock or signal.
FairSpec == Spec /\ \A t \in Threads :
    WF_vars(Turn(t)) /\ WF_vars(DatePasses(t)) /\ WF_vars(WakeUp(t))

(***************************************************************************)
(* Properties                                                              *)
(***************************************************************************)
TypeOK ==
    /\ BlocksTypeOK
    /\ locked \in BOOLEAN /\ owner \in Threads \cup {NoOwner}
    /\ lock_waiting_threads \in Seq(Threads) /\ waiting_threads \in Seq(Threads)
    /\ call \in [Threads -> {"guest", "lock", "wait", "timed"}]
    /\ date \in [Threads -> {"none", "pending", "passed"}]
    /\ answer \in [Threads -> {"none", "notified", "late"}]

Waits(t) == call[t] \in {"wait", "timed"} /\ t \in ToSet(waiting_threads)

Enters(t) == call[t] # "guest" /\ ~Waits(t)

\* NSCondition as its users see it (PROPERTY Monitor!Spec): giving the lock up
\* and waiting are one step, a signal reaches exactly one waiter and
\* waitUntilDate answers YES exactly if one reached it, even when its sleep was
\* over before the signal came.
Monitor == INSTANCE AbstractMonitor
    WITH entering <- {t \in Threads : Enters(t)},
         waiting <- {t \in Threads : Waits(t)},
         answer <- [t \in Threads |-> IF call[t] \notin {"wait", "timed"} THEN answer[t]
                                      ELSE IF Waits(t) THEN "none" ELSE "notified"]

Implements == Monitor!Spec

\* A thread is in the lock queue only while it is suspended in lock, and in the
\* condition's queue only while it waits: a stale entry would take a wake-up
\* from a thread that needs it and unblock this one anywhere.
QueuesExact == \A t \in Threads :
    /\ t \in ToSet(lock_waiting_threads) <=> call[t] = "lock" /\ suspended[t] > 0
    /\ t \in ToSet(waiting_threads) => call[t] \in {"wait", "timed"}
    /\ Cardinality({i \in DOMAIN lock_waiting_threads : lock_waiting_threads[i] = t}) <= 1
    /\ Cardinality({i \in DOMAIN waiting_threads : waiting_threads[i] = t}) <= 1

\* The lock does not stay free while a thread wants it, whether that thread
\* queued for the lock or was notified: nobody's wake-up is lost.
FreeLockTaken ==
    (~locked /\ \E t \in Threads : Enters(t)) ~> (locked \/ \A t \in Threads : ~Enters(t))

\* waitUntilDate gets past its sleep and asks for the lock again.
TimedWaitEnds == \A t \in Threads : (call[t] = "timed") ~> (call[t] # "timed")

(***************************************************************************)
(* ConditionMonitor implements AbstractMonitor, for any number of threads. *)
(* What a thread may do next rests on where it is queued: who runs again   *)
(* in wait was notified, who runs again in waitUntilDate was if and only   *)
(* if it has left the queue, and who runs again in lock is in no queue.    *)
(***************************************************************************)
Once(q) == \A i, j \in DOMAIN q : q[i] = q[j] => i = j

MonitorInv ==
    /\ TypeOK
    /\ locked <=> owner # NoOwner
    /\ Once(lock_waiting_threads) /\ Once(waiting_threads)
    /\ \A t \in Threads :
          /\ t \in ToSet(lock_waiting_threads) <=> call[t] = "lock" /\ suspended[t] > 0
          /\ t \in ToSet(waiting_threads) => call[t] \in {"wait", "timed"}
          /\ call[t] = "wait" => (suspended[t] > 0 <=> t \in ToSet(waiting_threads))
          /\ call[t] # "guest" => owner # t

\* The end, the front and any one place of a queue.
LEMMA Joined ==
    ASSUME NEW S, NEW q \in Seq(S), NEW t \in S, t \notin ToSet(q), Once(q)
    PROVE  /\ Append(q, t) \in Seq(S) /\ Once(Append(q, t))
           /\ ToSet(Append(q, t)) = ToSet(q) \cup {t}
<1> DEFINE new == Append(q, t)
<1>1. /\ new \in Seq(S) /\ DOMAIN new = 1 .. Len(q) + 1 /\ DOMAIN q = 1 .. Len(q)
      /\ Len(q) \in Nat /\ new[Len(q) + 1] = t
      /\ \A i \in 1 .. Len(q) : new[i] = q[i]
  OBVIOUS
<1>2. \A i \in 1 .. Len(q) : q[i] # t
  BY <1>1 DEF ToSet
<1> HIDE DEF new
<1>3. Once(new)
  BY <1>1, <1>2 DEF Once
<1>4. ASSUME NEW u PROVE u \in ToSet(new) <=> u \in ToSet(q) \cup {t}
  <2>1. u \in ToSet(new) => u \in ToSet(q) \cup {t}
    BY <1>1 DEF ToSet
  <2>2. u \in ToSet(q) => u \in ToSet(new)
    BY <1>1 DEF ToSet
  <2>3. t \in ToSet(new)
    <3>1. Len(q) + 1 \in DOMAIN new
      BY <1>1
    <3>2. QED
      BY <1>1, <3>1 DEF ToSet
  <2>4. QED
    BY <2>1, <2>2, <2>3
<1>5. QED
  BY <1>1, <1>3, <1>4 DEF new

LEMMA Served ==
    ASSUME NEW S, NEW q \in Seq(S), Once(q)
    PROVE  /\ WithoutHead(q) \in Seq(S) /\ Once(WithoutHead(q))
           /\ ToSet(WithoutHead(q)) = ToSet(q) \ HeadOf(q)
           /\ HeadOf(q) \subseteq ToSet(q)
           /\ q # <<>> => \E t \in S : HeadOf(q) = {t}
<1>1. CASE q = <<>>
  BY <1>1 DEF WithoutHead, HeadOf, ToSet
<1>2. CASE q # <<>>
  <2> DEFINE new == Tail(q)
  <2>1. /\ WithoutHead(q) = new /\ HeadOf(q) = {q[1]} /\ q[1] \in S
        /\ new \in Seq(S) /\ Len(q) \in Nat \ {0}
        /\ DOMAIN new = 1 .. Len(q) - 1 /\ DOMAIN q = 1 .. Len(q)
        /\ \A i \in 1 .. Len(q) - 1 : new[i] = q[i + 1]
    BY <1>2 DEF WithoutHead, HeadOf
  <2> HIDE DEF new
  <2>2. Once(new)
    <3>1. ASSUME NEW i \in DOMAIN new, NEW j \in DOMAIN new, new[i] = new[j] PROVE i = j
      <4>1. /\ i \in Nat /\ j \in Nat /\ i + 1 \in DOMAIN q /\ j + 1 \in DOMAIN q
            /\ q[i + 1] = q[j + 1]
        BY <2>1, <3>1
      <4>2. i + 1 = j + 1
        BY <4>1 DEF Once
      <4>3. QED
        BY <4>1, <4>2
    <3>2. QED
      BY <3>1 DEF Once
  <2>3. ASSUME NEW u \in ToSet(new) PROVE u \in ToSet(q) /\ u # q[1]
    <3>1. PICK i \in 1 .. Len(q) - 1 : u = q[i + 1]
      BY <2>1 DEF ToSet
    <3>2. i + 1 \in DOMAIN q /\ 1 \in DOMAIN q /\ i + 1 # 1
      BY <2>1
    <3>3. QED
      BY <3>1, <3>2 DEF ToSet, Once
  <2>4. ASSUME NEW u \in ToSet(q), u # q[1] PROVE u \in ToSet(new)
    <3>1. PICK i \in 1 .. Len(q) : u = q[i]
      BY <2>1 DEF ToSet
    <3>2. i - 1 \in DOMAIN new /\ (i - 1) + 1 = i
      BY <2>1, <2>4, <3>1
    <3>3. QED
      BY <2>1, <3>1, <3>2 DEF ToSet
  <2>5. q[1] \in ToSet(q)
    BY <2>1 DEF ToSet
  <2>6. QED
    BY <1>2, <2>1, <2>2, <2>3, <2>4, <2>5
<1>3. QED
  BY <1>1, <1>2

LEMMA FirstFound ==
    ASSUME NEW S, NEW q \in Seq(S), NEW t, Once(q), NEW k \in 1 .. Len(q), q[k] = t
    PROVE  RemoveFirst(q, t) = RemoveAt(q, k)
<1> DEFINE I == {i \in 1 .. Len(q) : q[i] = t}
<1>1. I = {k} /\ k \in Int
  BY DEF Once
<1>2. (CHOOSE x \in I : \A y \in I : x =< y) = k
  <2>1. k \in I /\ \A y \in I : k =< y
    BY <1>1
  <2>2. \A x \in I : x = k
    BY <1>1
  <2>3. QED
    BY <2>1, <2>2
<1> HIDE DEF I
<1>3. SelectInSeq(q, LAMBDA v : v = t) = k
  BY <1>1, <1>2 DEF SelectInSeq, Min, I
<1>4. QED
  BY <1>3 DEF RemoveFirst

LEMMA Left ==
    ASSUME NEW S, NEW q \in Seq(S), NEW t, Once(q)
    PROVE  /\ RemoveFirst(q, t) \in Seq(S) /\ Once(RemoveFirst(q, t))
           /\ ToSet(RemoveFirst(q, t)) = ToSet(q) \ {t}
<1>0. DOMAIN q = 1 .. Len(q) /\ Len(q) \in Nat
  OBVIOUS
<1>1. CASE t \notin ToSet(q)
  BY <1>0, <1>1 DEF ToSet, RemoveFirst
<1>2. CASE t \in ToSet(q)
  <2> DEFINE new == RemoveFirst(q, t)
  <2>1. PICK k \in 1 .. Len(q) : q[k] = t
    BY <1>0, <1>2 DEF ToSet
  <2>2. new = SubSeq(q, 1, k - 1) \o SubSeq(q, k + 1, Len(q))
    BY <2>1, FirstFound DEF RemoveAt
  <2>3. /\ new \in Seq(S) /\ DOMAIN new = 1 .. Len(q) - 1
        /\ \A i \in 1 .. k - 1 : new[i] = q[i]
        /\ \A i \in k .. Len(q) - 1 : new[i] = q[i + 1]
    <3> DEFINE a == SubSeq(q, 1, k - 1)
               b == SubSeq(q, k + 1, Len(q))
    <3>1. k \in Nat /\ 1 <= k /\ k <= Len(q)
      BY <1>0
    <3>2. /\ a \in Seq(S) /\ b \in Seq(S) /\ Len(a) = k - 1 /\ Len(b) = Len(q) - k
          /\ \A i \in 1 .. k - 1 : a[i] = q[i]
          /\ \A i \in 1 .. Len(q) - k : b[i] = q[i + k]
      BY <3>1
    <3> HIDE DEF a, b
    <3>4. /\ a \o b \in Seq(S) /\ Len(a \o b) = Len(q) - 1
          /\ \A i \in 1 .. k - 1 : (a \o b)[i] = a[i]
          /\ \A i \in 1 .. Len(q) - k : (a \o b)[(k - 1) + i] = b[i]
      <4>1. a \o b \in Seq(S) /\ Len(a \o b) = (k - 1) + (Len(q) - k)
        <5>1. a \in Seq(S) /\ b \in Seq(S)
          BY <3>2
        <5>2. a \o b \in Seq(S) /\ Len(a \o b) = Len(a) + Len(b)
          BY <5>1
        <5>3. QED
          BY <3>2, <5>2
      <4>2. \A i \in 1 .. k - 1 : (a \o b)[i] = a[i]
        BY <1>0, <3>2
      <4>3. \A i \in 1 .. Len(q) - k : (a \o b)[(k - 1) + i] = b[i]
        <5>1. \A i \in 1 .. Len(b) : (a \o b)[Len(a) + i] = b[i]
          BY <3>2
        <5>2. QED
          BY <3>2, <5>1
      <4>4. QED
        BY <1>0, <4>1, <4>2, <4>3
    <3>5. ASSUME NEW i \in k .. Len(q) - 1 PROVE (a \o b)[i] = q[i + 1]
      <4>1. PICK j \in 1 .. Len(q) - k : (k - 1) + j = i /\ j + k = i + 1
        <5>1. i - (k - 1) \in 1 .. Len(q) - k
          BY <1>0
        <5>2. (k - 1) + (i - (k - 1)) = i /\ (i - (k - 1)) + k = i + 1
          BY <1>0
        <5>3. QED
          BY <5>1, <5>2
      <4>2. QED
        BY <3>2, <3>4, <4>1
    <3>6. DOMAIN (a \o b) = 1 .. Len(q) - 1
      BY <3>4
    <3>7. QED
      BY <2>2, <3>2, <3>4, <3>5, <3>6 DEF a, b
  <2> HIDE DEF new
  <2> DEFINE old(i) == IF i < k THEN i ELSE i + 1
  <2>4. \A i \in DOMAIN new : /\ new[i] = q[old(i)] /\ old(i) \in DOMAIN q /\ old(i) # k
    BY <1>0, <2>3
  <2>5. \A i, j \in DOMAIN new : old(i) = old(j) => i = j
    BY <2>3
  <2>6. \A i \in DOMAIN q : i # k => \E j \in DOMAIN new : old(j) = i
    <3> SUFFICES ASSUME NEW i \in DOMAIN q, i # k
                 PROVE  \E j \in DOMAIN new : old(j) = i
      OBVIOUS
    <3>1. CASE i < k
      BY <1>0, <2>3, <3>1
    <3>2. CASE i > k
      <4>1. i - 1 \in DOMAIN new /\ old(i - 1) = i
        BY <1>0, <2>3, <3>2
      <4>2. QED
        BY <4>1
    <3>3. QED
      BY <1>0, <3>1, <3>2
  <2> HIDE DEF old
  <2>7. Once(new)
    BY <2>4, <2>5 DEF Once
  <2>8. ToSet(new) = ToSet(q) \ {t}
    BY <1>0, <2>1, <2>4, <2>6 DEF Once, ToSet
  <2>9. QED
    BY <2>3, <2>7, <2>8 DEF new
<1>3. QED
  BY <1>1, <1>2

\* Nobody is in a queue more often than once, as QueuesExact puts it.
LEMMA OnePlace ==
    ASSUME NEW S, NEW q \in Seq(S), Once(q), NEW t
    PROVE  Cardinality({i \in DOMAIN q : q[i] = t}) <= 1
<1> DEFINE I == {i \in DOMAIN q : q[i] = t}
<1>1. CASE I = {}
  BY <1>1, FS_EmptySet
<1>2. CASE \E i \in I : TRUE
  <2>1. PICK k \in I : TRUE
    BY <1>2
  <2>2. I = {k}
    BY <2>1 DEF Once
  <2>3. Cardinality({k}) = 1
    BY FS_Singleton
  <2>4. Cardinality(I) = 1
    BY <2>2, <2>3, Zenon
  <2> HIDE DEF I
  <2>5. I = {i \in DOMAIN q : q[i] = t}
    BY DEF I
  <2>6. QED
    BY <2>4, <2>5
<1>3. QED
  BY <1>1, <1>2

\* What a step does to what AbstractMonitor sees: nothing, or one of its actions.
Entering == {t \in Threads : Enters(t)}
Waiting == {t \in Threads : Waits(t)}
Answer == [t \in Threads |-> IF call[t] \notin {"wait", "timed"} THEN answer[t]
                             ELSE IF Waits(t) THEN "none" ELSE "notified"]

Seen == Monitor!Next \/ UNCHANGED <<owner, Entering, Waiting, Answer>>

\* Who waits is who is queued.
LEMMA WaitingQueue == MonitorInv => Waiting = ToSet(waiting_threads)
BY DEF MonitorInv, TypeOK, Waiting, Waits, ToSet

\* One turn of t in lock, whether it came from guest code, from the queue of the
\* lock or from a wait: it gets the lock, or wants it.
LEMMA TurnTaken ==
    ASSUME MonitorInv, MonitorAssumption, NEW t \in Threads, Runnable(t),
           t \notin ToSet(lock_waiting_threads), owner # t, LockTurn(t),
           waiting_threads' \in Seq(Threads), Once(waiting_threads'),
           ToSet(waiting_threads') = ToSet(waiting_threads) \ {t},
           date' \in [Threads -> {"none", "pending", "passed"}],
           answer' \in [Threads -> {"none", "notified", "late"}],
           \A u \in Threads \ {t} : answer'[u] = answer[u]
    PROVE  /\ MonitorInv'
           /\ Waiting' = Waiting \ {t}
           /\ \/ owner = NoOwner /\ owner' = t /\ Entering' = Entering \ {t}
              \/ owner' = owner /\ Entering' = Entering \cup {t}
           /\ Answer' = [Answer EXCEPT ![t] = answer'[t]]
<1> DEFINE L == lock_waiting_threads
           W == waiting_threads
<1>0. /\ L \in Seq(Threads) /\ call \in [Threads -> {"guest", "lock", "wait", "timed"}]
      /\ suspended \in [Threads -> Nat] /\ Waiting = ToSet(W)
      /\ Once(L) /\ suspended[t] = 0
      /\ answer \in [Threads -> {"none", "notified", "late"}]
  BY WaitingQueue DEF MonitorInv, TypeOK, BlocksTypeOK, Runnable
<1>1. ASSUME MonitorInv', call'[t] \notin {"wait", "timed"},
             \A u \in Threads \ {t} : call'[u] = call[u]
      PROVE  /\ Waiting' = Waiting \ {t}
             /\ Answer' = [Answer EXCEPT ![t] = answer'[t]]
             /\ \A u \in Threads \ {t} : Enters(u)' <=> Enters(u)
  <2>1. Waiting' = ToSet(W)'
    BY <1>1, WaitingQueue DEF MonitorInv, TypeOK, Waiting, Waits, ToSet
  <2>2. \A u \in Threads \ {t} : (Waits(u)' <=> Waits(u)) /\ (Enters(u)' <=> Enters(u))
    BY <1>1 DEF Waits, Enters
  <2>3. Answer' = [Answer EXCEPT ![t] = answer'[t]]
    BY <1>1, <2>2 DEF Answer
  <2>4. QED
    BY <1>0, <2>1, <2>2, <2>3
<1>2. CASE /\ ~locked /\ locked' = TRUE /\ owner' = t
           /\ call' = [call EXCEPT ![t] = "guest"]
           /\ UNCHANGED <<L, blockVars>>
  <2>1. MonitorInv'
    BY <1>0, <1>2 DEF MonitorInv, TypeOK, BlocksTypeOK, blockVars, MonitorAssumption
  <2>2. ~Enters(t)' /\ owner = NoOwner
    BY <1>0, <1>2 DEF Enters, MonitorInv
  <2>3. QED
    BY <1>0, <1>1, <1>2, <2>1, <2>2 DEF Entering
<1>3. CASE /\ locked
           /\ L' = Append(L, t)
           /\ call' = [call EXCEPT ![t] = "lock"]
           /\ SuspendSelf(t)
           /\ UNCHANGED <<locked, owner>>
  <2>1. L' \in Seq(Threads) /\ Once(L') /\ ToSet(L)' = ToSet(L) \cup {t}
    BY <1>0, <1>3, Joined
  <2>2. MonitorInv'
    BY <1>0, <1>3, <2>1 DEF MonitorInv, TypeOK, BlocksTypeOK, SuspendSelf
  <2>3. Enters(t)'
    BY <1>0, <1>3 DEF Enters, Waits
  <2>4. QED
    BY <1>0, <1>1, <1>3, <2>2, <2>3 DEF Entering
<1>4. QED
  BY <1>2, <1>3 DEF LockTurn

\* lock, and the second halves of lock, wait and waitUntilDate.
LEMMA LocksSeen ==
    ASSUME MonitorInv, MonitorAssumption, NEW t \in Threads, lock(t) \/ Turn(t)
    PROVE  MonitorInv' /\ Seen
<1>0. /\ Runnable(t) /\ t \notin ToSet(lock_waiting_threads) /\ owner # t /\ LockTurn(t)
      /\ waiting_threads \in Seq(Threads) /\ Once(waiting_threads)
      /\ date \in [Threads -> {"none", "pending", "passed"}]
      /\ answer \in [Threads -> {"none", "notified", "late"}]
      /\ Waiting = ToSet(waiting_threads)
  BY WaitingQueue
  DEF lock, Turn, LockAgain, WaitAgain, TimedAgain, InGuest, MonitorInv, TypeOK, Runnable
<1>1. t \in Waiting <=> Waits(t)
  BY DEF Waiting
<1>2. t \in Entering <=> Enters(t)
  BY DEF Entering
<1>3. Answer[t] = IF call[t] \notin {"wait", "timed"} THEN answer[t]
                  ELSE IF Waits(t) THEN "none" ELSE "notified"
  BY DEF Answer
<1>4. DOMAIN Answer = Threads /\ [Answer EXCEPT ![t] = Answer[t]] = Answer
  BY DEF Answer
<1>5. CASE /\ UNCHANGED <<waiting_threads, date>> /\ t \notin Waiting
           /\ \A u \in Threads \ {t} : answer'[u] = answer[u]
           /\ answer' \in [Threads -> {"none", "notified", "late"}]
           /\ answer'[t] = Answer[t]
  <2>1. ToSet(waiting_threads') = ToSet(waiting_threads) \ {t}
    BY <1>0, <1>5
  <2>2. /\ MonitorInv' /\ Waiting' = Waiting /\ Answer' = Answer
        /\ \/ owner = NoOwner /\ owner' = t /\ Entering' = Entering \ {t}
           \/ owner' = owner /\ Entering' = Entering \cup {t}
    BY <1>0, <1>4, <1>5, <2>1, TurnTaken
  <2>3. CASE owner = NoOwner /\ owner' = t /\ Entering' = Entering \ {t}
    <3>1. Monitor!Enter(t)
      BY <1>5, <2>2, <2>3 DEF Monitor!Enter, Entering, Waiting, Answer
    <3>2. QED
      BY <2>2, <3>1 DEF Seen, Monitor!Next
  <2>4. CASE owner' = owner /\ Entering' = Entering \cup {t} /\ t \in Entering
    BY <2>2, <2>4 DEF Seen
  <2>5. CASE owner' = owner /\ Entering' = Entering \cup {t} /\ t \notin Entering
    <3>1. Monitor!Ask(t)
      BY <1>0, <1>5, <2>2, <2>5 DEF Monitor!Ask, Entering, Waiting, Answer
    <3>2. QED
      BY <2>2, <3>1 DEF Seen, Monitor!Next
  <2>6. QED
    BY <2>2, <2>3, <2>4, <2>5
<1>6. CASE lock(t) \/ LockAgain(t)
  <2>1. t \notin Waiting /\ answer[t] = Answer[t]
    BY <1>1, <1>3, <1>6 DEF lock, LockAgain, InGuest, Waits
  <2>2. QED
    BY <1>0, <1>5, <1>6, <2>1 DEF lock, LockAgain
<1>7. CASE WaitAgain(t)
  <2>1. ~Waits(t) /\ call[t] = "wait" /\ answer' = [answer EXCEPT ![t] = "notified"]
    BY <1>7 DEF WaitAgain, Waits, MonitorInv, Runnable
  <2>2. QED
    BY <1>0, <1>1, <1>3, <1>5, <1>7, <2>1 DEF WaitAgain
<1>8. CASE TimedAgain(t)
  <2> DEFINE a == IF t \in ToSet(waiting_threads) THEN "late" ELSE "notified"
  <2>0. /\ call[t] = "timed" /\ answer' = [answer EXCEPT ![t] = a]
        /\ date' = [date EXCEPT ![t] = "none"]
        /\ waiting_threads' = RemoveFirst(waiting_threads, t)
    BY <1>8 DEF TimedAgain
  <2>1. /\ waiting_threads' \in Seq(Threads) /\ Once(waiting_threads')
        /\ ToSet(waiting_threads') = ToSet(waiting_threads) \ {t}
    BY <1>0, <2>0, Left
  <2>2. /\ date' \in [Threads -> {"none", "pending", "passed"}]
        /\ answer' \in [Threads -> {"none", "notified", "late"}]
        /\ answer'[t] = a /\ \A u \in Threads \ {t} : answer'[u] = answer[u]
    BY <1>0, <2>0
  <2> HIDE DEF a
  <2>3. /\ MonitorInv' /\ Waiting' = Waiting \ {t} /\ Answer' = [Answer EXCEPT ![t] = a]
        /\ \/ owner = NoOwner /\ owner' = t /\ Entering' = Entering \ {t}
           \/ owner' = owner /\ Entering' = Entering \cup {t}
    BY <1>0, <2>1, <2>2, TurnTaken
  <2>4. CASE t \in Waiting
    <3>1. a = "late" /\ t \notin Entering
      BY <1>0, <1>1, <1>2, <2>4 DEF Enters, a
    <3>2. Monitor!TimeOut(t)
      BY <2>3, <2>4, <3>1 DEF Monitor!TimeOut, Entering, Waiting, Answer
    <3>3. QED
      BY <2>3, <3>2 DEF Seen, Monitor!Next
  <2>5. CASE t \notin Waiting
    <3>1. a = "notified" /\ Answer[t] = a /\ t \in Entering
      BY <1>0, <1>1, <1>2, <1>3, <2>0, <2>5 DEF Enters, a
    <3>2. Waiting' = Waiting /\ Answer' = Answer
      BY <1>4, <2>3, <2>5, <3>1
    <3>3. CASE owner = NoOwner /\ owner' = t /\ Entering' = Entering \ {t}
      <4>1. Monitor!Enter(t)
        BY <2>5, <3>2, <3>3 DEF Monitor!Enter, Entering, Waiting, Answer
      <4>2. QED
        BY <2>3, <4>1 DEF Seen, Monitor!Next
    <3>4. CASE owner' = owner /\ Entering' = Entering \cup {t}
      BY <2>3, <3>1, <3>2, <3>4 DEF Seen
    <3>5. QED
      BY <2>3, <3>3, <3>4
  <2>6. QED
    BY <2>4, <2>5
<1>9. QED
  BY <1>6, <1>7, <1>8 DEF Turn

\* unlock, and the first halves of wait and waitUntilDate: the thread at the head of
\* the queue for the lock is woken, and is in no queue from now on.
LEMMA UnlockSeen ==
    ASSUME MonitorInv, MonitorAssumption, NEW t \in Threads, unlock(t)
    PROVE  MonitorInv' /\ Seen
<1> DEFINE L == lock_waiting_threads
<1>0. /\ L \in Seq(Threads) /\ Once(L) /\ suspended \in [Threads -> Nat]
      /\ blocked \in [Threads -> {"none", "sleeping"}]
  BY DEF MonitorInv, TypeOK, BlocksTypeOK
<1>1. /\ owner = t /\ owner' = NoOwner /\ locked' = FALSE
      /\ L' = WithoutHead(L) /\ SetNotBlocked(HeadOf(L))
      /\ UNCHANGED <<waiting_threads, call, date, answer>>
  BY DEF unlock, GiveBack
<1>2. /\ L' \in Seq(Threads) /\ Once(L') /\ ToSet(L)' = ToSet(L) \ HeadOf(L)
      /\ HeadOf(L) \subseteq ToSet(L)
  BY <1>0, <1>1, Served
<1>3. MonitorInv'
  <2>1. TypeOK'
    BY <1>0, <1>1, <1>2 DEF MonitorInv, TypeOK, BlocksTypeOK, SetNotBlocked
  <2>2. ASSUME NEW u \in Threads
        PROVE  /\ u \in ToSet(L)' <=> call'[u] = "lock" /\ suspended'[u] > 0
               /\ u \in ToSet(waiting_threads)' => call'[u] \in {"wait", "timed"}
               /\ call'[u] = "wait" => (suspended'[u] > 0 <=> u \in ToSet(waiting_threads)')
               /\ call'[u] # "guest" => owner' # u
    <3>1. ToSet(waiting_threads)' = ToSet(waiting_threads)
      BY <1>1
    <3>2. QED
      BY <1>0, <1>1, <1>2, <3>1 DEF MonitorInv, SetNotBlocked, MonitorAssumption
  <2>3. QED
    BY <1>1, <1>2, <2>1, <2>2 DEF MonitorInv
<1>4. UNCHANGED <<Entering, Waiting, Answer>>
  BY <1>1 DEF Entering, Waiting, Answer, Enters, Waits
<1>5. Monitor!Exit(t)
  BY <1>1, <1>4 DEF Monitor!Exit, Entering, Waiting, Answer
<1>6. QED
  BY <1>3, <1>5 DEF Seen, Monitor!Next

LEMMA ParkSeen ==
    ASSUME MonitorInv, MonitorAssumption, NEW t \in Threads, wait(t) \/ waitUntilDate(t)
    PROVE  MonitorInv' /\ Seen
<1> DEFINE L == lock_waiting_threads
           W == waiting_threads
<1>0. /\ L \in Seq(Threads) /\ Once(L) /\ suspended \in [Threads -> Nat]
      /\ W \in Seq(Threads) /\ Once(W) /\ Waiting = ToSet(W)
      /\ call \in [Threads -> {"guest", "lock", "wait", "timed"}]
      /\ blocked \in [Threads -> {"none", "sleeping"}]
      /\ date \in [Threads -> {"none", "pending", "passed"}]
      /\ answer \in [Threads -> {"none", "notified", "late"}]
  BY WaitingQueue DEF MonitorInv, TypeOK, BlocksTypeOK
<1>1. PICK how \in {"wait", "timed"} :
        /\ Park(t, how)
        /\ date' \in [Threads -> {"none", "pending", "passed"}]
  BY <1>0 DEF wait, waitUntilDate
<1>2. /\ owner = t /\ owner' = NoOwner /\ locked' = FALSE
      /\ call[t] = "guest" /\ L' = WithoutHead(L) /\ W' = Append(W, t)
      /\ SetNotBlockedThenBlock(HeadOf(L), t, how = "timed")
      /\ call' = [call EXCEPT ![t] = how]
      /\ answer' = [answer EXCEPT ![t] = "none"]
  BY <1>1 DEF Park, GiveBack, InGuest
<1>3. t \notin ToSet(W) /\ t \notin ToSet(L)
  BY <1>2 DEF MonitorInv
<1>4. /\ L' \in Seq(Threads) /\ Once(L') /\ ToSet(L)' = ToSet(L) \ HeadOf(L)
      /\ HeadOf(L) \subseteq ToSet(L)
      /\ W' \in Seq(Threads) /\ Once(W') /\ ToSet(W)' = ToSet(W) \cup {t}
  BY <1>0, <1>2, <1>3, Served, Joined
<1>5. MonitorInv'
  <2>1. TypeOK'
    BY <1>0, <1>1, <1>2, <1>4
    DEF MonitorInv, TypeOK, BlocksTypeOK, SetNotBlockedThenBlock
  <2>2. ASSUME NEW u \in Threads
        PROVE  /\ u \in ToSet(L)' <=> call'[u] = "lock" /\ suspended'[u] > 0
               /\ u \in ToSet(W)' => call'[u] \in {"wait", "timed"}
               /\ call'[u] = "wait" => (suspended'[u] > 0 <=> u \in ToSet(W)')
               /\ call'[u] # "guest" => owner' # u
    <3>1. CASE u = t
      BY <1>0, <1>1, <1>2, <1>3, <1>4, <3>1 DEF SetNotBlockedThenBlock, MonitorAssumption
    <3>2. CASE u # t
      BY <1>0, <1>2, <1>4, <3>2
      DEF MonitorInv, SetNotBlockedThenBlock, MonitorAssumption
    <3>3. QED
      BY <3>1, <3>2
  <2>3. QED
    BY <1>2, <1>4, <2>1, <2>2 DEF MonitorInv
<1>6. Waiting' = Waiting \cup {t}
  <2>1. Waiting' = ToSet(W)'
    BY <1>5 DEF MonitorInv, TypeOK, Waiting, Waits, ToSet
  <2>2. QED
    BY <1>0, <1>4, <2>1
<1>7. Entering' = Entering /\ Answer' = [Answer EXCEPT ![t] = "none"]
  <2>1. \A u \in Threads \ {t} : (Waits(u)' <=> Waits(u)) /\ (Enters(u)' <=> Enters(u))
    BY <1>0, <1>2, <1>4 DEF Waits, Enters
  <2>2. Waits(t)' /\ ~Enters(t)' /\ ~Enters(t)
    BY <1>0, <1>2, <1>4 DEF Waits, Enters
  <2>3. Entering' = Entering
    BY <2>1, <2>2 DEF Entering
  <2>4. Answer' = [Answer EXCEPT ![t] = "none"]
    BY <1>0, <1>2, <2>1, <2>2 DEF Answer
  <2>5. QED
    BY <2>3, <2>4
<1>8. Monitor!Wait(t)
  BY <1>2, <1>6, <1>7 DEF Monitor!Wait, Entering, Waiting, Answer
<1>9. QED
  BY <1>5, <1>8 DEF Seen, Monitor!Next

\* signal and broadcast.
LEMMA NotifySeen ==
    ASSUME MonitorInv, MonitorAssumption, NEW t \in Threads, signal(t) \/ broadcast(t)
    PROVE  MonitorInv' /\ Seen
<1> DEFINE L == lock_waiting_threads
           W == waiting_threads
<1>0. /\ suspended \in [Threads -> Nat] /\ blocked \in [Threads -> {"none", "sleeping"}]
      /\ W \in Seq(Threads) /\ Once(W) /\ Waiting = ToSet(W)
      /\ Waiting \subseteq Threads
  BY WaitingQueue DEF MonitorInv, TypeOK, BlocksTypeOK, Waiting
<1>1. PICK ts, rest :
        /\ Notify(ts, rest)
        /\ rest \in Seq(Threads) /\ Once(rest) /\ ToSet(rest) = ToSet(W) \ ts
        /\ ts \subseteq ToSet(W) /\ ts # {}
        /\ ts = ToSet(W) \/ \E u \in Threads : ts = {u}
  <2>1. CASE signal(t)
    <3>1. W # <<>> /\ Notify(HeadOf(W), WithoutHead(W))
      BY <2>1 DEF signal
    <3>2. /\ WithoutHead(W) \in Seq(Threads) /\ Once(WithoutHead(W))
          /\ ToSet(WithoutHead(W)) = ToSet(W) \ HeadOf(W)
          /\ HeadOf(W) \subseteq ToSet(W) /\ \E u \in Threads : HeadOf(W) = {u}
      BY <1>0, <3>1, Served
    <3>3. QED
      BY <3>1, <3>2
  <2>2. CASE broadcast(t)
    <3>1. Notify(ToSet(W), <<>>) /\ W # <<>>
      BY <2>2 DEF broadcast
    <3>2. <<>> \in Seq(Threads) /\ Once(<<>>) /\ ToSet(<<>>) = {}
      BY DEF Once, ToSet
    <3>3. W[1] \in ToSet(W)
      BY <1>0, <3>1 DEF ToSet
    <3>4. QED
      BY <3>1, <3>2, <3>3
  <2>3. QED
    BY <2>1, <2>2
<1>2. /\ SetNotBlocked(ts) /\ W' = rest
      /\ UNCHANGED <<locked, L, call, date, answer, owner>>
  BY <1>1 DEF Notify
<1>3. W' \in Seq(Threads) /\ Once(W') /\ ToSet(W)' = ToSet(W) \ ts /\ ToSet(L)' = ToSet(L)
  BY <1>1, <1>2
<1>4. MonitorInv'
  <2>1. TypeOK'
    BY <1>0, <1>2, <1>3 DEF MonitorInv, TypeOK, BlocksTypeOK, SetNotBlocked
  <2>2. ASSUME NEW u \in Threads
        PROVE  /\ u \in ToSet(L)' <=> call'[u] = "lock" /\ suspended'[u] > 0
               /\ u \in ToSet(W)' => call'[u] \in {"wait", "timed"}
               /\ call'[u] = "wait" => (suspended'[u] > 0 <=> u \in ToSet(W)')
               /\ call'[u] # "guest" => owner' # u
    BY <1>0, <1>1, <1>2, <1>3 DEF MonitorInv, SetNotBlocked
  <2>3. QED
    BY <1>2, <1>3, <2>1, <2>2 DEF MonitorInv
<1>5. Waiting' = Waiting \ ts
  <2>1. Waiting' = ToSet(W)'
    BY <1>4 DEF MonitorInv, TypeOK, Waiting, Waits, ToSet
  <2>2. QED
    BY <1>0, <1>3, <2>1
<1>6. \A u \in Threads : /\ u \in ts => Waits(u) /\ ~Waits(u)'
                         /\ u \notin ts => (Waits(u)' <=> Waits(u))
  BY <1>1, <1>2, <1>3, <1>0 DEF Waits, Waiting
<1>7. Entering' = Entering \cup ts
  <2>1. \A u \in Threads : Enters(u)' <=> Enters(u) \/ u \in ts
    BY <1>2, <1>6 DEF Enters, Waits
  <2>2. QED
    BY <1>0, <1>1, <2>1 DEF Entering
<1>8. Answer' = [u \in Threads |-> IF u \in ts THEN "notified" ELSE Answer[u]]
  BY <1>2, <1>6 DEF Answer, Waits
<1>9. ts \in SUBSET Threads
  BY <1>0, <1>1
<1>10. Monitor!Notify(ts)
  BY <1>0, <1>1, <1>2, <1>5, <1>7, <1>8 DEF Monitor!Notify, Entering, Waiting, Answer
<1>11. QED
  BY <1>4, <1>9, <1>10 DEF Seen, Monitor!Next

\* A step of the clock, or none.
LEMMA IdleSeen ==
    ASSUME MonitorInv, NEW t \in Threads, DatePasses(t) \/ WakeUp(t)
    PROVE  MonitorInv' /\ Seen
<1>1. /\ UNCHANGED <<locked, lock_waiting_threads, waiting_threads, call, answer, owner,
                     suspended, stopped, suspends>>
      /\ blocked' \in [Threads -> {"none", "sleeping"}]
      /\ date' \in [Threads -> {"none", "pending", "passed"}]
  BY DEF DatePasses, WakeUp, SleepEnds, monitorVars, blockVars, MonitorInv, TypeOK,
         BlocksTypeOK
<1>2. MonitorInv'
  BY <1>1 DEF MonitorInv, TypeOK, BlocksTypeOK
<1>3. UNCHANGED <<owner, Entering, Waiting, Answer>>
  BY <1>1 DEF Entering, Waiting, Answer, Enters, Waits
<1>4. QED
  BY <1>2, <1>3 DEF Seen

LEMMA StepSeen ==
    ASSUME MonitorInv, MonitorAssumption, [Next]_vars
    PROVE  MonitorInv' /\ Seen
<1>1. CASE UNCHANGED vars
  <2>1. MonitorInv'
    BY <1>1 DEF MonitorInv, TypeOK, BlocksTypeOK, vars, monitorVars, blockVars
  <2>2. UNCHANGED <<owner, Entering, Waiting, Answer>>
    BY <1>1 DEF Entering, Waiting, Answer, Enters, Waits, vars, monitorVars
  <2>3. QED
    BY <2>1, <2>2 DEF Seen
<1>2. CASE Next
  BY <1>2, LocksSeen, UnlockSeen, ParkSeen, NotifySeen, IdleSeen DEF Next
<1>3. QED
  BY <1>1, <1>2

LEMMA InitSeen == BlocksAssumption /\ Init => MonitorInv /\ Monitor!Init
<1> SUFFICES ASSUME BlocksAssumption, Init PROVE MonitorInv /\ Monitor!Init
  OBVIOUS
<1>1. ToSet(<<>>) = {} /\ Once(<<>>) /\ <<>> \in Seq(Threads)
  BY DEF ToSet, Once
<1>2. TypeOK
  <2>1. BlocksTypeOK
    BY DEF Init, BlocksInit, BlocksTypeOK, BlocksAssumption
  <2>2. QED
    BY <1>1, <2>1 DEF Init, TypeOK
<1>3. MonitorInv
  BY <1>1, <1>2 DEF Init, BlocksInit, MonitorInv
<1>4. Entering = {} /\ Waiting = {} /\ Answer = [t \in Threads |-> "none"]
  BY <1>1 DEF Init, Entering, Waiting, Answer, Enters, Waits
<1>5. QED
  BY <1>3, <1>4 DEF Monitor!Init, Init, Entering, Waiting, Answer

LEMMA QueuesFromInv == MonitorInv => QueuesExact
<1> SUFFICES ASSUME MonitorInv, NEW t \in Threads
             PROVE  /\ t \in ToSet(lock_waiting_threads) <=> call[t] = "lock" /\ suspended[t] > 0
                    /\ t \in ToSet(waiting_threads) => call[t] \in {"wait", "timed"}
                    /\ Cardinality({i \in DOMAIN lock_waiting_threads :
                                        lock_waiting_threads[i] = t}) <= 1
                    /\ Cardinality({i \in DOMAIN waiting_threads :
                                        waiting_threads[i] = t}) <= 1
  BY DEF QueuesExact
<1>1. /\ lock_waiting_threads \in Seq(Threads) /\ Once(lock_waiting_threads)
      /\ waiting_threads \in Seq(Threads) /\ Once(waiting_threads)
  BY DEF MonitorInv, TypeOK
<1>2. Cardinality({i \in DOMAIN lock_waiting_threads : lock_waiting_threads[i] = t}) <= 1
  BY <1>1, OnePlace
<1>3. Cardinality({i \in DOMAIN waiting_threads : waiting_threads[i] = t}) <= 1
  BY <1>1, OnePlace
<1>4. QED
  BY <1>2, <1>3 DEF MonitorInv

(***************************************************************************)
(* The theorems                                                            *)
(***************************************************************************)
\* NSCondition implements AbstractMonitor: lock, wait, waitUntilDate:, signal and
\* broadcast keep one thread inside, move exactly the threads notified, and a timed
\* wait is told that it was late only if nobody notified it.
THEOREM MonitorImplemented ==
    ASSUME MonitorAssumption, BlocksAssumption
    PROVE  Spec => Implements
<1>1. Init => MonitorInv /\ Monitor!Init
  BY InitSeen
<1>2. MonitorInv /\ [Next]_vars => MonitorInv' /\ [Monitor!Next]_(Monitor!vars)
  BY StepSeen DEF Seen, Monitor!vars, Entering, Waiting, Answer
<1>3. QED
  BY <1>1, <1>2, PTL DEF Spec, Implements, Monitor!Spec

\* The two queues of an NSCondition hold whom they should: a thread is queued for the
\* lock, once, exactly while it is suspended in lock, and for a notification only
\* while it waits for one.
THEOREM MonitorQueuesExact ==
    ASSUME MonitorAssumption, BlocksAssumption
    PROVE  Spec => []QueuesExact
<1>1. Init => MonitorInv
  BY InitSeen
<1>2. MonitorInv /\ [Next]_vars => MonitorInv'
  BY StepSeen
<1>3. QED
  BY <1>1, <1>2, QueuesFromInv, PTL DEF Spec
=============================================================================
