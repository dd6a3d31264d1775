---------------------------- MODULE ConditionLock ----------------------------
(***************************************************************************)
(* NSConditionLock (src/src/frameworks/foundation/ns_condition.rs): a lock *)
(* that a thread may ask for under a condition. Waiting is a loop: look,   *)
(* join the queue, block, look again; unlocking wakes the first thread in  *)
(* the queue whose wish the new condition meets, and threads that were not *)
(* waiting may take the lock before it runs.                               *)
(***************************************************************************)
EXTENDS ThreadBlocks, SequencesExt, FiniteSetTheorems, WellFoundedInduction, TLAPS

CONSTANTS Conds,        \* values of the condition
          AnyCond,      \* Option::None: any condition will do
          NoOwner

LockAssumption == AnyCond \notin Conds /\ NoOwner \notin Threads

VARIABLES locked, condition,    \* NSConditionLockHostObject
          waiting_threads,      \* queue of [thread, want]
          call,                 \* per thread: "guest" or the loop it is in
          want,                 \* the condition of the call
          date,                 \* limit of the call: "none", "pending", "passed"
          owner                 \* history: who has the lock

lockVars == <<locked, condition, waiting_threads, call, want, date, owner>>
vars == <<lockVars, blockVars>>

Wishes == Conds \cup {AnyCond}

Init ==
    /\ BlocksInit
    /\ locked = FALSE
    /\ condition \in Conds
    /\ waiting_threads = <<>>
    /\ call = [t \in Threads |-> "guest"]
    /\ want = [t \in Threads |-> AnyCond]
    /\ date = [t \in Threads |-> "none"]
    /\ owner = NoOwner

InGuest(t) == call[t] = "guest" /\ Runnable(t)

\* Fault: the condition is compared only when the thread starts to wait.
Obtainable_any(w) == ~locked

Obtainable(w) == ~locked /\ (w = AnyCond \/ w = condition)

Obtain(t, w) ==
    /\ locked' = TRUE
    /\ owner' = t
    /\ call' = [call EXCEPT ![t] = "guest"]
    /\ want' = [want EXCEPT ![t] = w]
    /\ date' = [date EXCEPT ![t] = "none"]
    /\ UNCHANGED <<condition, blockVars>>

(***************************************************************************)
(* lock and lockWhenCondition: one turn of the loop, the first from guest  *)
(* code and the others when the thread runs again.                         *)
(***************************************************************************)
\* Fault: a thread that finds the lock taken again blocks without queueing.
LockTurn_unqueued(t, w) ==
    \/ /\ Obtainable(w)
       /\ Obtain(t, w)
       /\ UNCHANGED waiting_threads
    \/ /\ ~Obtainable(w)
       /\ waiting_threads' = IF call[t] = "guest"
                             THEN Append(waiting_threads, [thread |-> t, want |-> w])
                             ELSE waiting_threads
       /\ call' = [call EXCEPT ![t] = "lock"]
       /\ want' = [want EXCEPT ![t] = w]
       /\ SuspendSelf(t)
       /\ UNCHANGED <<locked, condition, date, owner>>

LockTurn(t, w) ==
    \/ /\ Obtainable(w)
       /\ Obtain(t, w)
       /\ UNCHANGED waiting_threads
    \/ /\ ~Obtainable(w)
       /\ waiting_threads' = Append(waiting_threads, [thread |-> t, want |-> w])
       /\ call' = [call EXCEPT ![t] = "lock"]
       /\ want' = [want EXCEPT ![t] = w]
       /\ SuspendSelf(t)
       /\ UNCHANGED <<locked, condition, date, owner>>

lock(t) == InGuest(t) /\ owner # t /\ LockTurn(t, AnyCond)

lockWhenCondition(t, c) == InGuest(t) /\ owner # t /\ LockTurn(t, c)

LockAgain(t) == call[t] = "lock" /\ Runnable(t) /\ LockTurn(t, want[t])

(***************************************************************************)
(* lockWhenCondition:beforeDate:                                           *)
(***************************************************************************)
\* Fault: a turn that finds the lock unavailable sleeps again, whatever the date.
TimedTurn_patient(t, c, d, queue) ==
    \/ /\ Obtainable(c)
       /\ Obtain(t, c)
       /\ waiting_threads' = queue
    \/ /\ ~Obtainable(c)
       /\ call' = [call EXCEPT ![t] = "timed"]
       /\ want' = [want EXCEPT ![t] = c]
       /\ date' = [date EXCEPT ![t] = d]
       /\ waiting_threads' = Append(queue, [thread |-> t, want |-> c])
       /\ Sleep(t)
       /\ UNCHANGED <<locked, condition, owner>>

\* One turn with limit d: look, give up if the date has passed, queue, sleep.
TimedTurn(t, c, d, queue) ==
    \/ /\ Obtainable(c)
       /\ Obtain(t, c)
       /\ waiting_threads' = queue
    \/ /\ ~Obtainable(c) /\ d = "passed"
       /\ call' = [call EXCEPT ![t] = "guest"]
       /\ date' = [date EXCEPT ![t] = "none"]
       /\ waiting_threads' = queue
       /\ UNCHANGED <<locked, condition, want, owner, blockVars>>
    \/ /\ ~Obtainable(c) /\ d = "pending"
       /\ call' = [call EXCEPT ![t] = "timed"]
       /\ want' = [want EXCEPT ![t] = c]
       /\ date' = [date EXCEPT ![t] = d]
       /\ waiting_threads' = Append(queue, [thread |-> t, want |-> c])
       /\ Sleep(t)
       /\ UNCHANGED <<locked, condition, owner>>

lockWhenConditionBeforeDate(t, c) ==
    /\ InGuest(t) /\ owner # t
    /\ \E d \in {"pending", "passed"} : TimedTurn(t, c, d, waiting_threads)

\* Fault: a thread whose sleep is over stays in the queue.
WithoutFirst_kept(queue, t) == queue

\* VecDeque::position and remove: the first entry of t goes.
WithoutFirst(queue, t) == RemoveFirstMatch(queue, LAMBDA e : e.thread = t)

TimedAgain(t) ==
    /\ call[t] = "timed" /\ Runnable(t)
    /\ TimedTurn(t, want[t], date[t], WithoutFirst(waiting_threads, t))

DatePasses(t) ==
    /\ date[t] = "pending"
    /\ date' = [date EXCEPT ![t] = "passed"]
    /\ UNCHANGED <<locked, condition, waiting_threads, call, want, owner, blockVars>>

WakeUp(t) ==
    /\ date[t] = "passed"
    /\ SleepEnds(t)
    /\ UNCHANGED lockVars

(***************************************************************************)
(* tryLock and tryLockWhenCondition; a refusal changes nothing             *)
(***************************************************************************)
tryLock(t, w) ==
    /\ InGuest(t) /\ owner # t
    /\ Obtainable(w)
    /\ Obtain(t, w)
    /\ UNCHANGED waiting_threads

(***************************************************************************)
(* unlock (c is the old condition) and unlockWithCondition                 *)
(***************************************************************************)
\* Fault: only the head of the queue is considered.
FirstServed_head(c) ==
    IF waiting_threads # <<>> /\ Head(waiting_threads).want \in {AnyCond, c}
    THEN 1 ELSE 0

\* The position of the first waiter that condition c serves, 0 if there is none.
FirstServed(c) ==
    SelectInSeq(waiting_threads, LAMBDA e : e.want \in {AnyCond, c})

unlockWithCondition(t, c) ==
    /\ InGuest(t) /\ owner = t
    /\ locked' = FALSE
    /\ condition' = c
    /\ owner' = NoOwner
    /\ LET i == FirstServed(c) IN
       IF i = 0 THEN UNCHANGED <<waiting_threads, blockVars>>
       ELSE /\ waiting_threads' = RemoveAt(waiting_threads, i)
            /\ SetNotBlocked({waiting_threads[i].thread})
    /\ UNCHANGED <<call, want, date>>

unlock(t) == unlockWithCondition(t, condition)

Suspension(t) == (thread_suspend(t) \/ thread_resume(t)) /\ UNCHANGED lockVars

Turn(t) == LockAgain(t) \/ TimedAgain(t)

Next == \E t \in Threads :
    \/ lock(t) \/ unlock(t)
    \/ \E c \in Conds : \/ lockWhenCondition(t, c) \/ lockWhenConditionBeforeDate(t, c)
                        \/ unlockWithCondition(t, c)
    \/ \E w \in Wishes : tryLock(t, w)
    \/ Turn(t) \/ DatePasses(t) \/ WakeUp(t)
    \/ Suspension(t)

Spec == Init /\ [][Next]_vars

\* A runnable thread is scheduled, time passes and sleep ends. Nothing is
\* assumed of the guest: an owner may keep the lock for ever.
FairSpec == Spec /\ \A t \in Threads :
    WF_vars(Turn(t)) /\ WF_vars(DatePasses(t)) /\ WF_vars(WakeUp(t))

(***************************************************************************)
(* Properties                                                              *)
(***************************************************************************)
TypeOK ==
    /\ BlocksTypeOK
    /\ locked \in BOOLEAN /\ condition \in Conds
    /\ waiting_threads \in Seq([thread : Threads, want : Wishes])
    /\ call \in [Threads -> {"guest", "lock", "timed"}]
    /\ want \in [Threads -> Wishes]
    /\ date \in [Threads -> {"none", "pending", "passed"}]
    /\ owner \in Threads \cup {NoOwner}

Asking(t) == call[t] # "guest"

\* NSConditionLock as its users see it (PROPERTY Abstract!Spec): the lock goes
\* only from nobody to a thread whose condition holds, whatever the queue,
\* barging threads and time limits do in between.
Abstract == INSTANCE AbstractLock
    WITH cond <- condition, asking <- {t \in Threads : Asking(t)}

Implements == Abstract!Spec

\* No wake-up is lost: while the lock is free, a thread in the queue whose wish
\* is met is there only if another thread whose wish is met is already awake,
\* about to take the lock and to wake the next one when it gives it back.
NoLostWakeup ==
    ~locked /\ FirstServed(condition) # 0 =>
        \E t \in Threads : Asking(t) /\ blocked[t] = "none" /\ suspended[t] = 0
                           /\ Obtainable(want[t])

\* A thread is in the queue once, and only while it waits in a call: a stale
\* entry would swallow a wake-up and unblock the thread somewhere else.
QueueExact == \A t \in Threads :
    LET n == Cardinality({i \in DOMAIN waiting_threads :
                              waiting_threads[i].thread = t})
    IN  /\ n <= 1
        /\ n = 1 => Asking(t) /\ \A i \in DOMAIN waiting_threads :
                       waiting_threads[i].thread = t => waiting_threads[i].want = want[t]
        /\ n = 0 /\ call[t] = "lock" => suspended[t] = 0

\* A lock that stays free and meets a waiter's wish does not stay free: the
\* waiter is not forgotten, although each unlock wakes one thread only.
FreeLockTaken == \A t \in Threads :
    (Asking(t) /\ Obtainable(want[t])) ~> (locked \/ ~Asking(t) \/ ~Obtainable(want[t]))

\* lockWhenCondition:beforeDate: returns, with or without the lock.
TimedLockReturns == \A t \in Threads : (call[t] = "timed") ~> (call[t] = "guest")

(***************************************************************************)
(* ConditionLock implements AbstractLock, for any threads and conditions.  *)
(* Neither the queue nor who is suspended matters: what is needed is that  *)
(* the flag is set exactly while somebody has the lock, and that nobody    *)
(* asks for the lock it has.                                               *)
(***************************************************************************)
OwnerInv ==
    /\ locked \in BOOLEAN /\ condition \in Conds
    /\ call \in [Threads -> {"guest", "lock", "timed"}]
    /\ want \in [Threads -> Wishes]
    /\ owner \in Threads \cup {NoOwner}
    /\ locked <=> owner # NoOwner
    /\ \A t \in Threads : Asking(t) => owner # t

Askers == {t \in Threads : Asking(t)}

\* What a step does to what AbstractLock sees: nothing, or one of its actions.
Seen == Abstract!Next \/ UNCHANGED <<owner, condition, Askers, want>>

\* t gets the lock.
LEMMA ObtainSeen ==
    ASSUME OwnerInv, NEW t \in Threads, NEW w \in Wishes, LockAssumption,
           Obtainable(w), Obtain(t, w), Asking(t) => w = want[t]
    PROVE  OwnerInv' /\ Seen
<1>1. /\ owner = NoOwner /\ owner' = t /\ locked' = TRUE /\ condition' = condition
      /\ call' = [call EXCEPT ![t] = "guest"] /\ want' = [want EXCEPT ![t] = w]
  BY DEF OwnerInv, Obtainable, Obtain
<1>2. OwnerInv'
  BY <1>1 DEF OwnerInv, LockAssumption, Asking, Wishes
<1>3. Askers' = Askers \ {t}
  BY <1>1 DEF OwnerInv, Askers, Asking
<1>4. Abstract!Grant(t, w)
  BY <1>1, <1>3 DEF Abstract!Grant, Askers, Obtainable
<1>5. QED
  BY <1>2, <1>4 DEF Seen, Abstract!Next, Wishes

\* t starts to wait, or waits on: its call is c2 and the lock is not concerned.
LEMMA WaitSeen ==
    ASSUME OwnerInv, NEW t \in Threads, NEW w \in Wishes, owner # t,
           NEW c2 \in {"lock", "timed"}, Asking(t) => w = want[t],
           call' = [call EXCEPT ![t] = c2], want' = [want EXCEPT ![t] = w],
           UNCHANGED <<locked, condition, owner>>
    PROVE  OwnerInv' /\ Seen
<1>1. OwnerInv'
  BY DEF OwnerInv, Asking
<1>2. Askers' = Askers \cup {t}
  BY DEF OwnerInv, Askers, Asking
<1>3. CASE Asking(t)
  <2>1. Askers' = Askers /\ want' = want
    BY <1>2, <1>3 DEF Askers, OwnerInv
  <2>2. QED
    BY <1>1, <2>1 DEF Seen
<1>4. CASE ~Asking(t)
  <2>1. Abstract!Ask(t, w)
    BY <1>2, <1>4 DEF Abstract!Ask, Askers
  <2>2. QED
    BY <1>1, <2>1 DEF Seen, Abstract!Next, Wishes
<1>5. QED
  BY <1>3, <1>4

\* t gives up, or never waited.
LEMMA GiveUpSeen ==
    ASSUME OwnerInv, NEW t \in Threads, call' = [call EXCEPT ![t] = "guest"],
           UNCHANGED <<locked, condition, want, owner>>
    PROVE  OwnerInv' /\ Seen
<1>1. OwnerInv'
  BY DEF OwnerInv, Asking
<1>2. Askers' = Askers \ {t}
  BY DEF OwnerInv, Askers, Asking
<1>3. CASE t \in Askers
  BY <1>1, <1>2, <1>3 DEF Seen, Abstract!Next, Abstract!GiveUp, Askers
<1>4. CASE t \notin Askers
  BY <1>1, <1>2, <1>4 DEF Seen
<1>5. QED
  BY <1>3, <1>4

\* Nothing that AbstractLock sees changes.
LEMMA UnseenStep ==
    ASSUME OwnerInv, UNCHANGED <<locked, condition, call, want, owner>>
    PROVE  OwnerInv' /\ Seen
<1>1. Askers' = Askers
  BY DEF Askers, Asking
<1>2. QED
  BY <1>1 DEF OwnerInv, Seen, Asking

LEMMA LockTurnSeen ==
    ASSUME OwnerInv, NEW t \in Threads, NEW w \in Wishes, LockAssumption, owner # t,
           Asking(t) => w = want[t], LockTurn(t, w)
    PROVE  OwnerInv' /\ Seen
BY ObtainSeen, WaitSeen DEF LockTurn

LEMMA TimedTurnSeen ==
    ASSUME OwnerInv, NEW t \in Threads, NEW w \in Wishes, LockAssumption, owner # t,
           Asking(t) => w = want[t], NEW d, NEW queue, TimedTurn(t, w, d, queue)
    PROVE  OwnerInv' /\ Seen
<1>1. CASE Obtainable(w) /\ Obtain(t, w)
  BY <1>1, ObtainSeen
<1>2. CASE /\ call' = [call EXCEPT ![t] = "guest"]
           /\ UNCHANGED <<locked, condition, want, owner>>
  BY <1>2, GiveUpSeen
<1>3. CASE /\ call' = [call EXCEPT ![t] = "timed"] /\ want' = [want EXCEPT ![t] = w]
           /\ UNCHANGED <<locked, condition, owner>>
  BY <1>3, WaitSeen
<1>4. QED
  BY <1>1, <1>2, <1>3 DEF TimedTurn

LEMMA StepSeen ==
    ASSUME OwnerInv, [Next]_vars, LockAssumption
    PROVE  OwnerInv' /\ Seen
<1>1. AnyCond \in Wishes /\ (\A c \in Conds : c \in Wishes)
      /\ \A t \in Threads : want[t] \in Wishes /\ (Asking(t) => owner # t)
  BY DEF Wishes, OwnerInv
<1>2. ASSUME NEW t \in Threads,
             lock(t) \/ \E c \in Conds : lockWhenCondition(t, c)
      PROVE  OwnerInv' /\ Seen
  BY <1>1, <1>2, LockTurnSeen DEF lock, lockWhenCondition, InGuest, Asking
<1>3. ASSUME NEW t \in Threads, NEW c \in Conds, lockWhenConditionBeforeDate(t, c)
      PROVE  OwnerInv' /\ Seen
  BY <1>1, <1>3, TimedTurnSeen DEF lockWhenConditionBeforeDate, InGuest, Asking
<1>4. ASSUME NEW t \in Threads, NEW w \in Wishes, tryLock(t, w)
      PROVE  OwnerInv' /\ Seen
  BY <1>4, ObtainSeen DEF tryLock, InGuest, Asking
<1>5. ASSUME NEW t \in Threads, Turn(t)
      PROVE  OwnerInv' /\ Seen
  <2>1. CASE LockAgain(t)
    BY <1>1, <2>1, LockTurnSeen DEF LockAgain, Asking
  <2>2. CASE TimedAgain(t)
    BY <1>1, <2>2, TimedTurnSeen DEF TimedAgain, Asking
  <2>3. QED
    BY <1>5, <2>1, <2>2 DEF Turn
<1>6. ASSUME NEW t \in Threads, NEW c \in Conds, unlockWithCondition(t, c)
      PROVE  OwnerInv' /\ Seen
  <2>1. /\ owner = t /\ owner' = NoOwner /\ locked' = FALSE /\ condition' = c
        /\ UNCHANGED <<call, want>>
    BY <1>6 DEF unlockWithCondition
  <2>2. Askers' = Askers
    BY <2>1 DEF Askers, Asking
  <2>3. OwnerInv'
    BY <2>1 DEF OwnerInv, Asking, LockAssumption
  <2>4. Abstract!Release(t, c)
    BY <2>1, <2>2 DEF Abstract!Release, Askers
  <2>5. QED
    BY <2>3, <2>4 DEF Seen, Abstract!Next
<1>7. ASSUME NEW t \in Threads, unlock(t)
      PROVE  OwnerInv' /\ Seen
  <2>1. condition \in Conds
    BY DEF OwnerInv
  <2>2. QED
    BY <1>6, <1>7, <2>1 DEF unlock
<1>8. ASSUME NEW t \in Threads, DatePasses(t) \/ WakeUp(t) \/ Suspension(t)
      PROVE  OwnerInv' /\ Seen
  BY <1>8, UnseenStep DEF DatePasses, WakeUp, Suspension, lockVars
<1>9. CASE UNCHANGED vars
  BY <1>9, UnseenStep DEF vars, lockVars
<1>10. QED
  BY <1>2, <1>3, <1>4, <1>5, <1>6, <1>7, <1>8, <1>9 DEF Next

\* NSConditionLock implements AbstractLock: lock, lockWhenCondition:, tryLock and
\* lockWhenCondition:beforeDate: take the lock only from nobody and only when their
\* condition holds, whatever the queue, barging threads and time limits do.
THEOREM ConditionLockImplements ==
    ASSUME LockAssumption
    PROVE  Spec => Implements
<1>1. Init => OwnerInv /\ Abstract!Init
  BY DEF Init, OwnerInv, Asking, Wishes, Abstract!Init
<1>2. OwnerInv /\ [Next]_vars => OwnerInv' /\ [Abstract!Next]_(Abstract!vars)
  BY StepSeen DEF Seen, Abstract!vars, Askers
<1>3. QED
  BY <1>1, <1>2, PTL DEF Spec, Implements, Abstract!Spec

(***************************************************************************)
(* No wake-up is lost, and the queue is exact, when guest threads do not   *)
(* suspend one another (MaxSuspends = 0): a wake-up writes NotBlocked over *)
(* any suspension, and resuming a thread that was woken so would take it   *)
(* out of the queue's reach later.                                         *)
(***************************************************************************)
Entries == [thread : Threads, want : Wishes]

Queued(t) == \E i \in DOMAIN waiting_threads : waiting_threads[i].thread = t

Once(q) == \A i, j \in DOMAIN q : q[i].thread = q[j].thread => i = j

\* Who is in queue q waits, and for what the queue says.
Waits(q) == \A i \in DOMAIN q : Asking(q[i].thread) /\ q[i].want = want[q[i].thread]

\* An entry of q that condition c serves.
Serves(q, c) == \E i \in DOMAIN q : q[i].want \in {AnyCond, c}

\* t runs, or will when it is scheduled, and finds the lock as it wants it.
Awake(t) == Asking(t) /\ Runnable(t) /\ want[t] \in {AnyCond, condition}

\* What t is blocked by, for the call it is in.
Placed(t) ==
    /\ call[t] = "guest" => Runnable(t)
    /\ call[t] = "lock" => blocked[t] = "none" /\ (suspended[t] > 0 <=> Queued(t))
    /\ call[t] = "timed" => suspended[t] = 0 /\ (~Queued(t) => blocked[t] = "none")

QueueInv ==
    /\ TypeOK /\ OwnerInv
    /\ suspends = 0 /\ stopped = [t \in Threads |-> 0]
    /\ Once(waiting_threads) /\ Waits(waiting_threads)
    /\ \A t \in Threads : Placed(t)
    /\ ~locked /\ Serves(waiting_threads, condition) => \E t \in Threads : Awake(t)

\* A set of positions has a first one.
LEMMA Least ==
    ASSUME NEW T \in SUBSET Nat, T # {}
    PROVE  \E x \in T : \A y \in T : x <= y
<1> DEFINE R == OpToRel(<, Nat)
<1>1. \A x, y \in Nat : <<y, x>> \in R <=> y < x
  BY DEF OpToRel
<1>2. IsWellFoundedOn(R, Nat)
  BY NatLessThanWellFounded
<1> HIDE DEF R
<1>3. PICK x \in T : \A y \in T : ~ (<<y, x>> \in R)
  BY <1>2, WFMin
<1>4. ASSUME NEW y \in T PROVE x <= y
  <2>1. x \in Nat /\ y \in Nat /\ ~ (y < x)
    BY <1>1, <1>3
  <2>2. QED
    BY <2>1
<1>5. QED
  BY <1>4

\* FirstServed is the position of an entry that is served, if there is one.
LEMMA FirstServedFound ==
    ASSUME NEW c, waiting_threads \in Seq(Entries)
    PROVE  IF Serves(waiting_threads, c)
           THEN /\ FirstServed(c) \in DOMAIN waiting_threads
                /\ waiting_threads[FirstServed(c)].want \in {AnyCond, c}
           ELSE FirstServed(c) = 0
<1> DEFINE I == {i \in 1 .. Len(waiting_threads) : waiting_threads[i].want \in {AnyCond, c}}
<1>1. /\ I \in SUBSET Nat /\ I \subseteq DOMAIN waiting_threads
      /\ I # {} <=> Serves(waiting_threads, c)
  BY DEF Serves
<1>2. I # {} => Min(I) \in I
  <2> HIDE DEF I
  <2>1. I # {} => \E x \in I : \A y \in I : x <= y
    BY <1>1, Least
  <2>2. QED
    BY <2>1 DEF Min
<1>3. FirstServed(c) = IF I # {} THEN Min(I) ELSE 0
  BY DEF FirstServed, SelectInSeq
<1>4. QED
  BY <1>1, <1>2, <1>3

\* A queue without the entry at position k.
LEMMA Removed ==
    ASSUME NEW S, NEW q \in Seq(S), NEW k \in 1 .. Len(q)
    PROVE  LET new == RemoveAt(q, k)
           IN  /\ new \in Seq(S)
               /\ Once(q) => Once(new)
               /\ \A i \in DOMAIN new : \E j \in DOMAIN q : j # k /\ new[i] = q[j]
               /\ \A j \in DOMAIN q : j # k => \E i \in DOMAIN new : new[i] = q[j]
<1> DEFINE new == RemoveAt(q, k)
           a == SubSeq(q, 1, k - 1)
           b == SubSeq(q, k + 1, Len(q))
<1>1. k \in Nat /\ 1 <= k /\ k <= Len(q)
  OBVIOUS
<1>2. /\ a \in Seq(S) /\ b \in Seq(S) /\ Len(a) = k - 1 /\ Len(b) = Len(q) - k
      /\ \A i \in 1 .. k - 1 : a[i] = q[i]
      /\ \A i \in 1 .. Len(q) - k : b[i] = q[i + k]
  BY <1>1
<1>3. new = a \o b
  BY DEF RemoveAt
<1> HIDE DEF a, b
<1>4. /\ a \o b \in Seq(S) /\ Len(a \o b) = Len(a) + Len(b)
      /\ \A i \in 1 .. Len(a) : (a \o b)[i] = a[i]
      /\ \A i \in 1 .. Len(b) : (a \o b)[Len(a) + i] = b[i]
  <2>1. a \in Seq(S) /\ b \in Seq(S)
    BY <1>2
  <2>2. QED
    BY <2>1
<1>5. /\ new \in Seq(S) /\ DOMAIN new = 1 .. Len(q) - 1 /\ DOMAIN q = 1 .. Len(q)
      /\ Len(q) \in Nat
  <2>1. Len(q) \in Nat /\ Len(new) = Len(q) - 1 /\ new \in Seq(S)
    BY <1>1, <1>2, <1>3, <1>4
  <2> HIDE DEF new
  <2>2. QED
    BY <2>1
<1> DEFINE old(i) == IF i < k THEN i ELSE i + 1
<1>6. ASSUME NEW i \in 1 .. Len(q) - 1 PROVE new[i] = q[old(i)]
  <2>1. CASE i < k
    BY <1>1, <1>2, <1>3, <1>4, <2>1
  <2>2. CASE i >= k
    <3>1. PICK j \in 1 .. Len(q) - k : (k - 1) + j = i /\ j + k = i + 1
      <4>1. i - (k - 1) \in 1 .. Len(q) - k
        BY <1>1, <1>5, <2>2
      <4>2. (k - 1) + (i - (k - 1)) = i /\ (i - (k - 1)) + k = i + 1
        BY <1>1
      <4>3. QED
        BY <4>1, <4>2
    <3>2. b[j] = q[i + 1] /\ (a \o b)[i] = b[j]
      BY <1>2, <1>4, <3>1
    <3>3. old(i) = i + 1
      BY <1>1, <2>2
    <3>4. QED
      BY <1>3, <3>2, <3>3
  <2>3. QED
    BY <1>1, <2>1, <2>2
<1> HIDE DEF new
<1>7. \A i \in DOMAIN new : old(i) \in DOMAIN q /\ old(i) # k
  BY <1>1, <1>5
<1>8. \A i, j \in DOMAIN new : old(i) = old(j) => i = j
  BY <1>1, <1>5
<1>9. ASSUME NEW j \in DOMAIN q, j # k PROVE \E i \in DOMAIN new : old(i) = j
  <2>1. CASE j < k
    BY <1>1, <1>5, <2>1
  <2>2. CASE j > k
    <3>1. j - 1 \in DOMAIN new /\ old(j - 1) = j
      BY <1>1, <1>5, <2>2
    <3>2. QED
      BY <3>1
  <2>3. QED
    BY <1>1, <1>5, <1>9, <2>1, <2>2
<1> HIDE DEF old
<1>10. \A i \in DOMAIN new : new[i] = q[old(i)]
  BY <1>5, <1>6
<1>11. Once(q) => Once(new)
  BY <1>7, <1>8, <1>10 DEF Once
<1>12. QED
  BY <1>5, <1>7, <1>9, <1>10, <1>11 DEF new

\* The first entry of a thread is its only one.
LEMMA WithoutFound ==
    ASSUME NEW S, NEW q \in Seq(S), NEW t, Once(q), NEW k \in 1 .. Len(q), q[k].thread = t
    PROVE  WithoutFirst(q, t) = RemoveAt(q, k)
<1> DEFINE I == {i \in 1 .. Len(q) : q[i].thread = t}
<1>1. I = {k} /\ k \in Int
  BY DEF Once
<1>2. (CHOOSE x \in I : \A y \in I : x =< y) = k
  <2>1. k \in I /\ \A y \in I : k =< y
    BY <1>1
  <2>2. \A x \in I : x = k
    BY <1>1
  <2>3. QED
    BY <2>1, <2>2
<1> HIDE DEF I
<1>3. SelectInSeq(q, LAMBDA e : e.thread = t) = k
  BY <1>1, <1>2 DEF SelectInSeq, Min, I
<1>4. QED
  BY <1>3 DEF WithoutFirst, RemoveFirstMatch

\* A queue without thread t: nothing else changes.
LEMMA Without ==
    ASSUME NEW S, NEW q \in Seq(S), NEW t, Once(q)
    PROVE  LET new == WithoutFirst(q, t)
           IN  /\ new \in Seq(S) /\ Once(new)
               /\ \A i \in DOMAIN new : new[i].thread # t /\ \E j \in DOMAIN q : new[i] = q[j]
               /\ \A j \in DOMAIN q : q[j].thread # t => \E i \in DOMAIN new : new[i] = q[j]
<1>0. DOMAIN q = 1 .. Len(q)
  OBVIOUS
<1>1. CASE \E k \in 1 .. Len(q) : q[k].thread = t
  <2>1. PICK k \in 1 .. Len(q) : q[k].thread = t
    BY <1>1
  <2>2. WithoutFirst(q, t) = RemoveAt(q, k)
    BY <2>1, WithoutFound
  <2>3. \A j \in DOMAIN q : q[j].thread = t <=> j = k
    BY <1>0, <2>1 DEF Once
  <2>4. QED
    BY <2>2, <2>3, Removed
<1>2. CASE ~ \E k \in 1 .. Len(q) : q[k].thread = t
  <2>1. WithoutFirst(q, t) = q
    BY <1>2 DEF WithoutFirst, RemoveFirstMatch
  <2>2. QED
    BY <1>0, <1>2, <2>1
<1>3. QED
  BY <1>1, <1>2

\* q is the queue without t, who may not have been in it.
Others(q, t) ==
    /\ q \in Seq(Entries) /\ Once(q)
    /\ \A i \in DOMAIN q : /\ q[i].thread # t
                           /\ \E j \in DOMAIN waiting_threads : q[i] = waiting_threads[j]
    /\ \A j \in DOMAIN waiting_threads : waiting_threads[j].thread # t =>
          \E i \in DOMAIN q : q[i] = waiting_threads[j]

LEMMA NotQueued ==
    ASSUME waiting_threads \in Seq(Entries), Once(waiting_threads), NEW t, ~Queued(t)
    PROVE  Others(waiting_threads, t)
BY DEF Others, Queued

LEMMA Leaving ==
    ASSUME waiting_threads \in Seq(Entries), Once(waiting_threads), NEW t
    PROVE  Others(WithoutFirst(waiting_threads, t), t)
BY Without DEF Others

\* t is not in the queue after the step; the others are as before.
LEMMA QueueWithout ==
    ASSUME NEW t, NEW q, Others(q, t), waiting_threads' = q
    PROVE  /\ waiting_threads' \in Seq(Entries) /\ Once(waiting_threads')
           /\ \A u : Queued(u)' <=> Queued(u) /\ u # t
           /\ \A i \in DOMAIN waiting_threads' :
                 \E j \in DOMAIN waiting_threads : /\ waiting_threads'[i] = waiting_threads[j]
                                                   /\ waiting_threads[j].thread # t
<1>1. ASSUME NEW u, Queued(u)' PROVE Queued(u) /\ u # t
  BY <1>1 DEF Queued, Others
<1>2. ASSUME NEW u, Queued(u), u # t PROVE Queued(u)'
  <2>1. PICK j \in DOMAIN waiting_threads : waiting_threads[j].thread = u
    BY <1>2 DEF Queued
  <2>2. PICK i \in DOMAIN q : q[i] = waiting_threads[j]
    BY <1>2, <2>1 DEF Others
  <2>3. QED
    BY <2>1, <2>2 DEF Queued
<1>3. QED
  BY <1>1, <1>2 DEF Others

\* t is at the end of the queue after the step; the others are as before.
LEMMA QueueWith ==
    ASSUME NEW t \in Threads, NEW w \in Wishes, NEW q, Others(q, t),
           waiting_threads' = Append(q, [thread |-> t, want |-> w])
    PROVE  /\ waiting_threads' \in Seq(Entries) /\ Once(waiting_threads')
           /\ \A u : Queued(u)' <=> Queued(u) \/ u = t
           /\ \A i \in DOMAIN waiting_threads' :
                 \/ waiting_threads'[i] = [thread |-> t, want |-> w]
                 \/ \E j \in DOMAIN waiting_threads :
                       /\ waiting_threads'[i] = waiting_threads[j]
                       /\ waiting_threads[j].thread # t
<1> DEFINE e == [thread |-> t, want |-> w]
           new == Append(q, e)
<1>1. e \in Entries /\ e.thread = t /\ q \in Seq(Entries)
  BY DEF Entries, Others
<1> HIDE DEF e
<1>2. /\ new \in Seq(Entries) /\ DOMAIN new = 1 .. Len(q) + 1 /\ DOMAIN q = 1 .. Len(q)
      /\ Len(q) \in Nat /\ new[Len(q) + 1] = e
      /\ \A i \in 1 .. Len(q) : new[i] = q[i]
  BY <1>1
<1>3. waiting_threads' = new
  BY DEF e
<1> HIDE DEF new
<1>4. \A i \in DOMAIN new : \/ i = Len(q) + 1 /\ new[i] = e
                            \/ i \in DOMAIN q /\ new[i] = q[i] /\ q[i].thread # t
  BY <1>2 DEF Others
<1>5. Once(new)
  BY <1>1, <1>2, <1>4 DEF Once, Others
<1>6. \A i \in DOMAIN new :
          \/ new[i] = e
          \/ \E j \in DOMAIN waiting_threads : /\ new[i] = waiting_threads[j]
                                               /\ waiting_threads[j].thread # t
  BY <1>4 DEF Others
<1>7. ASSUME NEW u, Queued(u)' PROVE Queued(u) \/ u = t
  BY <1>1, <1>3, <1>6, <1>7 DEF Queued
<1>8. ASSUME NEW u, Queued(u), u # t PROVE Queued(u)'
  <2>1. PICK j \in DOMAIN waiting_threads : waiting_threads[j].thread = u
    BY <1>8 DEF Queued
  <2>2. PICK i \in DOMAIN q : q[i] = waiting_threads[j]
    BY <1>8, <2>1 DEF Others
  <2>3. i \in DOMAIN new /\ new[i] = q[i]
    BY <1>2
  <2>4. QED
    BY <1>3, <2>1, <2>2, <2>3 DEF Queued
<1>9. Queued(t)'
  <2>1. Len(q) + 1 \in DOMAIN new
    BY <1>2
  <2>2. QED
    BY <1>1, <1>2, <1>3, <2>1 DEF Queued
<1>10. QED
  BY <1>2, <1>3, <1>5, <1>6, <1>7, <1>8, <1>9 DEF e

\* t gets the lock, or gives up.
LEMMA LeaveKept ==
    ASSUME QueueInv, NEW t \in Threads, NEW q, Others(q, t), Runnable(t),
           waiting_threads' = q, call' = [call EXCEPT ![t] = "guest"],
           date' = [date EXCEPT ![t] = "none"], OwnerInv',
           UNCHANGED <<condition, blockVars>>,
           \A u \in Threads \ {t} : want'[u] = want[u],
           locked' \/ (UNCHANGED <<locked, want>> /\ ~Awake(t))
    PROVE  QueueInv'
<1>0. /\ call \in [Threads -> {"guest", "lock", "timed"}]
      /\ date \in [Threads -> {"none", "pending", "passed"}]
      /\ waiting_threads \in Seq(Entries)
  BY DEF QueueInv, TypeOK, Entries
<1>1. /\ waiting_threads' \in Seq(Entries) /\ Once(waiting_threads')
      /\ \A u : Queued(u)' <=> Queued(u) /\ u # t
      /\ \A i \in DOMAIN waiting_threads' :
            \E j \in DOMAIN waiting_threads : /\ waiting_threads'[i] = waiting_threads[j]
                                              /\ waiting_threads[j].thread # t
  BY QueueWithout
<1>2. TypeOK'
  <2>1. BlocksTypeOK'
    BY DEF QueueInv, TypeOK, BlocksTypeOK, blockVars
  <2>2. QED
    BY <1>0, <1>1, <2>1 DEF TypeOK, OwnerInv, Entries
<1>3. Waits(waiting_threads)'
  <2> SUFFICES ASSUME NEW i \in DOMAIN waiting_threads'
               PROVE  /\ Asking(waiting_threads[i].thread)'
                      /\ waiting_threads'[i].want = want'[waiting_threads'[i].thread]
    BY DEF Waits
  <2>1. PICK j \in DOMAIN waiting_threads : /\ waiting_threads'[i] = waiting_threads[j]
                                            /\ waiting_threads[j].thread # t
    BY <1>1
  <2>2. /\ Asking(waiting_threads[j].thread) /\ waiting_threads[j].thread \in Threads
        /\ waiting_threads[j].want = want[waiting_threads[j].thread]
    <3>1. waiting_threads[j] \in Entries
      BY <1>0
    <3>2. QED
      BY <3>1 DEF QueueInv, Waits, Entries
  <2>3. QED
    BY <1>0, <2>1, <2>2 DEF Asking
<1>4. ASSUME NEW u \in Threads PROVE Placed(u)'
  <2>1. Placed(u) /\ Runnable(u)' = Runnable(u)
    BY DEF QueueInv, Runnable, blockVars
  <2>2. CASE u = t
    BY <1>0, <2>1, <2>2 DEF Placed, Runnable, blockVars
  <2>3. CASE u # t
    BY <1>0, <1>1, <2>1, <2>3 DEF Placed, blockVars
  <2>4. QED
    BY <2>2, <2>3
<1>5. ASSUME ~locked', Serves(waiting_threads', condition') PROVE \E u \in Threads : Awake(u)'
  <2>1. ~locked /\ ~Awake(t) /\ condition' = condition /\ UNCHANGED want
    BY <1>5
  <2>2. Serves(waiting_threads, condition)
    BY <1>1, <1>5, <2>1 DEF Serves
  <2>3. PICK u \in Threads : Awake(u)
    BY <2>1, <2>2 DEF QueueInv
  <2>4. Awake(u)'
    BY <1>0, <2>1, <2>3 DEF Awake, Asking, Runnable, blockVars
  <2>5. QED
    BY <2>4
<1>6. suspends' = 0 /\ stopped' = [u \in Threads |-> 0]
  BY DEF QueueInv, blockVars
<1>7. QED
  BY <1>1, <1>2, <1>3, <1>4, <1>5, <1>6 DEF QueueInv

\* t starts to wait, or waits on: it is suspended, or it sleeps.
LEMMA WaitKept ==
    ASSUME QueueInv, NEW t \in Threads, NEW w \in Wishes, NEW q, Others(q, t),
           Runnable(t), ~Obtainable(w), Asking(t) => w = want[t],
           waiting_threads' = Append(q, [thread |-> t, want |-> w]), OwnerInv',
           want' = [want EXCEPT ![t] = w], UNCHANGED <<locked, condition>>,
           date' \in [Threads -> {"none", "pending", "passed"}],
           \/ call' = [call EXCEPT ![t] = "lock"] /\ SuspendSelf(t)
           \/ call' = [call EXCEPT ![t] = "timed"] /\ Sleep(t)
    PROVE  QueueInv'
<1>0. /\ call \in [Threads -> {"guest", "lock", "timed"}]
      /\ waiting_threads \in Seq(Entries) /\ want \in [Threads -> Wishes]
      /\ blocked \in [Threads -> {"none", "sleeping"}] /\ suspended \in [Threads -> Nat]
  BY DEF QueueInv, TypeOK, Entries, BlocksTypeOK
<1>1. /\ waiting_threads' \in Seq(Entries) /\ Once(waiting_threads')
      /\ \A u : Queued(u)' <=> Queued(u) \/ u = t
      /\ \A i \in DOMAIN waiting_threads' :
            \/ waiting_threads'[i] = [thread |-> t, want |-> w]
            \/ \E j \in DOMAIN waiting_threads :
                  /\ waiting_threads'[i] = waiting_threads[j]
                  /\ waiting_threads[j].thread # t
  BY QueueWith
<1>2. TypeOK'
  <2>1. BlocksTypeOK'
    <3>1. stopped \in [Threads -> Nat] /\ suspends \in 0 .. MaxSuspends
      BY DEF QueueInv, TypeOK, BlocksTypeOK
    <3>2. CASE SuspendSelf(t)
      BY <1>0, <3>1, <3>2 DEF BlocksTypeOK, SuspendSelf
    <3>3. CASE Sleep(t)
      BY <1>0, <3>1, <3>3 DEF BlocksTypeOK, Sleep
    <3>4. QED
      BY <3>2, <3>3
  <2>2. QED
    BY <1>0, <1>1, <2>1 DEF TypeOK, OwnerInv, Entries
<1>3. Asking(t)' /\ \A u \in Threads \ {t} : call'[u] = call[u] /\ want'[u] = want[u]
  BY <1>0 DEF Asking
<1>4. Waits(waiting_threads)'
  <2> SUFFICES ASSUME NEW i \in DOMAIN waiting_threads'
               PROVE  /\ Asking(waiting_threads[i].thread)'
                      /\ waiting_threads'[i].want = want'[waiting_threads'[i].thread]
    BY DEF Waits
  <2>1. CASE waiting_threads'[i] = [thread |-> t, want |-> w]
    BY <1>0, <1>3, <2>1
  <2>2. ASSUME NEW j \in DOMAIN waiting_threads, waiting_threads'[i] = waiting_threads[j],
               waiting_threads[j].thread # t
        PROVE  /\ Asking(waiting_threads[i].thread)'
               /\ waiting_threads'[i].want = want'[waiting_threads'[i].thread]
    <3>1. waiting_threads[j] \in Entries
      BY <1>0
    <3>2. /\ Asking(waiting_threads[j].thread) /\ waiting_threads[j].thread \in Threads
          /\ waiting_threads[j].want = want[waiting_threads[j].thread]
      BY <3>1 DEF QueueInv, Waits, Entries
    <3>3. QED
      BY <1>3, <2>2, <3>2 DEF Asking
  <2>3. QED
    BY <1>1, <2>1, <2>2
<1>5. ASSUME NEW u \in Threads PROVE Placed(u)'
  <2>1. CASE u = t
    BY <1>0, <1>1, <2>1 DEF Placed, Runnable, SuspendSelf, Sleep
  <2>2. CASE u # t
    <3>1. /\ Placed(u) /\ blocked'[u] = blocked[u] /\ suspended'[u] = suspended[u]
      BY <1>0, <2>2 DEF QueueInv, SuspendSelf, Sleep
    <3>2. QED
      BY <1>1, <1>3, <2>2, <3>1 DEF Placed, Runnable
  <2>3. QED
    BY <2>1, <2>2
<1>6. ASSUME ~locked', Serves(waiting_threads', condition') PROVE \E u \in Threads : Awake(u)'
  <2>1. ~locked /\ w \notin {AnyCond, condition} /\ condition' = condition
    BY <1>6 DEF Obtainable
  <2>2. Serves(waiting_threads, condition)
    BY <1>1, <1>6, <2>1 DEF Serves
  <2>3. PICK u \in Threads : Awake(u)
    BY <2>1, <2>2 DEF QueueInv
  <2>4. u # t
    BY <2>1, <2>3 DEF Awake
  <2>5. Awake(u)'
    BY <1>0, <1>3, <2>1, <2>3, <2>4 DEF Awake, Asking, Runnable, SuspendSelf, Sleep
  <2>6. QED
    BY <2>5
<1>7. suspends' = 0 /\ stopped' = [u \in Threads |-> 0]
  BY DEF QueueInv, SuspendSelf, Sleep
<1>8. QED
  BY <1>1, <1>2, <1>4, <1>5, <1>6, <1>7 DEF QueueInv

\* The lock is given back, and the first thread that the condition serves is woken.
LEMMA UnlockKept ==
    ASSUME QueueInv, OwnerInv', NEW t \in Threads, NEW c \in Conds,
           unlockWithCondition(t, c)
    PROVE  QueueInv'
<1>0. /\ waiting_threads \in Seq(Entries) /\ Once(waiting_threads)
      /\ blocked \in [Threads -> {"none", "sleeping"}] /\ suspended \in [Threads -> Nat]
      /\ stopped \in [Threads -> Nat] /\ suspends \in 0 .. MaxSuspends
      /\ suspends = 0 /\ stopped = [u \in Threads |-> 0]
      /\ date \in [Threads -> {"none", "pending", "passed"}]
  BY DEF QueueInv, TypeOK, Entries, BlocksTypeOK
<1>1. locked' = FALSE /\ condition' = c /\ UNCHANGED <<call, want, date>>
  BY DEF unlockWithCondition
<1>2. CASE ~Serves(waiting_threads, c)
  <2>1. UNCHANGED <<waiting_threads, blockVars>>
    BY <1>0, <1>2, FirstServedFound DEF unlockWithCondition
  <2>2. TypeOK'
    BY <1>0, <1>1, <2>1 DEF TypeOK, BlocksTypeOK, blockVars, OwnerInv, Entries
  <2>3. Once(waiting_threads') /\ Waits(waiting_threads)' /\ \A u \in Threads : Placed(u)'
    BY <1>1, <2>1
    DEF QueueInv, Waits, Asking, Placed, Runnable, Queued, blockVars
  <2>4. ~Serves(waiting_threads', condition')
    BY <1>1, <1>2, <2>1 DEF Serves
  <2>5. QED
    BY <1>0, <2>1, <2>2, <2>3, <2>4 DEF QueueInv, blockVars
<1>3. CASE Serves(waiting_threads, c)
  <2>1. PICK i : /\ i = FirstServed(c) /\ i \in DOMAIN waiting_threads
                 /\ waiting_threads[i].want \in {AnyCond, c}
    BY <1>0, <1>3, FirstServedFound
  <2>2. i \in 1 .. Len(waiting_threads) /\ i # 0 /\ waiting_threads[i] \in Entries
    BY <1>0, <2>1
  <2>3. PICK u \in Threads : /\ u = waiting_threads[i].thread
                             /\ waiting_threads' = RemoveAt(waiting_threads, i)
                             /\ SetNotBlocked({u})
    BY <2>1, <2>2 DEF unlockWithCondition, Entries
  <2>4. u \in Threads /\ Asking(u) /\ want[u] \in {AnyCond, c}
    BY <2>1, <2>3 DEF QueueInv, Waits
  <2>5. Others(waiting_threads', u)
    BY <1>0, <2>2, <2>3, WithoutFound, Leaving
  <2>6. /\ waiting_threads' \in Seq(Entries) /\ Once(waiting_threads')
        /\ \A v : Queued(v)' <=> Queued(v) /\ v # u
        /\ \A k \in DOMAIN waiting_threads' :
              \E j \in DOMAIN waiting_threads : waiting_threads'[k] = waiting_threads[j]
    BY <2>5, QueueWithout
  <2>7. /\ blocked'[u] = "none" /\ suspended'[u] = 0
        /\ \A v \in Threads \ {u} : blocked'[v] = blocked[v] /\ suspended'[v] = suspended[v]
        /\ UNCHANGED <<stopped, suspends>>
    BY <2>3, <2>4 DEF SetNotBlocked
  <2>8. TypeOK'
    <3>1. BlocksTypeOK'
      BY <1>0, <2>3 DEF BlocksTypeOK, SetNotBlocked
    <3>2. QED
      BY <1>0, <1>1, <2>6, <3>1 DEF TypeOK, OwnerInv, Entries
  <2>9. Waits(waiting_threads)'
    BY <1>1, <2>6 DEF QueueInv, Waits, Asking
  <2>10. ASSUME NEW v \in Threads PROVE Placed(v)'
    <3>1. Placed(v)
      BY DEF QueueInv
    <3>2. CASE v = u
      BY <1>1, <2>4, <2>6, <2>7, <3>2 DEF Placed, Asking
    <3>3. CASE v # u
      BY <1>1, <2>6, <2>7, <3>1, <3>3 DEF Placed, Runnable
    <3>4. QED
      BY <3>2, <3>3
  <2>11. Awake(u)'
    BY <1>1, <2>4, <2>7 DEF Awake, Asking, Runnable
  <2>12. (~locked /\ Serves(waiting_threads, condition) => \E v \in Threads : Awake(v))'
    BY <2>3, <2>11
  <2>13. QED
    BY <1>0, <2>6, <2>7, <2>8, <2>9, <2>10, <2>12 DEF QueueInv
<1>4. QED
  BY <1>2, <1>3

\* Only somebody else's wait or date changes: time passes, or sleep ends.
LEMMA TimeKept ==
    ASSUME QueueInv, OwnerInv', NEW t \in Threads, DatePasses(t) \/ WakeUp(t)
    PROVE  QueueInv'
<1>0. /\ blocked \in [Threads -> {"none", "sleeping"}] /\ suspended \in [Threads -> Nat]
      /\ date \in [Threads -> {"none", "pending", "passed"}]
      /\ call \in [Threads -> {"guest", "lock", "timed"}]
  BY DEF QueueInv, TypeOK, BlocksTypeOK
<1>1. /\ UNCHANGED <<locked, condition, waiting_threads, call, want, owner>>
      /\ UNCHANGED <<suspended, stopped, suspends>>
      /\ date' \in [Threads -> {"none", "pending", "passed"}]
      /\ blocked' \in [Threads -> {"none", "sleeping"}]
      /\ \A u \in Threads : blocked[u] = "none" => blocked'[u] = "none"
      /\ \A u \in Threads : blocked'[u] = blocked[u] \/ blocked'[u] = "none"
  BY <1>0 DEF DatePasses, WakeUp, SleepEnds, lockVars, blockVars
<1>2. TypeOK'
  BY <1>1 DEF QueueInv, TypeOK, BlocksTypeOK
<1>3. ASSUME NEW u \in Threads PROVE Placed(u)'
  BY <1>0, <1>1 DEF QueueInv, Placed, Runnable, Queued
<1>4. \A u \in Threads : Awake(u) => Awake(u)'
  BY <1>1 DEF Awake, Asking, Runnable
<1>5. Once(waiting_threads') /\ Waits(waiting_threads)'
      /\ (Serves(waiting_threads', condition') <=> Serves(waiting_threads, condition))
  BY <1>1 DEF QueueInv, Waits, Asking, Serves
<1>6. QED
  BY <1>1, <1>2, <1>3, <1>4, <1>5 DEF QueueInv

\* A thread that runs is in the queue only if its timed wait was cut short.
LEMMA RunnableQueued ==
    ASSUME QueueInv, NEW t \in Threads, Runnable(t), call[t] # "timed"
    PROVE  ~Queued(t)
<1>1. Placed(t) /\ call[t] \in {"guest", "lock"} /\ suspended[t] \in Nat
  BY DEF QueueInv, TypeOK, BlocksTypeOK
<1>2. CASE call[t] = "guest"
  <2>1. Queued(t) => Asking(t)
    BY DEF QueueInv, Waits, Queued
  <2>2. QED
    BY <1>2, <2>1 DEF Asking
<1>3. CASE call[t] = "lock"
  BY <1>1, <1>3 DEF Placed, Runnable
<1>4. QED
  BY <1>1, <1>2, <1>3

LEMMA LockTurnKept ==
    ASSUME QueueInv, OwnerInv', NEW t \in Threads, NEW w \in Wishes, Runnable(t),
           call[t] # "timed", call[t] = "lock" => w = want[t], LockTurn(t, w)
    PROVE  QueueInv'
<1>1. /\ Others(waiting_threads, t) /\ want \in [Threads -> Wishes]
      /\ call[t] \in {"guest", "lock"} /\ date \in [Threads -> {"none", "pending", "passed"}]
  BY RunnableQueued, NotQueued DEF QueueInv, TypeOK, Entries
<1>2. CASE Obtainable(w) /\ Obtain(t, w) /\ UNCHANGED waiting_threads
  <2>1. \A u \in Threads \ {t} : want'[u] = want[u]
    BY <1>1, <1>2 DEF Obtain
  <2>2. QED
    BY <1>1, <1>2, <2>1, LeaveKept DEF Obtain
<1>3. CASE /\ ~Obtainable(w)
           /\ waiting_threads' = Append(waiting_threads, [thread |-> t, want |-> w])
           /\ call' = [call EXCEPT ![t] = "lock"] /\ want' = [want EXCEPT ![t] = w]
           /\ SuspendSelf(t) /\ UNCHANGED <<locked, condition, date, owner>>
  <2>1. Asking(t) => w = want[t]
    BY <1>1 DEF Asking
  <2>2. QED
    BY <1>1, <1>3, <2>1, WaitKept
<1>4. QED
  BY <1>2, <1>3 DEF LockTurn

LEMMA TimedTurnKept ==
    ASSUME QueueInv, OwnerInv', NEW t \in Threads, NEW w \in Wishes, Runnable(t),
           NEW d, NEW q, Others(q, t), Asking(t) => w = want[t], TimedTurn(t, w, d, q)
    PROVE  QueueInv'
<1>1. want \in [Threads -> Wishes] /\ date \in [Threads -> {"none", "pending", "passed"}]
  BY DEF QueueInv, TypeOK
<1>2. CASE Obtainable(w) /\ Obtain(t, w) /\ waiting_threads' = q
  <2>1. \A u \in Threads \ {t} : want'[u] = want[u]
    BY <1>1, <1>2 DEF Obtain
  <2>2. QED
    BY <1>2, <2>1, LeaveKept DEF Obtain
<1>3. CASE /\ ~Obtainable(w) /\ call' = [call EXCEPT ![t] = "guest"]
           /\ date' = [date EXCEPT ![t] = "none"] /\ waiting_threads' = q
           /\ UNCHANGED <<locked, condition, want, owner, blockVars>>
  <2>1. locked' \/ ~Awake(t)
    <3>1. locked \in BOOLEAN /\ locked' = locked
      BY <1>3 DEF QueueInv, TypeOK
    <3>2. QED
      BY <1>3, <3>1 DEF Awake, Obtainable
  <2>2. QED
    BY <1>3, <2>1, LeaveKept
<1>4. CASE /\ ~Obtainable(w) /\ d = "pending" /\ call' = [call EXCEPT ![t] = "timed"]
           /\ want' = [want EXCEPT ![t] = w] /\ date' = [date EXCEPT ![t] = d]
           /\ waiting_threads' = Append(q, [thread |-> t, want |-> w])
           /\ Sleep(t) /\ UNCHANGED <<locked, condition, owner>>
  <2>1. date' \in [Threads -> {"none", "pending", "passed"}]
    BY <1>1, <1>4
  <2>2. QED
    BY <1>4, <2>1, WaitKept
<1>5. QED
  BY <1>2, <1>3, <1>4 DEF TimedTurn

LEMMA QueueStep ==
    ASSUME QueueInv, [Next]_vars, LockAssumption, MaxSuspends = 0
    PROVE  QueueInv'
<1>1. OwnerInv'
  BY StepSeen DEF QueueInv
<1>2. /\ AnyCond \in Wishes /\ \A c \in Conds : c \in Wishes
      /\ \A t \in Threads : want[t] \in Wishes
      /\ \A t \in Threads : InGuest(t) => Runnable(t) /\ call[t] = "guest"
  BY DEF Wishes, QueueInv, TypeOK, InGuest
<1>3. ASSUME NEW t \in Threads,
             lock(t) \/ \E c \in Conds : lockWhenCondition(t, c)
      PROVE  QueueInv'
  BY <1>1, <1>2, <1>3, LockTurnKept DEF lock, lockWhenCondition
<1>4. ASSUME NEW t \in Threads, NEW c \in Conds, lockWhenConditionBeforeDate(t, c)
      PROVE  QueueInv'
  <2>1. Runnable(t) /\ call[t] = "guest" /\ ~Asking(t)
    BY <1>2, <1>4 DEF lockWhenConditionBeforeDate, Asking
  <2>2. Others(waiting_threads, t)
    BY <2>1, RunnableQueued, NotQueued DEF QueueInv, TypeOK, Entries
  <2>3. QED
    BY <1>1, <1>2, <1>4, <2>1, <2>2, TimedTurnKept DEF lockWhenConditionBeforeDate
<1>5. ASSUME NEW t \in Threads, NEW w \in Wishes, tryLock(t, w)
      PROVE  QueueInv'
  <2>1. Runnable(t) /\ call[t] = "guest" /\ LockTurn(t, w)
    BY <1>2, <1>5 DEF tryLock, LockTurn
  <2>2. QED
    BY <1>1, <2>1, LockTurnKept
<1>6. ASSUME NEW t \in Threads, Turn(t) PROVE QueueInv'
  <2>1. CASE LockAgain(t)
    BY <1>1, <1>2, <2>1, LockTurnKept DEF LockAgain
  <2>2. CASE TimedAgain(t)
    <3>1. Others(WithoutFirst(waiting_threads, t), t)
      BY Leaving DEF QueueInv, TypeOK, Entries
    <3>2. QED
      BY <1>1, <1>2, <2>2, <3>1, TimedTurnKept DEF TimedAgain
  <2>3. QED
    BY <1>6, <2>1, <2>2 DEF Turn
<1>7. ASSUME NEW t \in Threads, unlock(t) \/ \E c \in Conds : unlockWithCondition(t, c)
      PROVE  QueueInv'
  <2>1. condition \in Conds
    BY DEF QueueInv, TypeOK
  <2>2. QED
    BY <1>1, <1>7, <2>1, UnlockKept DEF unlock
<1>8. ASSUME NEW t \in Threads, DatePasses(t) \/ WakeUp(t) PROVE QueueInv'
  BY <1>1, <1>8, TimeKept
<1>9. ASSUME NEW t \in Threads, Suspension(t) PROVE QueueInv'
  BY <1>9 DEF Suspension, thread_suspend, thread_resume, QueueInv
<1>10. CASE UNCHANGED vars
  <2>1. TypeOK' /\ \A t \in Threads : Placed(t)'
    BY <1>10 DEF vars, lockVars, blockVars, QueueInv, TypeOK, BlocksTypeOK, Placed,
                 Runnable, Queued
  <2>2. \A t \in Threads : Awake(t) => Awake(t)'
    BY <1>10 DEF vars, lockVars, blockVars, Awake, Asking, Runnable
  <2>3. QED
    BY <1>1, <1>10, <2>1, <2>2
    DEF vars, lockVars, blockVars, QueueInv, Waits, Asking, Serves
<1>11. QED
  BY <1>3, <1>4, <1>5, <1>6, <1>7, <1>8, <1>9, <1>10 DEF Next

LEMMA QueueInit == LockAssumption /\ MaxSuspends = 0 /\ Init => QueueInv
<1> SUFFICES ASSUME LockAssumption, MaxSuspends = 0, Init PROVE QueueInv
  OBVIOUS
<1>1. TypeOK
  <2>1. BlocksTypeOK
    BY DEF Init, BlocksInit, BlocksTypeOK
  <2>2. waiting_threads \in Seq([thread : Threads, want : Wishes])
    BY DEF Init
  <2>3. QED
    BY <2>1, <2>2 DEF Init, TypeOK, Wishes
<1>2. OwnerInv
  BY DEF Init, OwnerInv, Asking, Wishes
<1>3. DOMAIN waiting_threads = {}
  BY DEF Init
<1>4. \A t \in Threads : Placed(t)
  BY <1>3 DEF Init, BlocksInit, Placed, Runnable
<1>5. QED
  BY <1>1, <1>2, <1>3, <1>4 DEF QueueInv, Once, Waits, Serves, Init, BlocksInit

\* The positions of t are none, or one.
LEMMA OnePosition ==
    ASSUME QueueInv, NEW t \in Threads
    PROVE  LET n == Cardinality({i \in DOMAIN waiting_threads :
                                     waiting_threads[i].thread = t})
           IN  n = IF Queued(t) THEN 1 ELSE 0
<1> DEFINE T == {i \in DOMAIN waiting_threads : waiting_threads[i].thread = t}
<1>1. CASE Queued(t)
  <2>1. PICK i \in DOMAIN waiting_threads : waiting_threads[i].thread = t
    BY <1>1 DEF Queued
  <2>2. T = {i}
    BY <2>1 DEF QueueInv, Once
  <2>3. Cardinality({i}) = 1
    BY FS_Singleton
  <2> HIDE DEF T
  <2>4. Cardinality(T) = 1
    BY <2>2, <2>3
  <2>5. QED
    BY <1>1, <2>4 DEF T
<1>2. CASE ~Queued(t)
  <2>1. T = {}
    BY <1>2 DEF Queued
  <2>2. Cardinality({}) = 0
    BY FS_EmptySet
  <2> HIDE DEF T
  <2>3. Cardinality(T) = 0
    BY <2>1, <2>2
  <2>4. QED
    BY <1>2, <2>3 DEF T
<1>3. QED
  BY <1>1, <1>2

\* NSConditionLock loses no wake-up: unlocking wakes one waiter only, and that one
\* may come too late, but as long as the lock is free and meets the wish of a
\* thread in the queue, a thread whose wish is met is awake and about to take it.
THEOREM LockWakesKept ==
    ASSUME LockAssumption, MaxSuspends = 0
    PROVE  Spec => []NoLostWakeup
<1>1. Init => QueueInv
  BY QueueInit
<1>2. QueueInv /\ [Next]_vars => QueueInv'
  BY QueueStep
<1>3. ASSUME QueueInv PROVE NoLostWakeup
  <2> SUFFICES ASSUME ~locked, FirstServed(condition) # 0
               PROVE  \E t \in Threads : /\ Asking(t) /\ blocked[t] = "none"
                                         /\ suspended[t] = 0 /\ Obtainable(want[t])
    BY DEF NoLostWakeup
  <2>1. Serves(waiting_threads, condition)
    BY <1>3, FirstServedFound DEF QueueInv, TypeOK, Entries
  <2>2. PICK t \in Threads : Awake(t)
    BY <1>3, <2>1 DEF QueueInv
  <2>3. QED
    BY <2>2 DEF Awake, Runnable, Obtainable
<1>4. QED
  BY <1>1, <1>2, <1>3, PTL DEF Spec

\* A thread is in the queue of an NSConditionLock at most once, only while it
\* waits in a call and under the condition of that call; out of it, it is not
\* suspended. So unlock never spends a wake-up on a thread that has left.
THEOREM LockQueueExact ==
    ASSUME LockAssumption, MaxSuspends = 0
    PROVE  Spec => []QueueExact
<1>1. Init => QueueInv
  BY QueueInit
<1>2. QueueInv /\ [Next]_vars => QueueInv'
  BY QueueStep
<1>3. ASSUME QueueInv PROVE QueueExact
  <2> SUFFICES ASSUME NEW t \in Threads
               PROVE  LET n == Cardinality({i \in DOMAIN waiting_threads :
                                                waiting_threads[i].thread = t})
                      IN  /\ n <= 1
                          /\ n = 1 => /\ Asking(t)
                                      /\ \A i \in DOMAIN waiting_threads :
                                            waiting_threads[i].thread = t
                                            => waiting_threads[i].want = want[t]
                          /\ n = 0 /\ call[t] = "lock" => suspended[t] = 0
    BY DEF QueueExact
  <2>1. Placed(t) /\ suspended[t] \in Nat
    BY <1>3 DEF QueueInv, TypeOK, BlocksTypeOK
  <2>2. Queued(t) => /\ Asking(t)
                     /\ \A i \in DOMAIN waiting_threads :
                           waiting_threads[i].thread = t
                           => waiting_threads[i].want = want[t]
    BY <1>3 DEF QueueInv, Waits, Queued
  <2>3. ~Queued(t) /\ call[t] = "lock" => suspended[t] = 0
    BY <2>1 DEF Placed
  <2> DEFINE n == Cardinality({i \in DOMAIN waiting_threads :
                                   waiting_threads[i].thread = t})
  <2>4. n = IF Queued(t) THEN 1 ELSE 0
    BY <1>3, OnePosition
  <2> HIDE DEF n
  <2>5. n <= 1 /\ (n = 1 => Queued(t)) /\ (n = 0 => ~Queued(t))
    BY <2>4
  <2>6. QED
    BY <2>2, <2>3, <2>5 DEF n
<1>4. QED
  BY <1>1, <1>2, <1>3, PTL DEF Spec
=============================================================================
