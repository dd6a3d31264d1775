---------------------------- MODULE ThreadProofs ----------------------------
(***************************************************************************)
(* Types and scheduling of GuestThreads, for any number of threads,        *)
(* mutexes, semaphores and condition variables and any guest.              *)
(*                                                                         *)
(* First what the operators that the model is built from preserve, one     *)
(* section per component, then type correctness: TypeOK is inductive as it *)
(* stands, since it says of blocks, pending calls and guest words which    *)
(* objects they name.                                                      *)
(*                                                                         *)
(* Then the scheduler runs the right thread with the right contexts.  None *)
(* of the three invariants that say so is inductive alone: switch_thread   *)
(* needs to know that the candidate is active, yield_thread that its caller*)
(* has not finished, new_thread that the state of an unused identifier is  *)
(* blank.  ThreadInv is their conjunction with the type invariant and      *)
(* UnbornBlank.  The proof goes through ThreadStep, the eight ways in which*)
(* a step can change threads.  A scan then loses no wake-up.               *)
(*                                                                         *)
(* Last, mutexes, condition variables and semaphores, which are proved     *)
(* together: SyncInv says for each thread what its block and the call it   *)
(* is in have to do with each other (CallsMatch), that the mutex it will   *)
(* get exists (CallsExist), who holds what (HoldsMatch), who is queued     *)
(* where (CondsExact) and where each token is (TokensKept).                *)
(***************************************************************************)
EXTENDS GuestThreads, SequenceTheorems, FiniteSetTheorems, TLAPS

(***************************************************************************)
(* Mutexes (MutexState)                                                    *)
(***************************************************************************)
\* Putting a mutex whose holder and lock count agree into the map leaves a
\* map of mutexes.
LEMMA MutexUpdate ==
    ASSUME NEW ms, MutexMapOK(ms), NEW id \in MutexIds, NEW m \in Mutex,
           m.locked_by = NoThread <=> m.lock_count = 0
    PROVE  MutexMapOK([ms EXCEPT ![id] = m])
BY DEF MutexMapOK

\* What the methods of MutexState and Environment do to the map of mutexes
\* leaves a map of mutexes, with both halves of locked present or absent.
LEMMA MutexOps ==
    ASSUME NEW ms, MutexMapOK(ms), NEW id \in MutexIds, NEW t \in ThreadIds
    PROVE  /\ \A type \in MutexTypes : MutexMapOK(init_mutex(ms, id, type))
           /\ MutexMapOK(destroy_mutex(ms, id))
           /\ MutexMapOK(take(ms, id, t))
           /\ ms[id].locked_by # NoThread => MutexMapOK(relevel(ms, id))
           /\ MutexMapOK(add_waiter(ms, id))
           /\ MutexMapOK(relock(ms, id, t))
           /\ ms[id].locked_by # NoThread => MutexMapOK(unlock_mutex(ms, id))
<1> DEFINE m == ms[id]
           Put(by, count, waiting) ==
               [ms EXCEPT ![id] =
                   [m EXCEPT !.locked_by = by, !.lock_count = count,
                             !.waiting_count = waiting]]
           Fit(by, count, waiting) ==
               /\ by \in ThreadIds \cup {NoThread}
               /\ count \in Nat /\ waiting \in Nat
               /\ by = NoThread <=> count = 0
<1>0. /\ m \in Mutex
      /\ m.locked_by = NoThread <=> m.lock_count = 0
      /\ ms \in [MutexIds -> Mutex]
      /\ m.locked_by \in ThreadIds \cup {NoThread}
      /\ m.lock_count \in Nat /\ m.waiting_count \in Nat
  BY DEF MutexMapOK, Mutex
<1>1. t # NoThread
  BY BoundsAssumption DEF ThreadIds, NoThread
<1>2. ASSUME NEW by, NEW count, NEW waiting, Fit(by, count, waiting)
      PROVE  MutexMapOK(Put(by, count, waiting))
  <2> DEFINE new == [m EXCEPT !.locked_by = by, !.lock_count = count,
                              !.waiting_count = waiting]
  <2>1. new \in Mutex /\ new.locked_by = by /\ new.lock_count = count
    BY <1>0, <1>2 DEF Mutex
  <2> HIDE DEF new
  <2>2. MutexMapOK([ms EXCEPT ![id] = new])
    BY <1>2, <2>1, MutexUpdate
  <2>3. QED
    BY <2>2 DEF new
<1>3. ASSUME NEW type \in MutexTypes \cup {"absent"}
      PROVE  MutexMapOK([ms EXCEPT ![id] = Free(type)])
  <2>1. /\ Free(type) \in Mutex
        /\ Free(type).locked_by = NoThread /\ Free(type).lock_count = 0
    BY <1>3 DEF Free, Mutex
  <2>2. QED
    BY <2>1, MutexUpdate
<1>4. /\ \A type \in MutexTypes : MutexMapOK(init_mutex(ms, id, type))
      /\ MutexMapOK(destroy_mutex(ms, id))
  BY <1>3, Zenon DEF init_mutex, destroy_mutex
<1>5. MutexMapOK(take(ms, id, t))
  <2> DEFINE by == t
             count == 1
             waiting == m.waiting_count
  <2>1. take(ms, id, t) = Put(by, count, waiting)
    BY <1>0 DEF take, Mutex
  <2>2. Fit(by, count, waiting)
    BY <1>0, <1>1
  <2> HIDE DEF Put, Fit, by, count, waiting
  <2>3. QED
    BY <1>2, <2>1, <2>2, Zenon
<1>6. ASSUME ms[id].locked_by # NoThread PROVE MutexMapOK(relevel(ms, id))
  <2> DEFINE by == m.locked_by
             count == m.lock_count + 1
             waiting == m.waiting_count
  <2>1. relevel(ms, id) = Put(by, count, waiting)
    BY <1>0 DEF relevel, Mutex
  <2>2. Fit(by, count, waiting)
    BY <1>0, <1>1, <1>6
  <2> HIDE DEF Put, Fit, by, count, waiting
  <2>3. QED
    BY <1>2, <2>1, <2>2, Zenon
<1>7. MutexMapOK(add_waiter(ms, id))
  <2> DEFINE by == m.locked_by
             count == m.lock_count
             waiting == m.waiting_count + 1
  <2>1. add_waiter(ms, id) = Put(by, count, waiting)
    BY <1>0 DEF add_waiter, Mutex
  <2>2. Fit(by, count, waiting)
    BY <1>0, <1>1
  <2> HIDE DEF Put, Fit, by, count, waiting
  <2>3. QED
    BY <1>2, <2>1, <2>2, Zenon
<1>8. MutexMapOK(relock(ms, id, t))
  <2> DEFINE by == t
             count == 1
             waiting == IF m.waiting_count > 0 THEN m.waiting_count - 1
                        ELSE m.waiting_count
  <2>1. relock(ms, id, t) = Put(by, count, waiting)
    BY <1>0 DEF relock, Mutex
  <2>2. Fit(by, count, waiting)
    BY <1>0, <1>1
  <2> HIDE DEF Put, Fit, by, count, waiting
  <2>3. QED
    BY <1>2, <2>1, <2>2, Zenon
<1>9. ASSUME ms[id].locked_by # NoThread PROVE MutexMapOK(unlock_mutex(ms, id))
  <2>1. CASE m.lock_count = 1
    <3> DEFINE by == NoThread
               count == 0
               waiting == m.waiting_count
    <3>1. unlock_mutex(ms, id) = Put(by, count, waiting)
      BY <1>0, <2>1 DEF unlock_mutex, Mutex
    <3>2. Fit(by, count, waiting)
      BY <1>0, <1>1
    <3> HIDE DEF Put, Fit, by, count, waiting
    <3>3. QED
      BY <1>2, <3>1, <3>2, Zenon
  <2>2. CASE m.lock_count # 1
    <3> DEFINE by == m.locked_by
               count == m.lock_count - 1
               waiting == m.waiting_count
    <3>1. unlock_mutex(ms, id) = Put(by, count, waiting)
      BY <1>0, <2>2 DEF unlock_mutex, Mutex
    <3>2. Fit(by, count, waiting)
      BY <1>0, <1>1, <1>9, <2>2
    <3> HIDE DEF Put, Fit, by, count, waiting
    <3>3. QED
      BY <1>2, <3>1, <3>2, Zenon
  <2>3. QED
    BY <2>1, <2>2
<1>10. QED
  BY <1>4, <1>5, <1>6, <1>7, <1>8, <1>9

(***************************************************************************)
(* Condition variables (CondVars)                                          *)
(***************************************************************************)
\* Removing a thread from a queue (VecDeque::retain) leaves a queue.
LEMMA WithoutType ==
    ASSUME NEW S, NEW queue \in Seq(S), NEW t
    PROVE  Without(queue, t) \in Seq(S)
<1>1. CASE \E i \in 1 .. Len(queue) : queue[i] = t
  <2> DEFINE i == CHOOSE i \in 1 .. Len(queue) : queue[i] = t
  <2>1. i \in 1 .. Len(queue) /\ Len(queue) \in Nat
    BY <1>1
  <2>2. Without(queue, t) =
            SubSeq(queue, 1, i - 1) \o SubSeq(queue, i + 1, Len(queue))
    BY <1>1 DEF Without
  <2> HIDE DEF i
  <2>3. SubSeq(queue, 1, i - 1) \in Seq(S)
    <3>1. i - 1 \in Int /\ \A k \in 1 .. i - 1 : queue[k] \in S
      BY <2>1
    <3>2. QED
      BY <3>1, SubSeqProperties
  <2>4. SubSeq(queue, i + 1, Len(queue)) \in Seq(S)
    <3>1. i + 1 \in Int /\ \A k \in i + 1 .. Len(queue) : queue[k] \in S
      BY <2>1
    <3>2. QED
      BY <2>1, <3>1, SubSeqProperties
  <2>5. QED
    BY <2>2, <2>3, <2>4, ConcatProperties
<1>2. CASE ~ \E i \in 1 .. Len(queue) : queue[i] = t
  BY <1>2 DEF Without
<1>3. QED
  BY <1>1, <1>2

\* What the calls of cond.rs and the scheduler do to the map of condition
\* variables leaves such a map.
LEMMA CondOps ==
    ASSUME NEW cs, CondMapOK(cs), NEW c \in CondPtrs, NEW t \in ThreadIds,
           NEW id \in MutexIds
    PROVE  /\ CondMapOK([cs EXCEPT ![c] = FreshCond])
           /\ CondMapOK([cs EXCEPT ![c] = NoCond])
           /\ CondMapOK(Enqueue(cs, c, id, t))
           /\ CondMapOK(SignalOne(cs, c))
           /\ CondMapOK(SignalAll(cs, c))
           /\ cs[c].waking # <<>> => CondMapOK(PopWaking(cs, c))
           /\ CondMapOK(TimeOut(cs, c, t))
           /\ CondMapOK(ClearTimedOut(cs, c, t))
<1> DEFINE v == cs[c]
           Put(waiting, waking, mutex, late) ==
               [cs EXCEPT ![c] =
                   [v EXCEPT !.waiting = waiting, !.waking = waking,
                             !.curr_mutex = mutex, !.timed_out = late]]
           Fit(waiting, waking, mutex, late) ==
               /\ waiting \in Seq(ThreadIds) /\ waking \in Seq(ThreadIds)
               /\ mutex \in MutexIds \cup {NoMutex}
               /\ late \in SUBSET ThreadIds
<1>0. /\ cs \in [CondPtrs -> CondHostObject]
      /\ v \in CondHostObject
      /\ v.waiting \in Seq(ThreadIds) /\ v.waking \in Seq(ThreadIds)
      /\ v.curr_mutex \in MutexIds \cup {NoMutex}
      /\ v.timed_out \in SUBSET ThreadIds
  BY DEF CondMapOK, CondHostObject
<1>1. ASSUME NEW new \in CondHostObject PROVE CondMapOK([cs EXCEPT ![c] = new])
  BY <1>0 DEF CondMapOK
<1>2. FreshCond \in CondHostObject /\ NoCond \in CondHostObject
  <2>1. <<>> \in Seq(ThreadIds)
    OBVIOUS
  <2>2. QED
    BY <2>1 DEF CondHostObject, FreshCond, NoCond
<1>3. ASSUME NEW waiting, NEW waking, NEW mutex, NEW late,
             Fit(waiting, waking, mutex, late)
      PROVE  CondMapOK(Put(waiting, waking, mutex, late))
  <2>1. [v EXCEPT !.waiting = waiting, !.waking = waking,
                  !.curr_mutex = mutex, !.timed_out = late] \in CondHostObject
    BY <1>0, <1>3 DEF CondHostObject
  <2>2. QED
    BY <1>1, <2>1
<1>4. CondMapOK(Enqueue(cs, c, id, t))
  <2> DEFINE q == Append(v.waiting, t)
             k == v.waking
             m == id
             l == v.timed_out
  <2>1. Enqueue(cs, c, id, t) = Put(q, k, m, l)
    BY <1>0 DEF Enqueue, CondHostObject
  <2>2. Fit(q, k, m, l)
    BY <1>0
  <2> HIDE DEF Put, Fit, q, k, m, l
  <2>3. QED
    BY <1>3, <2>1, <2>2, Zenon
<1>5. CondMapOK(SignalOne(cs, c))
  <2>1. CASE v.waiting # <<>>
    <3> DEFINE q == Tail(v.waiting)
               k == Append(v.waking, Head(v.waiting))
               m == v.curr_mutex
               l == v.timed_out
    <3>1. SignalOne(cs, c) = Put(q, k, m, l)
      BY <1>0, <2>1 DEF SignalOne, CondHostObject
    <3>2. Fit(q, k, m, l)
      BY <1>0, <2>1
    <3> HIDE DEF Put, Fit, q, k, m, l
    <3>3. QED
      BY <1>3, <3>1, <3>2, Zenon
  <2>2. CASE v.waiting = <<>>
    BY <2>2 DEF SignalOne
  <2>3. QED
    BY <2>1, <2>2
<1>6. CondMapOK(SignalAll(cs, c))
  <2> DEFINE q == <<>>
             k == v.waking \o v.waiting
             m == v.curr_mutex
             l == v.timed_out
  <2>1. SignalAll(cs, c) = Put(q, k, m, l)
    BY <1>0 DEF SignalAll, CondHostObject
  <2>2. Fit(q, k, m, l)
    BY <1>0
  <2> HIDE DEF Put, Fit, q, k, m, l
  <2>3. QED
    BY <1>3, <2>1, <2>2, Zenon
<1>7. ASSUME cs[c].waking # <<>> PROVE CondMapOK(PopWaking(cs, c))
  <2> DEFINE q == v.waiting
             k == Tail(v.waking)
             m == v.curr_mutex
             l == v.timed_out
  <2>1. PopWaking(cs, c) = Put(q, k, m, l)
    BY <1>0 DEF PopWaking, CondHostObject
  <2>2. Fit(q, k, m, l)
    BY <1>0, <1>7
  <2> HIDE DEF Put, Fit, q, k, m, l
  <2>3. QED
    BY <1>3, <2>1, <2>2, Zenon
<1>8. CondMapOK(TimeOut(cs, c, t))
  <2> DEFINE q == Without(v.waiting, t)
             k == Without(v.waking, t)
             m == v.curr_mutex
             l == v.timed_out \cup {t}
  <2>1. TimeOut(cs, c, t) = Put(q, k, m, l)
    BY <1>0 DEF TimeOut, CondHostObject
  <2>2. Fit(q, k, m, l)
    BY <1>0, WithoutType
  <2> HIDE DEF Put, Fit, q, k, m, l
  <2>3. QED
    BY <1>3, <2>1, <2>2, Zenon
<1>9. CondMapOK(ClearTimedOut(cs, c, t))
  <2> DEFINE q == v.waiting
             k == v.waking
             m == v.curr_mutex
             l == v.timed_out \ {t}
  <2>1. ClearTimedOut(cs, c, t) = Put(q, k, m, l)
    BY <1>0 DEF ClearTimedOut, CondHostObject
  <2>2. Fit(q, k, m, l)
    BY <1>0
  <2> HIDE DEF Put, Fit, q, k, m, l
  <2>3. QED
    BY <1>3, <2>1, <2>2, Zenon
<1>10. QED
  BY <1>1, <1>2, <1>4, <1>5, <1>6, <1>7, <1>8, <1>9

(***************************************************************************)
(* Threads (Scheduler) and semaphores (Semaphores)                         *)
(***************************************************************************)
\* Threads that exist have identifiers, and so has the thread that
\* schedule_next_thread considers.
LEMMA LiveIds ==
    ASSUME SchedTypeOK
    PROVE  /\ LiveThreads \subseteq ThreadIds
           /\ current_thread \in ThreadIds
           /\ Candidate \in LiveThreads
           /\ Candidate \in ThreadIds
<1>1. LiveThreads \subseteq ThreadIds /\ current_thread \in ThreadIds
  BY BoundsAssumption DEF SchedTypeOK, LiveThreads, ThreadIds
<1>2. nthreads \in Nat /\ nthreads > 0 /\ current_thread + 1 + scan_i \in Nat
  BY BoundsAssumption DEF SchedTypeOK, LiveThreads
<1>3. \A a, n \in Nat : n > 0 => a % n \in 0 .. n - 1
  OBVIOUS
<1>4. Candidate \in LiveThreads
  BY <1>2, <1>3 DEF Candidate, LiveThreads
<1>5. QED
  BY <1>1, <1>4

\* ThreadBlock::NotBlocked and the absence of a call are well formed.
LEMMA NotBlockedOK == BlockOK(NotBlocked) /\ CallOK(NoCall)
BY DEF CallOK, BlockOK, NotBlocked, BlockOn, Block, BlockKinds, Deadlines, NoCall,
       CallTo, Call, HostCalls

\* A step that leaves the threads alone keeps their type.
LEMMA SchedUnchanged ==
    ASSUME SchedTypeOK, UNCHANGED schedVars
    PROVE  SchedTypeOK'
BY DEF SchedTypeOK, schedVars, threadVars, contextVars, scanVars, LiveThreads,
       BlocksOK, CallsOK

\* A host function that returns without yielding keeps the type.
LEMMA ReturnType ==
    ASSUME SchedTypeOK, NEW r \in Results, Return(r)
    PROVE  SchedTypeOK'
BY DEF SchedTypeOK, Return, threadVars, contextVars, scanVars, LiveThreads,
       BlocksOK, CallsOK

\* So does a failed assertion of the host,
LEMMA PanicType ==
    ASSUME SchedTypeOK, NEW why \in Panics, Panic(why)
    PROVE  SchedTypeOK'
BY DEF SchedTypeOK, Panic, threadVars, contextVars, scanVars, LiveThreads,
       BlocksOK, CallsOK

\* yield_thread with a well formed block,
LEMMA YieldType ==
    ASSUME SchedTypeOK, NEW b, BlockOK(b), NEW call, CallOK(call), Yield(b, call)
    PROVE  SchedTypeOK'
<1>1. /\ BlocksOK'
      /\ CallsOK'
  <2>1. b \in Block /\ call \in Call
    BY DEF BlockOK, CallOK
  <2>2. QED
    BY <2>1, LiveIds DEF SchedTypeOK, BlocksOK, CallsOK, Yield
<1>2. scan_i' \in 0 .. nthreads' /\ current_thread' \in LiveThreads'
  BY BoundsAssumption DEF SchedTypeOK, Yield, StartScan, threadVars, LiveThreads
<1>3. next_awakening' \in BOOLEAN
  BY DEF Yield, StartScan
<1>4. phase' \in {"guest", "scan"} /\ ret' \in Results
  BY DEF Yield, StartScan, Results
<1>5. QED
  BY <1>1, <1>2, <1>3, <1>4 DEF SchedTypeOK, Yield, threadVars, contextVars, CallsOK

\* passing over a candidate in schedule_next_thread,
LEMMA SkipType ==
    ASSUME SchedTypeOK, Scanning, NEW timed \in BOOLEAN, Skip(timed)
    PROVE  SchedTypeOK'
BY DEF SchedTypeOK, Scanning, Skip, threadVars, contextVars, LiveThreads,
       BlocksOK, CallsOK

\* switch_thread (what it makes of the contexts),
LEMMA SwitchType ==
    ASSUME SchedTypeOK, NEW t \in LiveThreads, switch_thread(t)
    PROVE  /\ current_thread' = t
           /\ phase' = "guest" /\ scan_i' = 0 /\ next_awakening' = FALSE
           /\ guest_context' \in [ThreadIds -> BOOLEAN]
           /\ host_context' \in [ThreadIds -> BOOLEAN]
           /\ old_context' \in BOOLEAN
BY LiveIds DEF SchedTypeOK, switch_thread, contextVars

\* and unblocking the candidate and switching to it.
LEMMA WakeType ==
    ASSUME SchedTypeOK, Scanning, Wake
    PROVE  SchedTypeOK'
<1>1. BlocksOK'
  BY LiveIds, NotBlockedOK DEF SchedTypeOK, BlocksOK, Wake, BlockOK
<1>2. /\ current_thread' \in LiveThreads
      /\ phase' = "guest" /\ scan_i' = 0 /\ next_awakening' = FALSE
      /\ guest_context' \in [ThreadIds -> BOOLEAN]
      /\ host_context' \in [ThreadIds -> BOOLEAN]
      /\ old_context' \in BOOLEAN
  BY LiveIds, SwitchType DEF Wake
<1>3. scan_i' \in 0 .. nthreads' /\ current_thread' \in LiveThreads'
  BY <1>2, BoundsAssumption DEF SchedTypeOK, Wake, threadVars, LiveThreads
<1>4. next_awakening' \in BOOLEAN /\ phase' \in {"guest", "scan"}
  BY <1>2
<1>5. QED
  BY <1>1, <1>2, <1>3, <1>4 DEF SchedTypeOK, Wake, threadVars, CallsOK

\* The calls of semaphore.rs and the scheduler keep the type of the open
\* semaphores; no value goes below zero.
LEMMA SemSteps ==
    ASSUME SemTypeOK, NEW s \in SemPtrs, NEW t \in ThreadIds
    PROVE  /\ UNCHANGED semVars => SemTypeOK'
           /\ \A v \in Nat : InitSem(s, v) => SemTypeOK'
           /\ CloseSem(s) => SemTypeOK'
           /\ sem_increment(s) => SemTypeOK'
           /\ sem_decrement(s) => SemTypeOK'
           /\ EnqueueSemWaiter(s, t) => SemTypeOK'
           /\ GrantSem(s, t) => SemTypeOK'
<1>0. /\ sems \in [SemPtrs -> Semaphore]
      /\ sems[s] \in Semaphore
      /\ posted \in [SemPtrs -> Nat] /\ passed \in [SemPtrs -> Nat]
  BY DEF SemTypeOK
<1>1. UNCHANGED semVars => SemTypeOK'
  BY DEF SemTypeOK, semVars
<1>2. ASSUME NEW v \in Nat, InitSem(s, v) PROVE SemTypeOK'
  <2>1. [open |-> TRUE, value |-> v, waiting |-> {}] \in Semaphore
    BY <1>2 DEF Semaphore
  <2>2. CASE sems[s].open
    BY <1>0, <1>2, <2>2 DEF SemTypeOK, InitSem
  <2>3. CASE ~sems[s].open
    <3> DEFINE new == [open |-> TRUE, value |-> v, waiting |-> {}]
    <3>1. /\ sems' = [sems EXCEPT ![s] = new]
          /\ posted' = [posted EXCEPT ![s] = posted[s] + v]
          /\ passed' = passed
      BY <1>2, <2>3 DEF InitSem
    <3> HIDE DEF new
    <3>2. sems' \in [SemPtrs -> Semaphore]
      BY <1>0, <2>1, <3>1 DEF new
    <3>3. posted' \in [SemPtrs -> Nat]
      BY <1>0, <3>1
    <3>4. QED
      BY <1>0, <3>1, <3>2, <3>3 DEF SemTypeOK
  <2>4. QED
    BY <2>2, <2>3
<1>3. ASSUME CloseSem(s) PROVE SemTypeOK'
  <2>1. ClosedSem \in Semaphore
    BY DEF Semaphore, ClosedSem
  <2>2. QED
    BY <1>0, <1>3, <2>1 DEF SemTypeOK, CloseSem
<1>4. ASSUME sem_increment(s) PROVE SemTypeOK'
  <2>1. [sems[s] EXCEPT !.value = @ + 1] \in Semaphore
    BY <1>0 DEF Semaphore
  <2>2. QED
    BY <1>0, <1>4, <2>1 DEF SemTypeOK, sem_increment
<1>5. ASSUME sem_decrement(s) PROVE SemTypeOK'
  <2>1. [sems[s] EXCEPT !.value = @ - 1] \in Semaphore
    BY <1>0, <1>5 DEF Semaphore, sem_decrement
  <2>2. QED
    BY <1>0, <1>5, <2>1 DEF SemTypeOK, sem_decrement
<1>6. ASSUME EnqueueSemWaiter(s, t) PROVE SemTypeOK'
  <2> DEFINE q == sems[s].waiting \cup {t}
  <2>1. q \in SUBSET ThreadIds
    BY <1>0 DEF Semaphore
  <2>2. sems' = [sems EXCEPT ![s].waiting = q]
    BY <1>6 DEF EnqueueSemWaiter
  <2> HIDE DEF q
  <2>3. sems' \in [SemPtrs -> Semaphore]
    BY <1>0, <2>1, <2>2 DEF Semaphore
  <2>4. QED
    BY <1>0, <1>6, <2>3 DEF SemTypeOK, EnqueueSemWaiter
<1>7. ASSUME GrantSem(s, t) PROVE SemTypeOK'
  <2> DEFINE q == sems[s].waiting \ {t}
             n == sems[s].value - 1
  <2>1. q \in SUBSET ThreadIds
    BY <1>0 DEF Semaphore
  <2>2. n \in Nat
    BY <1>0, <1>7 DEF Semaphore, GrantSem
  <2>3. sems' = [sems EXCEPT ![s].value = n, ![s].waiting = q]
    BY <1>7 DEF GrantSem
  <2> HIDE DEF q, n
  <2>4. sems' \in [SemPtrs -> Semaphore]
    BY <1>0, <2>1, <2>2, <2>3 DEF Semaphore
  <2>5. QED
    BY <1>0, <1>7, <2>4 DEF SemTypeOK, GrantSem
<1>8. QED
  BY <1>1, <1>2, <1>3, <1>4, <1>5, <1>6, <1>7

(***************************************************************************)
(* Guest mutexes (PthreadMutex) and lock_mutex (GuestThreads)              *)
(***************************************************************************)
\* The type of the history variable holds.
HoldsOK == holds \in [ThreadIds -> [MutexIds -> Int]]

\* The history of locks obtained stays a table of integers.
LEMMA HoldsSteps ==
    ASSUME HoldsOK, NEW t \in ThreadIds, NEW id \in MutexIds,
           NEW ms
    PROVE  /\ Obtained(t, id) => HoldsOK'
           /\ Released(ms, t, id) => HoldsOK'
<1>0. holds[t] \in [MutexIds -> Int]
  BY DEF HoldsOK
<1>1. ASSUME Obtained(t, id) PROVE HoldsOK'
  <2>1. [holds[t] EXCEPT ![id] = @ + 1] \in [MutexIds -> Int]
    BY <1>0
  <2>2. QED
    BY <1>1, <2>1 DEF HoldsOK, Obtained
<1>2. ASSUME Released(ms, t, id) PROVE HoldsOK'
  <2>1. [holds[t] EXCEPT ![id] = @ - 1] \in [MutexIds -> Int]
    BY <1>0
  <2>2. \A u \in ThreadIds : [holds[u] EXCEPT ![id] = 0] \in [MutexIds -> Int]
    BY DEF HoldsOK
  <2>3. CASE ms[id].type = "NORMAL"
    BY <1>2, <2>2, <2>3 DEF HoldsOK, Released
  <2>4. CASE ms[id].type # "NORMAL"
    BY <1>2, <2>1, <2>4 DEF HoldsOK, Released
  <2>5. QED
    BY <2>3, <2>4
<1>3. QED
  BY <1>1, <1>2

\* check_or_register_mutex yields a mutex that fits into the map.
LEMMA RegisterType ==
    ASSUME MutexTypeOK, WordTypeOK, NEW p \in MutexPtrs,
           check_or_register_mutex(p)
    PROVE  /\ MutexOf(p) \in MutexIds
           /\ MutexMapOK(MutexesAt(p))
           /\ mutex_count' \in 0 .. MaxMutexes
<1> USE BoundsAssumption DEF MutexTypeOK, check_or_register_mutex, MutexKnown
<1>1. CASE IsStatic(p)
  <2>1. mutex_count \in MutexIds /\ MutexOf(p) = mutex_count
    BY <1>1 DEF MutexIds, MutexOf
  <2>2. MutexesAt(p) = init_mutex(mutexes, mutex_count, "NORMAL")
    BY <1>1 DEF MutexesAt
  <2>3. 0 \in ThreadIds
    BY DEF ThreadIds
  <2>4. MutexMapOK(MutexesAt(p))
    BY <2>1, <2>2, <2>3, MutexOps DEF MutexTypes
  <2>5. mutex_count' \in 0 .. MaxMutexes
    BY <1>1
  <2>6. QED
    BY <2>1, <2>4, <2>5
<1>2. CASE ~IsStatic(p)
  BY <1>2 DEF IsStatic, MutexOf, MutexesAt, WordTypeOK
<1>3. QED
  BY <1>1, <1>2

\* What the calls of pthread/mutex.rs write into guest memory is a word
\* that names a mutex, or none.
LEMMA WordSteps ==
    ASSUME WordTypeOK, NEW p \in MutexPtrs
    PROVE  /\ \A id \in MutexIds : WriteWord(p, "MUTX", id) => WordTypeOK'
           /\ WriteWord(p, "JUNK", NoMutex) => WordTypeOK'
           /\ UNCHANGED mutex_word => WordTypeOK'
<1>1. ASSUME NEW id \in MutexIds, WriteWord(p, "MUTX", id) PROVE WordTypeOK'
  BY <1>1 DEF WordTypeOK, WriteWord, MutexWord
<1>2. ASSUME WriteWord(p, "JUNK", NoMutex) PROVE WordTypeOK'
  BY <1>2 DEF WordTypeOK, WriteWord, MutexWord
<1>3. UNCHANGED mutex_word => WordTypeOK'
  BY DEF WordTypeOK
<1>4. QED
  BY <1>1, <1>2, <1>3

\* Every block the code passes to yield_thread names an object of its kind.
LEMMA BlockTypes ==
    ASSUME NEW d \in Deadlines
    PROVE  /\ \A id \in MutexIds : BlockOK(BlockOn("Mutex", id, d))
           /\ \A s \in SemPtrs : BlockOK(BlockOn("Semaphore", s, d))
           /\ \A c \in CondPtrs : BlockOK(BlockOn("Condition", c, d))
           /\ \A t \in ThreadIds : BlockOK(BlockOn("Joining", t, d))
           /\ BlockOK(BlockOn("Sleeping", 0, d))
<1>1. /\ MutexIds \subseteq Nat /\ SemPtrs \subseteq Nat
      /\ CondPtrs \subseteq Nat /\ ThreadIds \subseteq Nat
  BY BoundsAssumption, SemAssumption, CondAssumption DEF MutexIds, ThreadIds
<1>2. QED
  BY <1>1 DEF BlockOK, BlockOn, Block, BlockKinds

\* So does every call that yields.
LEMMA CallTypes ==
    /\ \A id \in MutexIds : CallOK(CallTo("lock", id, NoMutex))
    /\ \A c \in CondPtrs, id \in MutexIds :
          /\ CallOK(CallTo("cond_wait", c, id))
          /\ CallOK(CallTo("cond_timedwait", c, id))
    /\ \A s \in SemPtrs : CallOK(CallTo("sem_wait", s, NoMutex))
    /\ \A t \in ThreadIds : CallOK(CallTo("join", t, NoMutex))
    /\ CallOK(CallTo("sleep", 0, NoMutex))
    /\ CallOK(CallTo("suspend", 0, NoMutex))
<1>1. /\ MutexIds \subseteq Nat /\ SemPtrs \subseteq Nat
      /\ CondPtrs \subseteq Nat /\ ThreadIds \subseteq Nat
  BY BoundsAssumption, SemAssumption, CondAssumption DEF MutexIds, ThreadIds
<1>2. QED
  BY <1>1 DEF CallOK, CallTo, Call, HostCalls

\* Environment::lock_mutex, each of its four outcomes, keeps the types.
LEMMA LockType ==
    ASSUME SchedTypeOK, HoldsOK, NEW ms, MutexMapOK(ms), NEW id \in MutexIds,
           lock_mutex(ms, id)
    PROVE  MutexMapOK(mutexes') /\ SchedTypeOK' /\ HoldsOK'
<1> DEFINE t == current_thread
<1>0. t \in ThreadIds
  BY LiveIds
<1>1. CASE /\ ms[id].locked_by = NoThread
           /\ mutexes' = take(ms, id, t)
           /\ Obtained(t, id)
           /\ Return("ok")
  BY <1>0, <1>1, MutexOps, ReturnType, HoldsSteps DEF Results
<1>2. CASE mutexes' = ms /\ Return("EDEADLK") /\ UNCHANGED holds
  BY <1>0, <1>2, ReturnType DEF Results, HoldsOK
<1>3. CASE /\ ms[id].locked_by = t
           /\ mutexes' = relevel(ms, id)
           /\ Obtained(t, id)
           /\ Return("ok")
  <2>1. ms[id].locked_by # NoThread
    BY <1>0, <1>3, BoundsAssumption DEF ThreadIds, NoThread
  <2>2. QED
    BY <1>0, <1>3, <2>1, MutexOps, ReturnType, HoldsSteps DEF Results
<1>4. CASE /\ mutexes' = add_waiter(ms, id)
           /\ Yield(BlockOn("Mutex", id, "none"), CallTo("lock", id, NoMutex))
           /\ UNCHANGED holds
  <2>1. BlockOK(BlockOn("Mutex", id, "none"))
    BY BlockTypes DEF Deadlines
  <2>2. CallOK(CallTo("lock", id, NoMutex))
    BY CallTypes
  <2>3. QED
    BY <1>0, <1>4, <2>1, <2>2, MutexOps, YieldType DEF HoldsOK
<1>5. QED
  BY <1>1, <1>2, <1>3, <1>4 DEF lock_mutex

(***************************************************************************)
(* What each method of MutexState makes of the one mutex it changes        *)
(***************************************************************************)
\* new is the map ms but for mutex id, which has these fields.
Sets(ms, new, id, type, waiting, by, count) ==
    /\ new[id].type = type
    /\ new[id].waiting_count = waiting
    /\ new[id].locked_by = by
    /\ new[id].lock_count = count
    /\ \A j \in MutexIds \ {id} : new[j] = ms[j]

\* The methods field by field; no other mutex is touched.
LEMMA MutexEffects ==
    ASSUME NEW ms, MutexMapOK(ms), NEW id \in MutexIds, NEW t
    PROVE  LET m == ms[id]
               Becomes(new, type, waiting, by, count) ==
                   Sets(ms, new, id, type, waiting, by, count)
           IN  /\ \A type : Becomes(init_mutex(ms, id, type),
                                    type, 0, NoThread, 0)
               /\ Becomes(destroy_mutex(ms, id), "absent", 0, NoThread, 0)
               /\ Becomes(take(ms, id, t), m.type, m.waiting_count, t, 1)
               /\ Becomes(relevel(ms, id), m.type, m.waiting_count,
                          m.locked_by, m.lock_count + 1)
               /\ Becomes(add_waiter(ms, id), m.type, m.waiting_count + 1,
                          m.locked_by, m.lock_count)
               /\ Becomes(relock(ms, id, t), m.type,
                          IF m.waiting_count > 0 THEN m.waiting_count - 1
                          ELSE m.waiting_count,
                          t, 1)
               /\ m.lock_count = 1 =>
                     Becomes(unlock_mutex(ms, id), m.type, m.waiting_count,
                             NoThread, 0)
               /\ m.lock_count # 1 =>
                     Becomes(unlock_mutex(ms, id), m.type, m.waiting_count,
                             m.locked_by, m.lock_count - 1)
<1>1. ms \in [MutexIds -> Mutex] /\ ms[id] \in Mutex
  BY DEF MutexMapOK
<1>2. /\ \A type : Sets(ms, init_mutex(ms, id, type), id, type, 0, NoThread, 0)
      /\ Sets(ms, destroy_mutex(ms, id), id, "absent", 0, NoThread, 0)
  BY <1>1 DEF Sets, init_mutex, destroy_mutex, Free
<1>3. Sets(ms, take(ms, id, t), id, ms[id].type, ms[id].waiting_count, t, 1)
  BY <1>1 DEF Sets, take, Mutex
<1>4. Sets(ms, relevel(ms, id), id, ms[id].type, ms[id].waiting_count,
           ms[id].locked_by, ms[id].lock_count + 1)
  BY <1>1 DEF Sets, relevel, Mutex
<1>5. Sets(ms, add_waiter(ms, id), id, ms[id].type, ms[id].waiting_count + 1,
           ms[id].locked_by, ms[id].lock_count)
  BY <1>1 DEF Sets, add_waiter, Mutex
<1>6. Sets(ms, relock(ms, id, t), id, ms[id].type,
           IF ms[id].waiting_count > 0 THEN ms[id].waiting_count - 1
           ELSE ms[id].waiting_count,
           t, 1)
  BY <1>1 DEF Sets, relock, Mutex
<1>7. ms[id].lock_count = 1 =>
          Sets(ms, unlock_mutex(ms, id), id, ms[id].type, ms[id].waiting_count,
               NoThread, 0)
  BY <1>1 DEF Sets, unlock_mutex, Mutex
<1>8. ms[id].lock_count # 1 =>
          Sets(ms, unlock_mutex(ms, id), id, ms[id].type, ms[id].waiting_count,
               ms[id].locked_by, ms[id].lock_count - 1)
  BY <1>1 DEF Sets, unlock_mutex, Mutex
<1>9. QED
  BY <1>2, <1>3, <1>4, <1>5, <1>6, <1>7, <1>8

(***************************************************************************)
(* Queues of threads                                                       *)
(***************************************************************************)
\* t is somewhere in the queue.
InQueue(queue, t) == \E i \in 1 .. Len(queue) : queue[i] = t

\* Nobody is in the queue twice.
Once(queue) == \A i, j \in 1 .. Len(queue) : queue[i] = queue[j] => i = j

\* Joining the end of a queue.
LEMMA AppendQueue ==
    ASSUME NEW S, NEW queue \in Seq(S), NEW t \in S
    PROVE  /\ \A u : InQueue(Append(queue, t), u) <=> InQueue(queue, u) \/ u = t
           /\ Once(queue) /\ ~InQueue(queue, t) => Once(Append(queue, t))
<1> DEFINE new == Append(queue, t)
<1>1. /\ Len(queue) \in Nat
      /\ Len(new) = Len(queue) + 1
      /\ \A i \in 1 .. Len(queue) : new[i] = queue[i]
      /\ new[Len(queue) + 1] = t
      /\ \A i \in 1 .. Len(queue) + 1 : i \in 1 .. Len(queue) \/ i = Len(queue) + 1
      /\ Len(queue) + 1 \in 1 .. Len(queue) + 1
      /\ 1 .. Len(queue) \subseteq 1 .. Len(queue) + 1
  OBVIOUS
<1> HIDE DEF new
<1>2. \A u : InQueue(new, u) <=> InQueue(queue, u) \/ u = t
  BY <1>1 DEF InQueue
<1>3. ASSUME Once(queue), ~InQueue(queue, t) PROVE Once(new)
  <2>1. \A i \in 1 .. Len(queue) : queue[i] # t
    BY <1>3 DEF InQueue
  <2>2. QED
    BY <1>1, <1>3, <2>1 DEF Once
<1>4. QED
  BY <1>2, <1>3 DEF new

\* Leaving from the front of a queue.
LEMMA TailQueue ==
    ASSUME NEW S, NEW queue \in Seq(S), queue # <<>>, Once(queue)
    PROVE  /\ Once(Tail(queue))
           /\ InQueue(queue, Head(queue))
           /\ \A u : InQueue(Tail(queue), u)
                        <=> InQueue(queue, u) /\ u # Head(queue)
<1>1. /\ Len(Tail(queue)) = Len(queue) - 1
      /\ Len(queue) \in Nat \ {0}
      /\ \A i \in 1 .. Len(queue) - 1 : Tail(queue)[i] = queue[i + 1]
      /\ Head(queue) = queue[1]
  OBVIOUS
<1>2. Once(Tail(queue)) /\ InQueue(queue, Head(queue))
  BY <1>1 DEF Once, InQueue
<1>3. ASSUME NEW u, InQueue(Tail(queue), u)
      PROVE  InQueue(queue, u) /\ u # Head(queue)
  <2>1. PICK i \in 1 .. Len(queue) - 1 : queue[i + 1] = u
    BY <1>1, <1>3 DEF InQueue
  <2>2. i + 1 \in 1 .. Len(queue) /\ i + 1 # 1
    BY <1>1
  <2>3. QED
    BY <1>1, <2>1, <2>2 DEF InQueue, Once
<1>4. ASSUME NEW u, InQueue(queue, u), u # Head(queue)
      PROVE  InQueue(Tail(queue), u)
  <2>1. PICK i \in 1 .. Len(queue) : queue[i] = u
    BY <1>4 DEF InQueue
  <2>2. i - 1 \in 1 .. Len(queue) - 1 /\ Tail(queue)[i - 1] = u
    <3>1. i # 1
      BY <1>1, <1>4, <2>1
    <3>2. i - 1 \in 1 .. Len(queue) - 1 /\ (i - 1) + 1 = i
      BY <1>1, <3>1
    <3>3. QED
      BY <1>1, <2>1, <3>2
  <2>3. QED
    BY <1>1, <2>2 DEF InQueue
<1>5. QED
  BY <1>2, <1>3, <1>4

\* One queue behind another.
LEMMA ConcatQueue ==
    ASSUME NEW S, NEW q \in Seq(S), NEW r \in Seq(S)
    PROVE  /\ \A u : InQueue(q \o r, u) <=> InQueue(q, u) \/ InQueue(r, u)
           /\ Once(q) /\ Once(r) /\ (\A u \in S : ~(InQueue(q, u) /\ InQueue(r, u)))
                 => Once(q \o r)
<1>1. /\ Len(q) \in Nat /\ Len(r) \in Nat
      /\ Len(q \o r) = Len(q) + Len(r)
      /\ \A i \in 1 .. Len(q) : (q \o r)[i] = q[i]
      /\ \A i \in 1 .. Len(r) : (q \o r)[Len(q) + i] = r[i]
      /\ \A i \in 1 .. Len(q) + Len(r) :
            i \in 1 .. Len(q) \/ i - Len(q) \in 1 .. Len(r)
      /\ \A i \in 1 .. Len(q) : q[i] \in S
      /\ \A i \in 1 .. Len(r) : r[i] \in S
  OBVIOUS
<1>2. ASSUME NEW u PROVE InQueue(q \o r, u) <=> InQueue(q, u) \/ InQueue(r, u)
  <2>1. ASSUME InQueue(q \o r, u) PROVE InQueue(q, u) \/ InQueue(r, u)
    <3>1. PICK i \in 1 .. Len(q) + Len(r) : (q \o r)[i] = u
      BY <1>1, <2>1 DEF InQueue
    <3>2. CASE i \in 1 .. Len(q)
      BY <1>1, <3>1, <3>2 DEF InQueue
    <3>3. CASE i - Len(q) \in 1 .. Len(r)
      <4>1. Len(q) + (i - Len(q)) = i
        BY <1>1
      <4>2. QED
        BY <1>1, <3>1, <3>3, <4>1 DEF InQueue
    <3>4. QED
      BY <1>1, <3>2, <3>3
  <2>2. ASSUME InQueue(q, u) PROVE InQueue(q \o r, u)
    BY <1>1, <2>2 DEF InQueue
  <2>3. ASSUME InQueue(r, u) PROVE InQueue(q \o r, u)
    <3>1. PICK i \in 1 .. Len(r) : r[i] = u
      BY <2>3 DEF InQueue
    <3>2. Len(q) + i \in 1 .. Len(q \o r)
      BY <1>1
    <3>3. QED
      BY <1>1, <3>1, <3>2 DEF InQueue
  <2>4. QED
    BY <2>1, <2>2, <2>3
<1>3. ASSUME Once(q), Once(r), \A u \in S : ~(InQueue(q, u) /\ InQueue(r, u))
      PROVE  Once(q \o r)
  <2> SUFFICES ASSUME NEW i \in 1 .. Len(q) + Len(r),
                      NEW j \in 1 .. Len(q) + Len(r), (q \o r)[i] = (q \o r)[j]
               PROVE  i = j
    BY <1>1 DEF Once
  <2>1. CASE i \in 1 .. Len(q) /\ j \in 1 .. Len(q)
    BY <1>1, <1>3, <2>1 DEF Once
  <2>2. CASE i - Len(q) \in 1 .. Len(r) /\ j - Len(q) \in 1 .. Len(r)
    <3>1. Len(q) + (i - Len(q)) = i /\ Len(q) + (j - Len(q)) = j
      BY <1>1
    <3>2. i - Len(q) = j - Len(q)
      BY <1>1, <1>3, <2>2, <3>1 DEF Once
    <3>3. QED
      BY <3>1, <3>2
  <2>3. ASSUME NEW k \in 1 .. Len(q), NEW l, l - Len(q) \in 1 .. Len(r), l \in Int,
               (q \o r)[k] = (q \o r)[l]
        PROVE  FALSE
    <3>1. Len(q) + (l - Len(q)) = l
      BY <1>1, <2>3
    <3>2. InQueue(r, (q \o r)[l]) /\ InQueue(q, (q \o r)[k]) /\ (q \o r)[k] \in S
      BY <1>1, <2>3, <3>1 DEF InQueue
    <3>3. QED
      BY <1>3, <2>3, <3>2
  <2>4. CASE i \in 1 .. Len(q) /\ j - Len(q) \in 1 .. Len(r)
    BY <2>3, <2>4
  <2>5. CASE j \in 1 .. Len(q) /\ i - Len(q) \in 1 .. Len(r)
    BY <2>3, <2>5
  <2>6. QED
    BY <1>1, <2>1, <2>2, <2>4, <2>5
<1>4. QED
  BY <1>2, <1>3

\* Leaving from anywhere in a queue (VecDeque::retain).
LEMMA WithoutQueue ==
    ASSUME NEW S, NEW queue \in Seq(S), NEW t, Once(queue)
    PROVE  /\ Once(Without(queue, t))
           /\ \A u : InQueue(Without(queue, t), u) <=> InQueue(queue, u) /\ u # t
<1>1. CASE ~InQueue(queue, t)
  <2>1. Without(queue, t) = queue
    BY <1>1 DEF Without, InQueue
  <2>2. QED
    BY <1>1, <2>1
<1>2. CASE InQueue(queue, t)
  <2> DEFINE i == CHOOSE i \in 1 .. Len(queue) : queue[i] = t
             n == Len(queue)
             new == Without(queue, t)
  <2>1. i \in 1 .. n /\ queue[i] = t /\ n \in Nat
    BY <1>2 DEF InQueue
  <2>2. new = SubSeq(queue, 1, i - 1) \o SubSeq(queue, i + 1, n)
    BY <1>2 DEF Without, InQueue
  <2> HIDE DEF i, n, new
  <2> DEFINE front == SubSeq(queue, 1, i - 1)
             back == SubSeq(queue, i + 1, n)
  <2>3. /\ front \in Seq(S) /\ back \in Seq(S)
        /\ Len(front) = i - 1 /\ Len(back) = n - i
        /\ \A k \in 1 .. i - 1 : front[k] = queue[k]
        /\ \A k \in 1 .. n - i : back[k] = queue[k + i]
    BY <2>1 DEF n
  <2> HIDE DEF front, back
  <2>4. /\ Len(new) = n - 1
        /\ \A k \in 1 .. i - 1 : new[k] = queue[k]
        /\ \A k \in i .. n - 1 : new[k] = queue[k + 1]
    <3>1. /\ Len(new) = n - 1
          /\ \A k \in 1 .. n - 1 :
                new[k] = IF k <= i - 1 THEN front[k] ELSE back[k - (i - 1)]
      <4>1. /\ Len(front) + Len(back) = n - 1
            /\ \A k \in 1 .. n - 1 : k <= Len(front) <=> k <= i - 1
        BY <2>1, <2>3
      <4>2. /\ Len(new) = Len(front) + Len(back)
            /\ \A k \in 1 .. Len(front) + Len(back) :
                  new[k] = IF k <= Len(front) THEN front[k] ELSE back[k - Len(front)]
        BY <2>2, <2>3, ConcatProperties DEF front, back
      <4>3. QED
        BY <2>3, <4>1, <4>2
    <3>2. ASSUME NEW k \in i .. n - 1 PROVE new[k] = queue[k + 1]
      <4>1. /\ k \in 1 .. n - 1 /\ ~(k <= i - 1)
            /\ k - (i - 1) \in 1 .. n - i /\ k - (i - 1) + i = k + 1
        BY <2>1
      <4>2. QED
        BY <2>3, <3>1, <4>1
    <3>3. \A k \in 1 .. i - 1 : k \in 1 .. n - 1 /\ k <= i - 1
      BY <2>1
    <3>4. QED
      BY <2>3, <3>1, <3>2, <3>3
  <2>5. Once(new)
    BY <1>2, <2>1, <2>4 DEF Once, n
  <2>6. ASSUME NEW u, InQueue(new, u) PROVE InQueue(queue, u) /\ u # t
    BY <2>1, <2>4, <2>6 DEF Once, InQueue, n
  <2>7. ASSUME NEW u, InQueue(queue, u), u # t PROVE InQueue(new, u)
    <3>1. PICK j \in 1 .. n : queue[j] = u
      BY <2>7 DEF InQueue, n
    <3>2. CASE j \in 1 .. i - 1
      BY <2>1, <2>4, <3>1, <3>2 DEF InQueue
    <3>3. CASE j - 1 \in i .. n - 1
      <4>1. j - 1 \in 1 .. n - 1 /\ (j - 1) + 1 = j
        BY <2>1, <3>3
      <4>2. QED
        BY <2>4, <3>1, <3>3, <4>1 DEF InQueue
    <3>4. j \in 1 .. i - 1 \/ j - 1 \in i .. n - 1
      BY <2>1, <2>7, <3>1
    <3>5. QED
      BY <3>2, <3>3, <3>4
  <2>8. QED
    BY <2>5, <2>6, <2>7 DEF new
<1>3. QED
  BY <1>1, <1>2

\* How often a thread is in a queue that has nobody twice.
LEMMA TimesOnce ==
    ASSUME NEW queue, Once(queue), NEW t
    PROVE  /\ InQueue(queue, t) => Times(queue, t) = 1
           /\ ~InQueue(queue, t) => Times(queue, t) = 0
<1> DEFINE at == {i \in 1 .. Len(queue) : queue[i] = t}
<1>1. ASSUME InQueue(queue, t) PROVE Cardinality(at) = 1
  <2>1. PICK i \in 1 .. Len(queue) : queue[i] = t
    BY <1>1 DEF InQueue
  <2>2. at = {i}
    BY <2>1 DEF Once
  <2>3. QED
    BY <2>2, FS_Singleton
<1>2. ASSUME ~InQueue(queue, t) PROVE Cardinality(at) = 0
  <2>1. at = {}
    BY <1>2 DEF InQueue
  <2>2. QED
    BY <2>1, FS_EmptySet
<1>3. QED
  BY <1>1, <1>2 DEF Times

(***************************************************************************)
(* The parts of TypeOK                                                     *)
(***************************************************************************)
\* The types of joined_by and detached.
LinksOK == /\ joined_by \in [ThreadIds -> ThreadIds \cup {NoThread}]
           /\ detached \in [ThreadIds -> BOOLEAN]

\* TypeOK part by part, before and after a step.
LEMMA TypeParts ==
    /\ TypeOK <=> /\ MutexTypeOK /\ SemTypeOK /\ CondTypeOK /\ SchedTypeOK
                  /\ WordTypeOK /\ LinksOK /\ HoldsOK
    /\ TypeOK' <=> /\ MutexTypeOK' /\ SemTypeOK' /\ CondTypeOK' /\ SchedTypeOK'
                   /\ WordTypeOK' /\ LinksOK' /\ HoldsOK'
BY DEF TypeOK, LinksOK, HoldsOK

\* A part that a step leaves alone keeps its type.
LEMMA UnchangedParts ==
    ASSUME TypeOK
    PROVE  /\ UNCHANGED mutexVars => MutexTypeOK'
           /\ UNCHANGED semVars => SemTypeOK'
           /\ UNCHANGED condVars => CondTypeOK'
           /\ UNCHANGED schedVars => SchedTypeOK'
           /\ UNCHANGED mutex_word => WordTypeOK'
           /\ UNCHANGED <<joined_by, detached>> => LinksOK'
           /\ UNCHANGED holds => HoldsOK'
<1>1. UNCHANGED mutexVars => MutexTypeOK'
  BY TypeParts DEF MutexTypeOK, mutexVars, MutexMapOK
<1>2. UNCHANGED semVars => SemTypeOK'
  BY TypeParts DEF SemTypeOK, semVars
<1>3. UNCHANGED condVars => CondTypeOK'
  BY TypeParts DEF CondTypeOK, condVars, CondMapOK
<1>4. UNCHANGED schedVars => SchedTypeOK'
  BY TypeParts, SchedUnchanged
<1>5. UNCHANGED mutex_word => WordTypeOK'
  BY TypeParts DEF WordTypeOK
<1>6. UNCHANGED <<joined_by, detached>> => LinksOK'
  BY TypeParts DEF LinksOK
<1>7. UNCHANGED holds => HoldsOK'
  BY TypeParts DEF HoldsOK
<1>8. QED
  BY <1>1, <1>2, <1>3, <1>4, <1>5, <1>6, <1>7

\* Every call of pthread/mutex.rs keeps the type invariant.
LEMMA MutexCallType ==
    ASSUME TypeOK, NEW p \in MutexPtrs, MutexCall(p)
    PROVE  TypeOK'
<1> USE TypeParts
<1>0. current_thread \in ThreadIds
  BY LiveIds
<1>1. ASSUME MutexInvalid(p) PROVE TypeOK'
  BY <1>1, UnchangedParts, ReturnType DEF MutexInvalid, Results, pthreadVars
<1>2. ASSUME NEW type \in GuestMutexTypes, pthread_mutex_init(p, type)
      PROVE  TypeOK'
  <2> USE <1>2 DEF pthread_mutex_init
  <2>1. mutex_count \in MutexIds /\ mutex_count' \in 0 .. MaxMutexes
    BY BoundsAssumption DEF MutexTypeOK, MutexIds
  <2>2. MutexMapOK(mutexes')
    <3>1. type \in MutexTypes
      BY GuestAssumption
    <3>2. QED
      BY <1>0, <2>1, <3>1, MutexOps DEF MutexTypeOK
  <2>3. MutexTypeOK'
    BY <2>1, <2>2 DEF MutexTypeOK
  <2>4. WordTypeOK' /\ SchedTypeOK'
    BY <2>1, WordSteps, ReturnType DEF Results
  <2>5. QED
    BY <2>3, <2>4, UnchangedParts
<1>3. ASSUME check_or_register_mutex(p) /\ WriteWord(p, "MUTX", MutexOf(p)),
             MutexMapOK(mutexes'), SchedTypeOK', HoldsOK',
             UNCHANGED <<semVars, condVars, joined_by, detached>>
      PROVE  TypeOK'
  <2>1. MutexTypeOK'
    BY <1>3, RegisterType DEF MutexTypeOK
  <2>2. WordTypeOK'
    BY <1>3, RegisterType, WordSteps
  <2>3. QED
    BY <1>3, <2>1, <2>2, UnchangedParts
<1>4. ASSUME pthread_mutex_lock(p) PROVE TypeOK'
  <2>1. MutexMapOK(mutexes') /\ SchedTypeOK' /\ HoldsOK'
    BY <1>4, RegisterType, LockType DEF pthread_mutex_lock
  <2>2. QED
    BY <1>3, <1>4, <2>1 DEF pthread_mutex_lock
<1>5. ASSUME pthread_mutex_trylock(p) PROVE TypeOK'
  <2>1. MutexMapOK(MutexesAt(p)) /\ MutexOf(p) \in MutexIds
    BY <1>5, RegisterType DEF pthread_mutex_trylock
  <2>2. CASE mutexes' = MutexesAt(p) /\ Return("EBUSY") /\ UNCHANGED holds
    <3>1. MutexMapOK(mutexes') /\ SchedTypeOK' /\ HoldsOK'
      BY <2>1, <2>2, ReturnType DEF Results, HoldsOK
    <3>2. QED
      BY <1>3, <1>5, <3>1 DEF pthread_mutex_trylock
  <2>3. CASE lock_mutex(MutexesAt(p), MutexOf(p))
    <3>1. MutexMapOK(mutexes') /\ SchedTypeOK' /\ HoldsOK'
      BY <2>1, <2>3, LockType
    <3>2. QED
      BY <1>3, <1>5, <3>1 DEF pthread_mutex_trylock
  <2>4. QED
    BY <1>5, <2>2, <2>3 DEF pthread_mutex_trylock
<1>6. ASSUME pthread_mutex_unlock(p) PROVE TypeOK'
  <2> DEFINE ms == MutexesAt(p)
             id == MutexOf(p)
  <2>1. MutexMapOK(ms) /\ id \in MutexIds
    BY <1>6, RegisterType DEF pthread_mutex_unlock
  <2>2. CASE mutexes' = ms /\ Return("EPERM") /\ UNCHANGED holds
    <3>1. MutexMapOK(mutexes') /\ SchedTypeOK' /\ HoldsOK'
      BY <2>1, <2>2, ReturnType DEF Results, HoldsOK
    <3>2. QED
      BY <1>3, <1>6, <3>1 DEF pthread_mutex_unlock
  <2>3. CASE /\ ~unlock_refused(ms, id, current_thread)
             /\ mutexes' = unlock_mutex(ms, id)
             /\ Released(ms, current_thread, id)
             /\ Return("ok")
    <3>1. ms[id].locked_by # NoThread
      BY <2>3 DEF unlock_refused, mutex_is_locked
    <3>2. MutexMapOK(mutexes') /\ SchedTypeOK' /\ HoldsOK'
      BY <1>0, <2>1, <2>3, <3>1, MutexOps, ReturnType, HoldsSteps DEF Results
    <3>3. QED
      BY <1>3, <1>6, <3>2 DEF pthread_mutex_unlock
  <2>4. QED
    BY <1>6, <2>2, <2>3 DEF pthread_mutex_unlock
<1>7. ASSUME pthread_mutex_destroy(p) PROVE TypeOK'
  <2> DEFINE ms == MutexesAt(p)
             id == MutexOf(p)
  <2>1. /\ MutexMapOK(ms) /\ id \in MutexIds
        /\ mutex_count' \in 0 .. MaxMutexes
    BY <1>7, RegisterType DEF pthread_mutex_destroy
  <2>2. /\ mutexes' = ms \/ mutexes' = destroy_mutex(ms, id)
        /\ SchedTypeOK'
    BY <1>7, ReturnType DEF pthread_mutex_destroy, Results
  <2>3. MutexTypeOK'
    BY <1>0, <2>1, <2>2, MutexOps DEF MutexTypeOK
  <2>4. WordTypeOK'
    BY <1>7, WordSteps DEF pthread_mutex_destroy
  <2>5. QED
    BY <1>7, <2>2, <2>3, <2>4, UnchangedParts DEF pthread_mutex_destroy
<1>8. QED
  BY <1>1, <1>2, <1>4, <1>5, <1>6, <1>7 DEF MutexCall

(***************************************************************************)
(* Condition variables and semaphores                                      *)
(***************************************************************************)
\* check_or_register_cond yields a condition variable.
LEMMA CondRegister ==
    ASSUME CondTypeOK, NEW c \in CondPtrs
    PROVE  /\ CondMapOK(CondsAt(c))
           /\ RegisterCond(c) => cond_word' \in [CondPtrs -> {"STATIC", "COND", "JUNK"}]
<1>1. CondMapOK(CondsAt(c))
  <2>1. 0 \in ThreadIds /\ 0 \in MutexIds
    BY BoundsAssumption DEF ThreadIds, MutexIds
  <2>2. CondMapOK([conds EXCEPT ![c] = FreshCond])
    BY <2>1, CondOps DEF CondTypeOK
  <2>3. QED
    BY <2>2 DEF CondsAt, CondTypeOK
<1>2. RegisterCond(c) => cond_word' \in [CondPtrs -> {"STATIC", "COND", "JUNK"}]
  BY DEF RegisterCond, CondTypeOK
<1>3. QED
  BY <1>1, <1>2

\* pthread_cond_wait and pthread_cond_timedwait up to their yield.
LEMMA CondWaitType ==
    ASSUME TypeOK, NEW c \in CondPtrs, NEW p \in MutexPtrs,
           NEW fn \in {"cond_wait", "cond_timedwait"}, NEW d \in Deadlines,
           CondWait(fn, c, p, d)
    PROVE  TypeOK'
<1> USE TypeParts
<1> DEFINE ms == MutexesAt(p)
           id == MutexOf(p)
           cs == CondsAt(c)
           t  == current_thread
<1>0. t \in ThreadIds
  BY LiveIds
<1>1. /\ MutexMapOK(ms) /\ id \in MutexIds
      /\ mutex_count' \in 0 .. MaxMutexes
      /\ WordTypeOK'
  BY RegisterType, WordSteps DEF CondWait
<1>2. CondMapOK(cs) /\ cond_word' \in [CondPtrs -> {"STATIC", "COND", "JUNK"}]
  BY CondRegister DEF CondWait
<1>3. /\ MutexMapOK(mutexes') /\ CondMapOK(conds')
      /\ SchedTypeOK' /\ HoldsOK'
  <2>1. CASE mutexes' = ms /\ conds' = cs /\ Return("EPERM") /\ UNCHANGED holds
    BY <1>1, <1>2, <2>1, ReturnType DEF Results, HoldsOK
  <2>2. CASE /\ ~unlock_refused(ms, id, t)
             /\ mutexes' = unlock_mutex(ms, id)
             /\ Released(ms, t, id)
             /\ conds' = Enqueue(cs, c, id, t)
             /\ Yield(BlockOn("Condition", c, d), CallTo(fn, c, id))
    <3>1. ms[id].locked_by # NoThread
      BY <2>2 DEF unlock_refused, mutex_is_locked
    <3>2. MutexMapOK(mutexes') /\ HoldsOK'
      BY <1>0, <1>1, <2>2, <3>1, MutexOps, HoldsSteps
    <3>3. CondMapOK(conds')
      BY <1>0, <1>1, <1>2, <2>2, CondOps
    <3>4. BlockOK(BlockOn("Condition", c, d)) /\ CallOK(CallTo(fn, c, id))
      BY <1>1, BlockTypes, CallTypes
    <3>5. SchedTypeOK'
      BY <2>2, <3>4, YieldType
    <3>6. QED
      BY <3>2, <3>3, <3>5
  <2>3. CASE /\ Panic("cond_missing") \/ Panic("cond_mutex")
             /\ UNCHANGED <<mutexes, conds, holds>>
    BY <2>3, PanicType DEF Panics, HoldsOK, MutexTypeOK, CondTypeOK
  <2>4. QED
    BY <2>1, <2>2, <2>3 DEF CondWait
<1>4. MutexTypeOK' /\ CondTypeOK'
  BY <1>1, <1>2, <1>3 DEF MutexTypeOK, CondTypeOK
<1>5. QED
  BY <1>1, <1>3, <1>4, UnchangedParts DEF CondWait

\* The calls on a registered variable, for whatever they do to the map.
LEMMA OnCondType ==
    ASSUME TypeOK, NEW c \in CondPtrs, NEW effect, CondMapOK(effect),
           OnCond(c, effect)
    PROVE  TypeOK'
<1> USE TypeParts
<1>1. CondMapOK(conds') /\ SchedTypeOK'
  BY ReturnType, PanicType DEF OnCond, Results, Panics, CondTypeOK
<1>2. CondTypeOK'
  BY <1>1, CondRegister DEF OnCond, CondTypeOK
<1>3. QED
  BY <1>1, <1>2, UnchangedParts DEF OnCond, pthreadVars

\* Every call of pthread/cond.rs keeps the type invariant.
LEMMA CondCallType ==
    ASSUME TypeOK, NEW c \in CondPtrs, CondCall(c)
    PROVE  TypeOK'
<1> USE TypeParts
<1>0. /\ 0 \in ThreadIds /\ 0 \in MutexIds
      /\ CondMapOK(conds) /\ CondMapOK(CondsAt(c))
  BY BoundsAssumption, CondRegister DEF ThreadIds, MutexIds, CondTypeOK
<1>1. ASSUME CondInvalid(c) PROVE TypeOK'
  BY <1>1, UnchangedParts, ReturnType DEF CondInvalid, Results, pthreadVars
<1>2. ASSUME pthread_cond_init(c) PROVE TypeOK'
  <2>1. CondMapOK([conds EXCEPT ![c] = FreshCond])
    BY <1>0, CondOps
  <2>2. CondTypeOK'
    BY <1>2, <2>1 DEF pthread_cond_init, InitCond, CondTypeOK
  <2>3. QED
    BY <1>2, <2>2, UnchangedParts, ReturnType
    DEF pthread_cond_init, Results, pthreadVars
<1>3. ASSUME NEW p \in MutexPtrs, CondWaitInvalid(c, p) PROVE TypeOK'
  <2>1. CondTypeOK'
    BY <1>0, <1>3, CondRegister DEF CondWaitInvalid, CondTypeOK
  <2>2. QED
    BY <1>3, <2>1, UnchangedParts, ReturnType
    DEF CondWaitInvalid, Results, pthreadVars
<1>4. ASSUME NEW p \in MutexPtrs, pthread_cond_wait(c, p) PROVE TypeOK'
  BY <1>4, CondWaitType DEF pthread_cond_wait, Deadlines
<1>5. ASSUME NEW p \in MutexPtrs, pthread_cond_timedwait(c, p) PROVE TypeOK'
  BY <1>5, CondWaitType DEF pthread_cond_timedwait, Deadlines
<1>6. ASSUME pthread_cond_signal(c) PROVE TypeOK'
  <2>1. CondMapOK(SignalOne(CondsAt(c), c))
    BY <1>0, CondOps
  <2>2. QED
    BY <1>6, <2>1, OnCondType DEF pthread_cond_signal
<1>7. ASSUME pthread_cond_broadcast(c) PROVE TypeOK'
  <2>1. CondMapOK(SignalAll(CondsAt(c), c))
    BY <1>0, CondOps
  <2>2. QED
    BY <1>7, <2>1, OnCondType DEF pthread_cond_broadcast
<1>8. ASSUME pthread_cond_destroy(c) PROVE TypeOK'
  <2> DEFINE gone == [CondsAt(c) EXCEPT ![c] = NoCond]
  <2>1. CondMapOK(gone)
    BY <1>0, CondOps
  <2>2. CASE OnCond(c, gone)
    <3> HIDE DEF gone
    <3>1. QED
      BY <2>1, <2>2, OnCondType
  <2>3. CASE /\ Panic("cond_destroy")
             /\ UNCHANGED <<mutexVars, semVars, condVars, pthreadVars, holds>>
    BY <2>3, UnchangedParts, PanicType DEF Panics, pthreadVars
  <2>4. QED
    BY <1>8, <2>2, <2>3 DEF pthread_cond_destroy
<1>9. QED
  BY <1>1, <1>2, <1>3, <1>4, <1>5, <1>6, <1>7, <1>8 DEF CondCall

\* Every call of semaphore.rs keeps the type invariant.
LEMMA SemCallType ==
    ASSUME TypeOK, NEW s \in SemPtrs, SemCall(s)
    PROVE  TypeOK'
<1> USE TypeParts
<1>0. current_thread \in ThreadIds
  BY LiveIds
<1>1. ASSUME SemTypeOK', SchedTypeOK',
             UNCHANGED <<mutexVars, condVars, pthreadVars, holds>>
      PROVE  TypeOK'
  BY <1>1, UnchangedParts DEF pthreadVars
<1>2. ASSUME NEW v \in SemValues, sem_init(s, v) PROVE TypeOK'
  <2>1. v \in Nat
    BY SemAssumption
  <2>2. QED
    BY <1>0, <1>1, <1>2, <2>1, SemSteps, ReturnType DEF sem_init, Results
<1>3. ASSUME sem_destroy(s) PROVE TypeOK'
  BY <1>0, <1>1, <1>3, SemSteps, ReturnType DEF sem_destroy, Results
<1>4. ASSUME sem_post(s) PROVE TypeOK'
  BY <1>0, <1>1, <1>4, SemSteps, ReturnType DEF sem_post, Results
<1>5. ASSUME sem_wait(s) PROVE TypeOK'
  <2>1. /\ BlockOK(BlockOn("Semaphore", s, "none"))
        /\ CallOK(CallTo("sem_wait", s, NoMutex))
    BY BlockTypes, CallTypes DEF Deadlines
  <2>2. QED
    BY <1>0, <1>1, <1>5, <2>1, SemSteps, ReturnType, YieldType
    DEF sem_wait, Results
<1>6. ASSUME sem_trywait(s) PROVE TypeOK'
  BY <1>0, <1>1, <1>6, SemSteps, ReturnType DEF sem_trywait, Results
<1>7. QED
  BY <1>2, <1>3, <1>4, <1>5, <1>6 DEF SemCall

(***************************************************************************)
(* Threads                                                                 *)
(***************************************************************************)
\* The end of a host function that had yielded keeps the type.
LEMMA FinishCall ==
    ASSUME SchedTypeOK, NEW r \in Results,
           pending' = [pending EXCEPT ![current_thread] = NoCall],
           ret' = r,
           UNCHANGED <<threadVars, current_thread, blocked_by, suspend_count,
                       contextVars, scanVars, panic>>
    PROVE  SchedTypeOK'
<1>1. CallsOK'
  BY LiveIds, NotBlockedOK DEF SchedTypeOK, CallsOK, CallOK
<1>2. QED
  BY <1>1 DEF SchedTypeOK, BlocksOK, threadVars, contextVars, scanVars,
              LiveThreads

\* What a host function does after its yield keeps the type invariant.
LEMMA ResumeType ==
    ASSUME TypeOK, Resume
    PROVE  TypeOK'
<1> USE TypeParts
<1> DEFINE t == current_thread
<1>0. t \in ThreadIds /\ CallOK(pending[t])
  BY LiveIds DEF SchedTypeOK, CallsOK
<1>1. ASSUME ResumeLock PROVE TypeOK'
  <2>1. HoldsOK'
    BY <1>0, <1>1, HoldsSteps DEF ResumeLock, CallOK
  <2>2. SchedTypeOK'
    BY <1>1, FinishCall DEF ResumeLock, Results
  <2>3. QED
    BY <1>1, <2>1, <2>2, UnchangedParts DEF ResumeLock, pthreadVars
<1>2. ASSUME ResumeCond PROVE TypeOK'
  <2> DEFINE c == pending[t].obj
  <2>1. c \in CondPtrs /\ pending[t].mutex \in MutexIds
    BY <1>0, <1>2 DEF ResumeCond, CallOK
  <2>2. CASE /\ conds' = ClearTimedOut(conds, c, t)
             /\ ret' \in {"ETIMEDOUT", "ok"}
             /\ Obtained(t, pending[t].mutex)
             /\ pending' = [pending EXCEPT ![t] = NoCall]
             /\ UNCHANGED <<threadVars, current_thread, blocked_by,
                            suspend_count, contextVars, scanVars, panic>>
    <3>1. CondTypeOK'
      BY <1>0, <1>2, <2>1, <2>2, CondOps DEF CondTypeOK, ResumeCond
    <3>2. HoldsOK'
      BY <1>0, <2>1, <2>2, HoldsSteps
    <3>3. ret' \in Results
      BY <2>2 DEF Results
    <3>4. SchedTypeOK'
      BY <2>2, <3>3, FinishCall
    <3>5. QED
      BY <1>2, <3>1, <3>2, <3>4, UnchangedParts DEF ResumeCond, pthreadVars
  <2>3. CASE Panic("cond_missing") /\ UNCHANGED <<conds, holds>>
    <3>1. CondTypeOK' /\ SchedTypeOK' /\ HoldsOK'
      BY <1>2, <2>3, PanicType DEF CondTypeOK, ResumeCond, Panics, HoldsOK
    <3>2. QED
      BY <1>2, <3>1, UnchangedParts DEF ResumeCond, pthreadVars
  <2>4. QED
    BY <1>2, <2>2, <2>3 DEF ResumeCond
<1>3. ASSUME ResumeSem PROVE TypeOK'
  <2>1. SemTypeOK'
    BY <1>0, <1>3 DEF ResumeSem, SemTypeOK, CallOK
  <2>2. SchedTypeOK'
    BY <1>3, FinishCall DEF ResumeSem, Results
  <2>3. QED
    BY <1>3, <2>1, <2>2, UnchangedParts DEF ResumeSem, pthreadVars
<1>4. ASSUME ResumeOther PROVE TypeOK'
  BY <1>4, FinishCall, UnchangedParts DEF ResumeOther, Results, pthreadVars
<1>5. QED
  BY <1>1, <1>2, <1>3, <1>4 DEF Resume

\* Environment::new_thread keeps the type invariant.
LEMMA NewThreadType ==
    ASSUME TypeOK, NEW detach \in BOOLEAN, NEW suspended \in BOOLEAN,
           NewThread(detach, suspended)
    PROVE  TypeOK'
<1> USE TypeParts DEF NewThread
<1>0. /\ nthreads \in ThreadIds
      /\ nthreads' \in 1 .. MaxThreads
      /\ current_thread' \in LiveThreads'
      /\ scan_i' \in 0 .. nthreads'
  BY BoundsAssumption DEF SchedTypeOK, ThreadIds, LiveThreads, scanVars
<1>1. suspend_count' \in [ThreadIds -> Nat]
  BY <1>0 DEF SchedTypeOK
<1>2. /\ active' \in [ThreadIds -> BOOLEAN]
      /\ guest_context' \in [ThreadIds -> BOOLEAN]
      /\ host_context' \in [ThreadIds -> BOOLEAN]
  BY <1>0 DEF SchedTypeOK
<1>3. SchedTypeOK'
  BY <1>0, <1>1, <1>2
  DEF SchedTypeOK, BlocksOK, CallsOK, scanVars, Results
<1>4. LinksOK'
  BY <1>0 DEF LinksOK
<1>5. QED
  BY <1>3, <1>4, UnchangedParts

\* The calls on threads, sleep and preemption keep the type invariant.
LEMMA ThreadCallType ==
    ASSUME TypeOK, ThreadCall
    PROVE  TypeOK'
<1> USE TypeParts
<1> DEFINE Others == UNCHANGED <<mutexVars, semVars, condVars, pthreadVars, holds>>
<1>0. current_thread \in ThreadIds /\ LiveThreads \subseteq ThreadIds
  BY LiveIds
<1>1. ASSUME SchedTypeOK', Others PROVE TypeOK'
  BY <1>1, UnchangedParts DEF pthreadVars
<1>2. ASSUME NEW detach \in BOOLEAN, pthread_create(detach) PROVE TypeOK'
  BY <1>2, NewThreadType DEF pthread_create
<1>3. ASSUME NEW detach \in BOOLEAN, pthread_create_suspended_np(detach)
      PROVE  TypeOK'
  BY <1>3, NewThreadType DEF pthread_create_suspended_np
<1>4. ASSUME ThreadExit PROVE TypeOK'
  <2>1. CASE Panic("main_exit")
    BY <1>1, <1>4, <2>1, PanicType DEF ThreadExit, Panics
  <2>2. CASE ~Panic("main_exit")
    <3>1. /\ active' \in [ThreadIds -> BOOLEAN]
          /\ has_return' \in [ThreadIds -> BOOLEAN]
          /\ old_context' \in BOOLEAN
      BY <1>0, <1>4, <2>2 DEF ThreadExit, SchedTypeOK
    <3>2. next_awakening' \in BOOLEAN /\ phase' \in {"guest", "scan"}
      BY <1>4, <2>2 DEF ThreadExit, StartScan
    <3>3. /\ nthreads' = nthreads /\ current_thread' = current_thread
          /\ scan_i' \in 0 .. nthreads' /\ ret' \in Results
      BY <1>4, <2>2, BoundsAssumption
      DEF ThreadExit, StartScan, SchedTypeOK, Results
    <3>4. SchedTypeOK'
      BY <1>4, <2>2, <3>1, <3>2, <3>3
      DEF ThreadExit, SchedTypeOK, BlocksOK, CallsOK, LiveThreads
    <3>5. QED
      BY <1>1, <1>4, <3>4 DEF ThreadExit
  <2>3. QED
    BY <2>1, <2>2
<1>5. ASSUME NEW j \in ThreadIds, pthread_join(j) PROVE TypeOK'
  <2>1. SchedTypeOK' /\ LinksOK'
    <3>1. CASE UNCHANGED joined_by /\ (\/ Panic("join_main")
                                       \/ Return("EDEADLK")
                                       \/ Return("EINVAL"))
      BY <1>5, <3>1, PanicType, ReturnType
      DEF pthread_join, Panics, Results, LinksOK
    <3>2. CASE /\ joined_by' = [joined_by EXCEPT ![j] = current_thread]
               /\ Yield(BlockOn("Joining", j, "none"),
                        CallTo("join", j, NoMutex))
      <4>1. /\ BlockOK(BlockOn("Joining", j, "none"))
            /\ CallOK(CallTo("join", j, NoMutex))
        BY BlockTypes, CallTypes DEF Deadlines
      <4>2. SchedTypeOK'
        BY <3>2, <4>1, YieldType
      <4>3. LinksOK'
        BY <1>0, <1>5, <3>2 DEF LinksOK, pthread_join
      <4>4. QED
        BY <4>2, <4>3
    <3>3. QED
      BY <1>5, <3>1, <3>2 DEF pthread_join
  <2>2. QED
    BY <1>5, <2>1, UnchangedParts DEF pthread_join
<1>6. ASSUME NEW j \in ThreadIds, pthread_detach(j) PROVE TypeOK'
  <2>1. LinksOK'
    BY <1>6 DEF pthread_detach, LinksOK
  <2>2. SchedTypeOK'
    BY <1>6, ReturnType DEF pthread_detach, Results
  <2>3. QED
    BY <1>6, <2>1, <2>2, UnchangedParts DEF pthread_detach
<1>7. ASSUME NEW j \in ThreadIds, thread_suspend(j) PROVE TypeOK'
  <2>1. suspend_count' \in [ThreadIds -> Nat]
    BY <1>7 DEF thread_suspend, SchedTypeOK
  <2>2. CASE j = current_thread
    <3>1. CallOK(CallTo("suspend", 0, NoMutex))
      BY CallTypes
    <3>2. CallsOK'
      BY <1>7, <2>2, <3>1 DEF thread_suspend, SchedTypeOK, CallsOK, CallOK
    <3>3. next_awakening' \in BOOLEAN /\ phase' \in {"guest", "scan"}
      BY <1>7, <2>2 DEF thread_suspend, StartScan
    <3>4. scan_i' \in 0 .. nthreads' /\ ret' \in Results
      BY <1>7, <2>2, BoundsAssumption
      DEF thread_suspend, StartScan, SchedTypeOK, Results, threadVars
    <3>5. SchedTypeOK'
      BY <1>7, <2>1, <3>2, <3>3, <3>4
      DEF thread_suspend, SchedTypeOK, BlocksOK, threadVars, contextVars,
          LiveThreads
    <3>6. QED
      BY <1>1, <1>7, <3>5 DEF thread_suspend
  <2>3. CASE j # current_thread
    <3>1. SchedTypeOK'
      BY <1>7, <2>1, <2>3
      DEF thread_suspend, SchedTypeOK, BlocksOK, CallsOK, threadVars,
          contextVars, scanVars, LiveThreads, Results
    <3>2. QED
      BY <1>1, <1>7, <3>1 DEF thread_suspend
  <2>4. QED
    BY <2>2, <2>3
<1>8. ASSUME NEW j \in ThreadIds, thread_resume(j) PROVE TypeOK'
  <2>1. suspend_count' \in [ThreadIds -> Nat]
    BY <1>8 DEF thread_resume, SchedTypeOK
  <2>2. SchedTypeOK'
    BY <1>8, <2>1
    DEF thread_resume, SchedTypeOK, BlocksOK, CallsOK, threadVars,
        contextVars, scanVars, LiveThreads, Results
  <2>3. QED
    BY <1>1, <1>8, <2>2 DEF thread_resume
<1>9. ASSUME sleep PROVE TypeOK'
  <2>1. /\ BlockOK(BlockOn("Sleeping", 0, "pending"))
        /\ CallOK(CallTo("sleep", 0, NoMutex))
    BY BlockTypes, CallTypes DEF Deadlines
  <2>2. QED
    BY <1>1, <1>9, <2>1, YieldType DEF sleep
<1>10. ASSUME Preempt PROVE TypeOK'
  BY <1>1, <1>10, NotBlockedOK, YieldType DEF Preempt
<1>11. QED
  BY <1>2, <1>3, <1>4, <1>5, <1>6, <1>7, <1>8, <1>9, <1>10 DEF ThreadCall

(***************************************************************************)
(* The scheduler, the clock and the theorem                                *)
(***************************************************************************)
\* Relocking the mutex of a condition variable for the candidate.
LEMMA WakeWithMutexType ==
    ASSUME TypeOK, Scanning, NEW cs, CondMapOK(cs), NEW id \in MutexIds,
           WakeWithMutex(cs, id)
    PROVE  MutexMapOK(mutexes') /\ CondMapOK(conds') /\ SchedTypeOK'
<1> USE TypeParts
<1>0. Candidate \in ThreadIds
  BY LiveIds
<1>1. CASE mutexes' = relock(mutexes, id, Candidate) /\ conds' = cs /\ Wake
  BY <1>0, <1>1, MutexOps, WakeType DEF MutexTypeOK
<1>2. CASE Panic("relock") /\ UNCHANGED <<mutexes, conds>>
  BY <1>2, PanicType DEF Panics, MutexTypeOK, CondTypeOK
<1>3. QED
  BY <1>1, <1>2 DEF WakeWithMutex

\* Every arm of schedule_next_thread keeps the type invariant.
LEMMA ScheduleType ==
    ASSUME TypeOK, Schedule
    PROVE  TypeOK'
<1> USE TypeParts
<1> DEFINE t   == Candidate
           b   == blocked_by[Candidate]
           Objects == UNCHANGED <<mutexVars, semVars, condVars>>
<1>0. /\ t \in ThreadIds
      /\ BlockOK(b)
      /\ b.deadline \in Deadlines
      /\ UNCHANGED <<pthreadVars, holds>>
  BY LiveIds DEF SchedTypeOK, BlocksOK, BlockOK, Block, Schedule
<1>1. ASSUME SchedTypeOK', Objects PROVE TypeOK'
  BY <1>0, <1>1, UnchangedParts DEF pthreadVars
<1>2. ASSUME ScanInactive \/ ScanSuspended PROVE TypeOK'
  BY <1>1, <1>2, SkipType DEF ScanInactive, ScanSuspended
<1>3. ASSUME ScanNotBlocked PROVE TypeOK'
  BY <1>1, <1>3, WakeType DEF ScanNotBlocked, Considers
<1>4. ASSUME ScanSleeping PROVE TypeOK'
  BY <1>1, <1>4, WakeType, SkipType DEF ScanSleeping, Considers
<1>5. ASSUME ScanMutex PROVE TypeOK'
  <2>1. b.obj \in MutexIds
    BY <1>0, <1>5 DEF ScanMutex, Considers, BlockOK
  <2>2. MutexMapOK(mutexes') /\ SchedTypeOK'
    <3>1. CASE Skip(FALSE) /\ UNCHANGED mutexes
      BY <1>5, <3>1, SkipType DEF ScanMutex, Considers, MutexTypeOK
    <3>2. CASE mutexes' = relock(mutexes, b.obj, t) /\ Wake
      BY <1>0, <1>5, <2>1, <3>2, MutexOps, WakeType
      DEF ScanMutex, Considers, MutexTypeOK
    <3>3. CASE Panic("relock") /\ UNCHANGED mutexes
      BY <3>3, PanicType DEF Panics, MutexTypeOK
    <3>4. QED
      BY <1>5, <3>1, <3>2, <3>3 DEF ScanMutex
  <2>3. MutexTypeOK'
    BY <1>5, <2>2 DEF ScanMutex, MutexTypeOK
  <2>4. QED
    BY <1>0, <1>5, <2>2, <2>3, UnchangedParts DEF ScanMutex, pthreadVars
<1>6. ASSUME ScanSemaphore PROVE TypeOK'
  <2>1. b.obj \in SemPtrs
    BY <1>0, <1>6 DEF ScanSemaphore, Considers, BlockOK
  <2>2. SchedTypeOK'
    BY <1>6, WakeType, SkipType DEF ScanSemaphore, Considers
  <2>3. SemTypeOK'
    BY <1>0, <1>6, <2>1, SemSteps DEF ScanSemaphore
  <2>4. QED
    BY <1>0, <1>6, <2>2, <2>3, UnchangedParts DEF ScanSemaphore, pthreadVars
<1>7. ASSUME ScanConditionLost PROVE TypeOK'
  BY <1>1, <1>7, PanicType DEF ScanConditionLost, Panics
<1>8. ASSUME ConsidersCondition
      PROVE  /\ b.obj \in CondPtrs /\ Scanning
             /\ CondMapOK(conds)
             /\ conds[b.obj].curr_mutex \in MutexIds
  <2>1. b.obj \in CondPtrs /\ Scanning /\ CondMapOK(conds)
    BY <1>0, <1>8 DEF ConsidersCondition, Considers, BlockOK, CondTypeOK
  <2>2. conds[b.obj] \in CondHostObject
    BY <2>1 DEF CondMapOK
  <2>3. QED
    BY <1>8, <2>1, <2>2 DEF ConsidersCondition, CondHostObject
<1>9. ASSUME ConsidersCondition,
             MutexMapOK(mutexes'), CondMapOK(conds'), SchedTypeOK',
             UNCHANGED <<mutex_count, semVars, cond_word>>
      PROVE  TypeOK'
  <2>1. MutexTypeOK' /\ CondTypeOK'
    BY <1>9 DEF MutexTypeOK, CondTypeOK
  <2>2. QED
    BY <1>0, <1>9, <2>1, UnchangedParts DEF pthreadVars
<1>10. ASSUME ScanConditionSignalled PROVE TypeOK'
  <2>1. ConsidersCondition /\ conds[b.obj].waking # <<>>
    BY <1>10 DEF ScanConditionSignalled, CondReady, IsFrontWaking
  <2>2. CondMapOK(PopWaking(conds, b.obj))
    BY <1>0, <1>8, <2>1, CondOps
  <2>3. MutexMapOK(mutexes') /\ CondMapOK(conds') /\ SchedTypeOK'
    BY <1>8, <1>10, <2>1, <2>2, WakeWithMutexType DEF ScanConditionSignalled
  <2>4. QED
    BY <1>9, <1>10, <2>1, <2>3 DEF ScanConditionSignalled
<1>11. ASSUME ScanConditionTimedOut PROVE TypeOK'
  <2> DEFINE id == conds[b.obj].curr_mutex
             cs == TimeOut(conds, b.obj, t)
  <2>1. ConsidersCondition
    BY <1>11 DEF ScanConditionTimedOut
  <2>2. CondMapOK(cs) /\ id \in MutexIds
    BY <1>0, <1>8, <2>1, CondOps
  <2>3. CASE BlockOnMutex(cs, id)
    <3>1. BlockOK(BlockOn("Mutex", id, "none"))
      BY <2>2, BlockTypes DEF Deadlines
    <3>2. BlocksOK'
      BY <1>0, <2>3, <3>1 DEF BlockOnMutex, SchedTypeOK, BlocksOK, BlockOK
    <3>3. SchedTypeOK'
      BY <1>8, <2>1, <2>3, <3>2
      DEF BlockOnMutex, SchedTypeOK, CallsOK, threadVars, contextVars,
          LiveThreads, Scanning
    <3>4. MutexMapOK(mutexes') /\ CondMapOK(conds')
      BY <2>2, <2>3 DEF BlockOnMutex, MutexTypeOK
    <3>5. QED
      BY <1>9, <1>11, <2>1, <3>3, <3>4 DEF ScanConditionTimedOut
  <2>4. CASE WakeWithMutex(cs, id)
    <3>1. MutexMapOK(mutexes') /\ CondMapOK(conds') /\ SchedTypeOK'
      BY <1>8, <2>1, <2>2, <2>4, WakeWithMutexType
    <3>2. QED
      BY <1>9, <1>11, <2>1, <3>1 DEF ScanConditionTimedOut
  <2>5. QED
    BY <1>11, <2>3, <2>4 DEF ScanConditionTimedOut
<1>12. ASSUME ScanConditionWaiting PROVE TypeOK'
  BY <1>1, <1>8, <1>12, SkipType DEF ScanConditionWaiting
<1>13. ASSUME ScanJoining PROVE TypeOK'
  BY <1>1, <1>13, WakeType, SkipType DEF ScanJoining, Considers
<1>14. ASSUME ScanEnd PROVE TypeOK'
  <2>1. CASE Panic("deadlock")
    BY <1>1, <1>14, <2>1, PanicType DEF ScanEnd, Panics
  <2>2. CASE ~Panic("deadlock")
    <3>1. next_awakening' \in BOOLEAN
      BY <1>14, <2>2 DEF ScanEnd
    <3>2. scan_i' \in 0 .. nthreads' /\ nthreads' = nthreads
      BY <1>14, <2>2, BoundsAssumption DEF ScanEnd, SchedTypeOK, threadVars
    <3>3. SchedTypeOK'
      BY <1>14, <2>2, <3>1, <3>2
      DEF ScanEnd, SchedTypeOK, BlocksOK, CallsOK, threadVars, contextVars,
          LiveThreads
    <3>4. QED
      BY <1>1, <1>14, <3>3 DEF ScanEnd
  <2>3. QED
    BY <2>1, <2>2
<1>15. QED
  BY <1>2, <1>3, <1>4, <1>5, <1>6, <1>7, <1>10, <1>11, <1>12, <1>13, <1>14
  DEF Schedule, schedule_next_thread

\* So does the passing of time.
LEMMA ClockType ==
    ASSUME TypeOK, Clock
    PROVE  TypeOK'
<1> USE TypeParts
<1>0. PICK t \in ThreadIds : Expire(t) /\ UNCHANGED <<pthreadVars, holds>>
  BY DEF Clock
<1>1. BlocksOK'
  <2> DEFINE new == [blocked_by[t] EXCEPT !.deadline = "passed"]
  <2>1. BlockOK(new)
    BY DEF SchedTypeOK, BlocksOK, BlockOK, Block, Deadlines
  <2>2. blocked_by' = [blocked_by EXCEPT ![t] = new]
    BY <1>0 DEF Expire
  <2> HIDE DEF new
  <2>3. QED
    BY <2>1, <2>2 DEF SchedTypeOK, BlocksOK, BlockOK
<1>2. SchedTypeOK'
  BY <1>0, <1>1
  DEF Expire, SchedTypeOK, CallsOK, threadVars, contextVars, scanVars,
      LiveThreads
<1>3. QED
  BY <1>0, <1>2, UnchangedParts DEF Expire, pthreadVars

\* The state that Environment::new leaves is well typed.
LEMMA InitType == Init => TypeOK
<1> SUFFICES ASSUME Init PROVE TypeOK
  OBVIOUS
<1> USE BoundsAssumption DEF Init
<1>1. MutexTypeOK
  <2>1. Free("absent") \in Mutex
    BY DEF Free, Mutex
  <2>2. QED
    BY <2>1 DEF MutexInit, MutexTypeOK, MutexMapOK, Free
<1>2. SemTypeOK
  <2>1. ClosedSem \in Semaphore
    BY DEF ClosedSem, Semaphore
  <2>2. QED
    BY <2>1 DEF SemInit, SemTypeOK
<1>3. CondTypeOK
  <2>1. NoCond \in CondHostObject
    <3>1. <<>> \in Seq(ThreadIds)
      OBVIOUS
    <3>2. QED
      BY <3>1 DEF NoCond, FreshCond, CondHostObject
  <2>2. QED
    BY <2>1, CondAssumption DEF CondInit, CondTypeOK, CondMapOK
<1>4. SchedTypeOK
  <2>1. BlocksOK /\ CallsOK
    BY NotBlockedOK DEF SchedInit, BlocksOK, CallsOK, BlockOK, CallOK
  <2>2. /\ active \in [ThreadIds -> BOOLEAN]
        /\ has_return \in [ThreadIds -> BOOLEAN]
        /\ guest_context \in [ThreadIds -> BOOLEAN]
        /\ host_context \in [ThreadIds -> BOOLEAN]
        /\ old_context \in BOOLEAN /\ next_awakening \in BOOLEAN
    BY DEF SchedInit
  <2>3. QED
    BY <2>1, <2>2 DEF SchedInit, SchedTypeOK, LiveThreads, Results, Panics
<1>5. WordTypeOK
  <2>1. mutex_word \in [MutexPtrs -> [magic : InitialMagic, id : {NoMutex}]]
    BY DEF WordInit
  <2>2. ASSUME NEW w \in [magic : InitialMagic, id : {NoMutex}]
        PROVE  w \in MutexWord /\ w.magic # "MUTX"
    BY <2>2, CondAssumption DEF MutexWord
  <2>3. QED
    BY <2>1, <2>2 DEF WordTypeOK
<1>6. LinksOK /\ HoldsOK
  BY DEF LinksOK, HoldsOK
<1>7. QED
  BY <1>1, <1>2, <1>3, <1>4, <1>5, <1>6, TypeParts

\* Every step keeps the type invariant.
LEMMA NextType ==
    ASSUME TypeOK, [Next]_vars
    PROVE  TypeOK'
<1>1. ASSUME NEW p \in MutexPtrs, MutexCall(p) PROVE TypeOK'
  BY <1>1, MutexCallType
<1>2. ASSUME NEW c \in CondPtrs, CondCall(c) PROVE TypeOK'
  BY <1>2, CondCallType
<1>3. ASSUME NEW s \in SemPtrs, SemCall(s) PROVE TypeOK'
  BY <1>3, SemCallType
<1>4. CASE ThreadCall
  BY <1>4, ThreadCallType
<1>5. CASE Resume
  BY <1>5, ResumeType
<1>6. CASE Schedule
  BY <1>6, ScheduleType
<1>7. CASE Clock
  BY <1>7, ClockType
<1>8. CASE UNCHANGED vars
  BY <1>8, UnchangedParts, TypeParts DEF vars, pthreadVars
<1>9. QED
  BY <1>1, <1>2, <1>3, <1>4, <1>5, <1>6, <1>7, <1>8 DEF Next, Halted

\* Type correctness: whatever guest threads call and however they are
\* scheduled, every state is well typed.  In particular a block, a pending
\* call and a guest mutex name objects that the host knows, locked has both
\* its halves or none, no count is negative and switch_thread is given a
\* thread that exists.
THEOREM TypeCorrect == Spec => []TypeOK
<1>1. Init => TypeOK
  BY InitType
<1>2. TypeOK /\ [Next]_vars => TypeOK'
  BY NextType
<1>3. QED
  BY <1>1, <1>2, PTL DEF Spec

(***************************************************************************)
(* The ways a step changes threads                                         *)
(***************************************************************************)
\* The current thread's call returns: nothing else about threads changes.
Finish == /\ phase = "guest"
          /\ pending' = [pending EXCEPT ![current_thread] = NoCall]
          /\ UNCHANGED <<threadVars, current_thread, blocked_by,
                         suspend_count, contextVars, phase>>

\* The scheduler picks a thread that may run.
Pick == /\ Scanning /\ active[Candidate] /\ suspend_count[Candidate] = 0
        /\ Wake

\* Nothing about threads changes but the block of one during a scan, or the
\* deadline of one that is blocked.
Reblock == /\ \E t \in ThreadIds :
                 /\ blocked_by[t] # NotBlocked
                 /\ \E b : blocked_by' = [blocked_by EXCEPT ![t] = b]
           /\ UNCHANGED <<threadVars, current_thread, suspend_count,
                          contextVars, phase, pending>>

Suspension == \E j \in LiveThreads : thread_suspend(j) \/ thread_resume(j)

Creation == \E detach, suspended \in BOOLEAN : NewThread(detach, suspended)

Steady == UNCHANGED <<threadVars, current_thread, blocked_by, suspend_count,
                      contextVars, phase, pending>>

\* What a step can do to the threads.
ThreadStep ==
    \/ Steady
    \/ Finish
    \/ Pick
    \/ Reblock
    \/ Suspension
    \/ Creation
    \/ ThreadExit
    \/ \E b, call : Running /\ Yield(b, call)

\* Returning, panicking and passing over a candidate leave the threads
\* as they are.
LEMMA SteadySteps ==
    /\ \A r : Return(r) => Steady
    /\ \A why : Panic(why) => Steady
    /\ \A timed : Skip(timed) => Steady
    /\ UNCHANGED schedVars => Steady
BY DEF Return, Panic, Skip, Steady, schedVars, scanVars

\* The synchronisation calls do to the threads what ThreadStep allows.
LEMMA CallSteps ==
    ASSUME TypeOK
    PROVE  /\ \A p \in MutexPtrs : MutexCall(p) => ThreadStep
           /\ \A c \in CondPtrs : CondCall(c) => ThreadStep
           /\ \A s \in SemPtrs : SemCall(s) => ThreadStep
<1> USE SteadySteps DEF MayCall
<1>1. ASSUME NEW p \in MutexPtrs, MutexCall(p) PROVE ThreadStep
  <2>1. ASSUME NEW ms, NEW id, lock_mutex(ms, id), Running PROVE ThreadStep
    BY <2>1 DEF lock_mutex, ThreadStep
  <2>2. CASE MutexInvalid(p)
    BY <2>2 DEF MutexInvalid, ThreadStep
  <2>3. ASSUME NEW type, pthread_mutex_init(p, type) PROVE ThreadStep
    BY <2>3 DEF pthread_mutex_init, ThreadStep
  <2>4. CASE pthread_mutex_lock(p)
    BY <2>1, <2>4 DEF pthread_mutex_lock
  <2>5. CASE pthread_mutex_trylock(p)
    BY <2>1, <2>5 DEF pthread_mutex_trylock, ThreadStep
  <2>6. CASE pthread_mutex_unlock(p)
    BY <2>6 DEF pthread_mutex_unlock, ThreadStep
  <2>7. CASE pthread_mutex_destroy(p)
    BY <2>7 DEF pthread_mutex_destroy, ThreadStep
  <2>8. QED
    BY <1>1, <2>2, <2>3, <2>4, <2>5, <2>6, <2>7 DEF MutexCall
<1>2. ASSUME NEW c \in CondPtrs, CondCall(c) PROVE ThreadStep
  <2>1. ASSUME NEW effect, OnCond(c, effect) PROVE ThreadStep
    BY <2>1 DEF OnCond, ThreadStep
  <2>2. ASSUME NEW fn, NEW p, NEW d, CondWait(fn, c, p, d) PROVE ThreadStep
    BY <2>2 DEF CondWait, ThreadStep
  <2>3. CASE CondInvalid(c) \/ pthread_cond_init(c)
    BY <2>3 DEF CondInvalid, pthread_cond_init, ThreadStep
  <2>4. ASSUME NEW p, CondWaitInvalid(c, p) PROVE ThreadStep
    BY <2>4 DEF CondWaitInvalid, ThreadStep
  <2>5. ASSUME NEW p, pthread_cond_wait(c, p) \/ pthread_cond_timedwait(c, p)
        PROVE  ThreadStep
    BY <2>2, <2>5 DEF pthread_cond_wait, pthread_cond_timedwait
  <2>6. CASE pthread_cond_signal(c)
    BY <2>1, <2>6 DEF pthread_cond_signal
  <2>7. CASE pthread_cond_broadcast(c)
    BY <2>1, <2>7 DEF pthread_cond_broadcast
  <2>8. CASE pthread_cond_destroy(c)
    BY <2>1, <2>8, Zenon DEF pthread_cond_destroy, ThreadStep
  <2>9. QED
    BY <1>2, <2>3, <2>4, <2>5, <2>6, <2>7, <2>8 DEF CondCall
<1>3. ASSUME NEW s \in SemPtrs, SemCall(s) PROVE ThreadStep
  <2>1. ASSUME NEW v, sem_init(s, v) PROVE ThreadStep
    BY <2>1 DEF sem_init, ThreadStep
  <2>2. CASE sem_destroy(s) \/ sem_post(s) \/ sem_trywait(s)
    BY <2>2 DEF sem_destroy, sem_post, sem_trywait, ThreadStep
  <2>3. CASE sem_wait(s)
    BY <2>3 DEF sem_wait, ThreadStep
  <2>4. QED
    BY <1>3, <2>1, <2>2, <2>3 DEF SemCall
<1>4. QED
  BY <1>1, <1>2, <1>3

\* So do the calls on threads, the scheduler and the clock.
LEMMA OtherSteps ==
    ASSUME TypeOK
    PROVE  /\ ThreadCall => ThreadStep
           /\ Resume => ThreadStep
           /\ Schedule => ThreadStep
           /\ Clock => ThreadStep
<1> USE SteadySteps DEF MayCall
<1>1. ASSUME ThreadCall PROVE ThreadStep
  <2>1. ASSUME NEW detach \in BOOLEAN,
               pthread_create(detach) \/ pthread_create_suspended_np(detach)
        PROVE  ThreadStep
    <3>1. Creation
      BY <2>1 DEF pthread_create, pthread_create_suspended_np, Creation
    <3>2. QED
      BY <3>1 DEF ThreadStep
  <2>2. ASSUME NEW j \in ThreadIds, pthread_join(j) \/ pthread_detach(j)
        PROVE  ThreadStep
    BY <2>2 DEF pthread_join, pthread_detach, ThreadStep
  <2>3. ASSUME NEW j \in ThreadIds, thread_suspend(j) \/ thread_resume(j)
        PROVE  ThreadStep
    <3>1. j \in LiveThreads
      BY <2>3 DEF thread_suspend, thread_resume
    <3>2. QED
      BY <2>3, <3>1 DEF Suspension, ThreadStep
  <2>4. CASE sleep \/ Preempt
    BY <2>4 DEF sleep, Preempt, ThreadStep
  <2>5. QED
    BY <1>1, <2>1, <2>2, <2>3, <2>4 DEF ThreadCall, ThreadStep
<1>2. ASSUME Resume PROVE ThreadStep
  <2>1. CASE ResumeLock \/ ResumeSem \/ ResumeOther
    <3>1. Finish
      BY <2>1 DEF ResumeLock, ResumeSem, ResumeOther, Finish, scanVars
    <3>2. QED
      BY <3>1 DEF ThreadStep
  <2>2. CASE ResumeCond
    <3>1. Finish \/ Steady
      BY <2>2 DEF ResumeCond, Finish, scanVars
    <3>2. QED
      BY <3>1 DEF ThreadStep
  <2>3. QED
    BY <1>2, <2>1, <2>2 DEF Resume
<1>3. ASSUME Schedule PROVE ThreadStep
  <2>0. Candidate \in ThreadIds
    BY LiveIds, TypeParts
  <2>1. ASSUME NEW kind, Considers(kind), Wake PROVE ThreadStep
    BY <2>1 DEF Considers, Pick, ThreadStep
  <2>2. ASSUME NEW cs, NEW id, ConsidersCondition, WakeWithMutex(cs, id)
        PROVE  ThreadStep
    BY <2>1, <2>2 DEF ConsidersCondition, WakeWithMutex, ThreadStep
  <2>3. CASE ScanInactive \/ ScanSuspended \/ ScanConditionLost
               \/ ScanConditionWaiting
    BY <2>3 DEF ScanInactive, ScanSuspended, ScanConditionLost,
                ScanConditionWaiting, ThreadStep
  <2>4. CASE ScanNotBlocked \/ ScanSleeping \/ ScanJoining
    BY <2>1, <2>4 DEF ScanNotBlocked, ScanSleeping, ScanJoining, ThreadStep
  <2>5. CASE ScanMutex \/ ScanSemaphore
    BY <2>1, <2>5 DEF ScanMutex, ScanSemaphore, ThreadStep
  <2>6. CASE ScanConditionSignalled
    BY <2>2, <2>6 DEF ScanConditionSignalled
  <2>7. CASE ScanConditionTimedOut
    <3>1. ASSUME NEW cs, NEW id, BlockOnMutex(cs, id) PROVE Reblock
      <4>1. blocked_by[Candidate] # NotBlocked
        BY <2>7 DEF ScanConditionTimedOut, ConsidersCondition, Considers,
                    NotBlocked, BlockOn
      <4>2. QED
        BY <2>0, <3>1, <4>1 DEF BlockOnMutex, Reblock
    <3>2. QED
      BY <2>2, <2>7, <3>1 DEF ScanConditionTimedOut, ThreadStep
  <2>8. CASE ScanEnd
    BY <2>8 DEF ScanEnd, ThreadStep, Steady
  <2>9. QED
    BY <1>3, <2>3, <2>4, <2>5, <2>6, <2>7, <2>8
    DEF Schedule, schedule_next_thread
<1>4. ASSUME Clock PROVE ThreadStep
  <2>1. PICK t \in ThreadIds : Expire(t)
    BY <1>4 DEF Clock
  <2>2. blocked_by[t] # NotBlocked
    BY <2>1 DEF Expire, NotBlocked, BlockOn
  <2>3. blocked_by' = [blocked_by EXCEPT
                         ![t] = [blocked_by[t] EXCEPT !.deadline = "passed"]]
    BY <2>1 DEF Expire
  <2>4. UNCHANGED <<threadVars, current_thread, suspend_count, contextVars,
                    phase, pending>>
    BY <2>1 DEF Expire, scanVars
  <2>5. Reblock
    BY <2>2, <2>3, <2>4, Zenon DEF Reblock
  <2>6. QED
    BY <2>5 DEF ThreadStep
<1>5. QED
  BY <1>1, <1>2, <1>3, <1>4

\* Every step of the specification is a ThreadStep.
LEMMA NextIsThreadStep ==
    ASSUME TypeOK, [Next]_vars
    PROVE  ThreadStep
<1>1. CASE UNCHANGED vars
  BY <1>1, SteadySteps DEF vars, ThreadStep
<1>2. QED
  BY <1>1, CallSteps, OtherSteps DEF Next, Halted

\* A thread that has not been created yet has no state.
UnbornBlank ==
    \A t \in ThreadIds \ LiveThreads :
        /\ ~active[t]
        /\ ~has_return[t]
        /\ blocked_by[t] = NotBlocked
        /\ pending[t] = NoCall
        /\ suspend_count[t] = 0

ThreadInv == TypeOK /\ ContextInv /\ CurrentRunnable /\ FinishedThreads /\ UnbornBlank

\* The inductive invariant holds of the main thread alone.
LEMMA InitThreads == Init => ThreadInv
<1> SUFFICES ASSUME Init PROVE ThreadInv
  OBVIOUS
<1>1. TypeOK
  BY InitType
<1>2. /\ nthreads = 1 /\ current_thread = 0 /\ old_context
      /\ phase = "guest"
      /\ 0 \in ThreadIds /\ ThreadIds \subseteq Nat
  BY BoundsAssumption DEF Init, SchedInit, ThreadIds
<1>3. ASSUME NEW t \in ThreadIds
      PROVE  /\ active[t] <=> t = 0
             /\ ~guest_context[t] /\ ~host_context[t] /\ ~has_return[t]
             /\ blocked_by[t] = NotBlocked
             /\ pending[t] = NoCall
             /\ suspend_count[t] = 0
  BY Zenon DEF Init, SchedInit
<1>4. ContextInv
  BY <1>2, <1>3 DEF ContextInv
<1>5. CurrentRunnable
  BY <1>2, <1>3 DEF CurrentRunnable
<1>6. LiveThreads = {0}
  BY <1>2 DEF LiveThreads
<1>7. FinishedThreads /\ UnbornBlank
  <2>1. active[0] /\ ~has_return[0]
    BY <1>2, <1>3
  <2>2. active[0] # has_return[0]
    BY <1>1, <1>2, <2>1, TypeParts DEF SchedTypeOK
  <2>3. QED
    BY <1>2, <1>3, <1>6, <2>1, <2>2 DEF FinishedThreads, UnbornBlank
<1>8. QED
  BY <1>1, <1>4, <1>5, <1>7 DEF ThreadInv

\* ContextInv is preserved; only switching, creating and ending threads
\* have something to show.
LEMMA ContextStep ==
    ASSUME ThreadInv, ThreadStep
    PROVE  ContextInv'
<1> USE TypeParts DEF ThreadInv
<1>0. /\ current_thread \in ThreadIds /\ Candidate \in ThreadIds
      /\ LiveThreads \subseteq ThreadIds /\ current_thread < nthreads
      /\ Candidate < nthreads
      /\ nthreads \in Nat /\ ThreadIds \subseteq Nat
  BY LiveIds, BoundsAssumption DEF SchedTypeOK, LiveThreads, ThreadIds
<1>1. CASE UNCHANGED <<nthreads, active, current_thread, contextVars>>
  BY <1>1 DEF ContextInv, contextVars
<1>2. CASE Steady \/ Finish \/ Reblock
  BY <1>1, <1>2 DEF Steady, Finish, Reblock, threadVars
<1>3. CASE \E b, call : Running /\ Yield(b, call)
  BY <1>1, <1>3 DEF Yield, threadVars
<1>4. CASE Suspension
  BY <1>1, <1>4 DEF Suspension, thread_suspend, thread_resume, threadVars
<1>5. CASE Pick
  <2>1. CASE Candidate = current_thread
    BY <1>1, <1>5, <2>1 DEF Pick, Wake, switch_thread, threadVars
  <2>2. CASE Candidate # current_thread
    <3>1. /\ guest_context' = [guest_context EXCEPT ![Candidate] = FALSE,
                                                    ![current_thread] = TRUE]
          /\ host_context' =
                 [host_context EXCEPT ![Candidate] = FALSE,
                                      ![current_thread] = old_context]
          /\ old_context' = host_context[Candidate]
          /\ current_thread' = Candidate
          /\ nthreads' = nthreads /\ active' = active
      BY <1>5, <2>2 DEF Pick, Wake, switch_thread, threadVars
    <3>2. ASSUME NEW t \in ThreadIds
          PROVE  /\ guest_context'[t] <=> t < nthreads' /\ t # current_thread'
                 /\ host_context'[t] <=> active'[t] /\ t # current_thread'
      BY <1>0, <2>2, <3>1 DEF ContextInv, SchedTypeOK
    <3>3. old_context' <=> active'[current_thread']
      BY <1>0, <2>2, <3>1 DEF ContextInv
    <3>4. QED
      BY <3>2, <3>3 DEF ContextInv
  <2>3. QED
    BY <2>1, <2>2
<1>6. CASE Creation
  <2>1. /\ nthreads \in ThreadIds
        /\ nthreads' = nthreads + 1
        /\ current_thread' = current_thread
        /\ active' = [active EXCEPT ![nthreads] = TRUE]
        /\ guest_context' = [guest_context EXCEPT ![nthreads] = TRUE]
        /\ host_context' = [host_context EXCEPT ![nthreads] = TRUE]
        /\ old_context' = old_context
    BY <1>0, <1>6, BoundsAssumption DEF Creation, NewThread, ThreadIds
  <2>2. ASSUME NEW t \in ThreadIds
        PROVE  /\ guest_context'[t] <=> t < nthreads' /\ t # current_thread'
               /\ host_context'[t] <=> active'[t] /\ t # current_thread'
    BY <1>0, <2>1 DEF ContextInv, SchedTypeOK
  <2>3. old_context' <=> active'[current_thread']
    BY <1>0, <2>1 DEF ContextInv, SchedTypeOK
  <2>4. QED
    BY <2>2, <2>3 DEF ContextInv
<1>7. CASE ThreadExit
  <2>1. CASE Panic("main_exit")
    BY <1>1, <2>1 DEF Panic, threadVars
  <2>2. CASE ~Panic("main_exit")
    BY <1>0, <1>7, <2>2 DEF ThreadExit, ContextInv, SchedTypeOK
  <2>3. QED
    BY <2>1, <2>2
<1>8. QED
  BY <1>2, <1>3, <1>4, <1>5, <1>6, <1>7 DEF ThreadStep

(***************************************************************************)
(* The invariants                                                          *)
(***************************************************************************)
\* CurrentRunnable is preserved.
LEMMA RunnableStep ==
    ASSUME ThreadInv, ThreadStep
    PROVE  CurrentRunnable'
<1> USE TypeParts DEF ThreadInv
<1>0. /\ current_thread \in ThreadIds /\ Candidate \in ThreadIds
      /\ current_thread < nthreads
      /\ nthreads \in Nat /\ ThreadIds \subseteq Nat
  BY LiveIds, BoundsAssumption DEF SchedTypeOK, LiveThreads, ThreadIds
<1>1. CASE Steady \/ Finish
  BY <1>1 DEF Steady, Finish, CurrentRunnable, threadVars
<1>2. CASE Reblock
  BY <1>0, <1>2 DEF Reblock, CurrentRunnable, SchedTypeOK, BlocksOK, threadVars
<1>3. CASE \E b, call : Running /\ Yield(b, call)
  BY <1>3 DEF Yield, StartScan, CurrentRunnable
<1>4. CASE Suspension
  <2>1. PICK j \in LiveThreads : thread_suspend(j) \/ thread_resume(j)
    BY <1>4 DEF Suspension
  <2>2. CASE thread_suspend(j)
    BY <1>0, <2>2
    DEF thread_suspend, StartScan, CurrentRunnable, SchedTypeOK, threadVars,
        scanVars
  <2>3. CASE thread_resume(j)
    BY <1>0, <2>3
    DEF thread_resume, CurrentRunnable, SchedTypeOK, threadVars, scanVars
  <2>4. QED
    BY <2>1, <2>2, <2>3
<1>5. CASE Pick
  BY <1>0, <1>5
  DEF Pick, Wake, switch_thread, CurrentRunnable, SchedTypeOK, BlocksOK,
      threadVars
<1>6. CASE Creation
  BY <1>0, <1>6 DEF Creation, NewThread, CurrentRunnable, SchedTypeOK, scanVars
<1>7. CASE ThreadExit
  BY <1>7 DEF ThreadExit, StartScan, Panic, CurrentRunnable, threadVars, scanVars
<1>8. QED
  BY <1>1, <1>2, <1>3, <1>4, <1>5, <1>6, <1>7 DEF ThreadStep

\* FinishedThreads and UnbornBlank are preserved.
LEMMA FinishedStep ==
    ASSUME ThreadInv, ThreadStep
    PROVE  FinishedThreads' /\ UnbornBlank'
<1> USE TypeParts DEF ThreadInv
<1>0. /\ current_thread \in LiveThreads /\ Candidate \in LiveThreads
      /\ LiveThreads \subseteq ThreadIds
      /\ nthreads \in Nat /\ ThreadIds \subseteq Nat
  BY LiveIds, BoundsAssumption DEF SchedTypeOK, LiveThreads, ThreadIds
<1>1. ASSUME UNCHANGED <<threadVars, blocked_by, suspend_count>>,
             NEW call, phase = "guest",
             pending' = [pending EXCEPT ![current_thread] = call]
      PROVE  FinishedThreads' /\ UnbornBlank'
  <2>1. active[current_thread] /\ ~has_return[current_thread]
    BY <1>0, <1>1 DEF CurrentRunnable, FinishedThreads, SchedTypeOK
  <2>2. QED
    BY <1>0, <1>1, <2>1
    DEF FinishedThreads, UnbornBlank, LiveThreads, threadVars, SchedTypeOK,
        CallsOK
<1>2. CASE Steady
  BY <1>2 DEF Steady, FinishedThreads, UnbornBlank, LiveThreads, threadVars
<1>3. CASE Finish
  BY <1>1, <1>3 DEF Finish
<1>4. ASSUME UNCHANGED <<threadVars, suspend_count, pending>>,
             NEW t \in ThreadIds, NEW b,
             t \in LiveThreads \/ blocked_by[t] # NotBlocked,
             blocked_by' = [blocked_by EXCEPT ![t] = b]
      PROVE  FinishedThreads' /\ UnbornBlank'
  BY <1>0, <1>4
  DEF FinishedThreads, UnbornBlank, LiveThreads, threadVars, SchedTypeOK,
      BlocksOK
<1>5. CASE Reblock
  BY <1>4, <1>5 DEF Reblock
<1>6. CASE Pick
  BY <1>0, <1>4, <1>6 DEF Pick, Wake
<1>7. CASE \E b, call : Running /\ Yield(b, call)
  <2>1. PICK b, call : Running /\ Yield(b, call)
    BY <1>7
  <2>2. active[current_thread] /\ ~has_return[current_thread]
    BY <1>0, <2>1 DEF CurrentRunnable, FinishedThreads, SchedTypeOK, Running
  <2>3. QED
    BY <1>0, <2>1, <2>2
    DEF Yield, FinishedThreads, UnbornBlank, LiveThreads, threadVars,
        SchedTypeOK, CallsOK, BlocksOK
<1>8. CASE Suspension
  <2>1. PICK j \in LiveThreads : thread_suspend(j) \/ thread_resume(j)
    BY <1>8 DEF Suspension
  <2>2. active[current_thread] /\ ~has_return[current_thread]
    BY <1>0, <2>1
    DEF CurrentRunnable, FinishedThreads, SchedTypeOK, Running, MayCall,
        thread_suspend, thread_resume
  <2>3. CASE thread_suspend(j)
    BY <1>0, <2>1, <2>2, <2>3
    DEF thread_suspend, FinishedThreads, UnbornBlank, LiveThreads,
        threadVars, SchedTypeOK, CallsOK
  <2>4. CASE thread_resume(j)
    BY <1>0, <2>1, <2>2, <2>4
    DEF thread_resume, FinishedThreads, UnbornBlank, LiveThreads,
        threadVars, SchedTypeOK
  <2>5. QED
    BY <2>1, <2>3, <2>4
<1>9. CASE Creation
  <2>1. /\ nthreads \in ThreadIds \ LiveThreads
        /\ nthreads' = nthreads + 1
        /\ active' = [active EXCEPT ![nthreads] = TRUE]
        /\ \A t \in ThreadIds : t # nthreads => suspend_count'[t] = suspend_count[t]
        /\ UNCHANGED <<has_return, blocked_by, pending>>
    BY <1>0, <1>9, BoundsAssumption
    DEF Creation, NewThread, ThreadIds, LiveThreads, SchedTypeOK
  <2>2. FinishedThreads'
    <3>1. \A t \in LiveThreads' : t \in LiveThreads \/ t = nthreads
      BY <1>0, <2>1 DEF LiveThreads
    <3>2. ~has_return[nthreads] /\ pending[nthreads] = NoCall
      BY <2>1 DEF UnbornBlank
    <3>3. QED
      BY <1>0, <2>1, <3>1, <3>2 DEF FinishedThreads, SchedTypeOK
  <2>3. UnbornBlank'
    <3>1. \A t \in ThreadIds : t \notin LiveThreads' =>
              t \notin LiveThreads /\ t # nthreads
      BY <1>0, <2>1 DEF LiveThreads
    <3>2. QED
      BY <2>1, <3>1 DEF UnbornBlank, SchedTypeOK
  <2>4. QED
    BY <2>2, <2>3
<1>10. CASE ThreadExit
  <2>1. CASE Panic("main_exit")
    BY <1>2, <2>1, SteadySteps
  <2>2. CASE ~Panic("main_exit")
    <3>1. pending[current_thread] = NoCall
      BY <1>10 DEF ThreadExit, MayCall, Running
    <3>2. QED
      BY <1>0, <1>10, <2>2, <3>1
      DEF ThreadExit, FinishedThreads, UnbornBlank, LiveThreads, SchedTypeOK
  <2>3. QED
    BY <2>1, <2>2
<1>11. QED
  BY <1>2, <1>3, <1>5, <1>6, <1>7, <1>8, <1>9, <1>10 DEF ThreadStep

\* The inductive invariant holds in every state.
LEMMA ThreadInvariance == Spec => []ThreadInv
<1>1. Init => ThreadInv
  BY InitThreads
<1>2. ThreadInv /\ [Next]_vars => ThreadInv'
  <2> SUFFICES ASSUME ThreadInv, [Next]_vars PROVE ThreadInv'
    OBVIOUS
  <2>1. TypeOK' /\ ThreadStep
    BY NextType, NextIsThreadStep DEF ThreadInv
  <2>2. QED
    BY <2>1, ContextStep, RunnableStep, FinishedStep DEF ThreadInv
<1>3. QED
  BY <1>1, <1>2, PTL DEF Spec

\* switch_thread never unwraps a context that is not there nor overwrites
\* one that is (environment.rs, switch_thread and run).
THEOREM ContextCorrect == Spec => []ContextInv
BY ThreadInvariance, PTL DEF ThreadInv

\* The thread that executes is active, not blocked and not suspended, as
\* yield_thread asserts.
THEOREM RunnableCorrect == Spec => []CurrentRunnable
BY ThreadInvariance, PTL DEF ThreadInv

\* A thread has a return value exactly when it has finished, so that the
\* scheduler can unwrap it for a thread that joins; a finished thread is in
\* no call.
THEOREM FinishedCorrect == Spec => []FinishedThreads
BY ThreadInvariance, PTL DEF ThreadInv

(***************************************************************************)
(* The deadlock that the scheduler reports                                 *)
(***************************************************************************)
\* t cannot go on, now or when some deadline comes.
Stuck(t) ==
    /\ ~Eligible(t)
    /\ active[t] /\ suspend_count[t] = 0 => blocked_by[t].deadline = "none"

\* Only sleeping and waiting for a condition have a deadline.
Timed == \A t \in ThreadIds :
            blocked_by[t].deadline # "none" => blocked_by[t].kind \in {"Sleeping", "Condition"}

\* The candidates of the scan so far, of which none will wake at a known time,
\* are all stuck.
ScanStuck ==
    Alive /\ phase = "scan" /\ ~next_awakening =>
        \A k \in 0 .. scan_i - 1 : Stuck((current_thread + 1 + k) % nthreads)

DeadlockInv == ThreadInv /\ Timed /\ ScanStuck /\ NoFalseDeadlock

\* Nothing is claimed of the state after the step: a thread runs, a scan
\* begins, or the host stops for another reason.
Begins == panic' # "deadlock" /\ (panic' # "none" \/ phase' = "guest" \/ scan_i' = 0)

\* Who blocks blocks without a deadline, unless it sleeps or waits for a
\* condition.
TimedBlocks ==
    \/ UNCHANGED blocked_by
    \/ \E t \in ThreadIds : \E b :
          /\ blocked_by' = [blocked_by EXCEPT ![t] = b]
          /\ b.deadline # "none" => b.kind \in {"Sleeping", "Condition"}

LEMMA GuestSteps ==
    ASSUME TypeOK,
           \/ \E p \in MutexPtrs : MutexCall(p)
           \/ \E c \in CondPtrs : CondCall(c)
           \/ \E s \in SemPtrs : SemCall(s)
           \/ ThreadCall
           \/ Resume
    PROVE  Begins /\ TimedBlocks
<1> DEFINE Goes == Begins /\ TimedBlocks
<1> USE DEF MayCall, Running, Alive
<1>0. current_thread \in ThreadIds
  BY TypeParts, LiveIds DEF SchedTypeOK
<1>1. ASSUME Alive, phase = "guest", NEW r, Return(r) PROVE Goes
  BY <1>1 DEF Return, scanVars, Begins, TimedBlocks
<1>2. ASSUME NEW why \in Panics \ {"none", "deadlock"}, Panic(why) PROVE Goes
  BY <1>2 DEF Panic, Begins, TimedBlocks
<1>3. ASSUME Alive, NEW b, NEW call, Yield(b, call),
             b.deadline # "none" => b.kind \in {"Sleeping", "Condition"}
      PROVE  Goes
  BY <1>0, <1>3 DEF Yield, StartScan, Begins, TimedBlocks
<1>4. /\ \A kind, obj : BlockOn(kind, obj, "none").deadline = "none"
      /\ \A obj, d : BlockOn("Condition", obj, d).kind = "Condition"
      /\ BlockOn("Sleeping", 0, "pending").kind = "Sleeping"
      /\ NotBlocked.deadline = "none"
  BY DEF BlockOn, NotBlocked
<1> HIDE DEF Goes
<1>5. ASSUME NEW ms, NEW id, lock_mutex(ms, id), Alive, phase = "guest"
      PROVE  Goes
  BY <1>1, <1>3, <1>4, <1>5 DEF lock_mutex
<1>6. ASSUME NEW p \in MutexPtrs, MutexCall(p) PROVE Goes
  <2>1. Alive /\ phase = "guest"
    BY <1>6
    DEF MutexCall, MutexInvalid, pthread_mutex_init, pthread_mutex_lock,
        pthread_mutex_trylock, pthread_mutex_unlock, pthread_mutex_destroy
  <2>2. lock_mutex(MutexesAt(p), MutexOf(p)) \/ \E r : Return(r)
    BY <1>6
    DEF MutexCall, MutexInvalid, pthread_mutex_init, pthread_mutex_lock,
        pthread_mutex_trylock, pthread_mutex_unlock, pthread_mutex_destroy
  <2>3. QED
    BY <1>1, <1>5, <2>1, <2>2
<1>7. ASSUME NEW c \in CondPtrs, CondCall(c) PROVE Goes
  <2>1. ASSUME NEW fn, NEW p, NEW d, CondWait(fn, c, p, d) PROVE Goes
    <3>1. Alive /\ phase = "guest"
      BY <2>1 DEF CondWait
    <3>2. \/ \E r : Return(r)
          \/ \E id : Yield(BlockOn("Condition", c, d), CallTo(fn, c, id))
          \/ \E why \in {"cond_missing", "cond_mutex"} : Panic(why)
      BY <2>1 DEF CondWait
    <3>3. QED
      BY <1>1, <1>2, <1>3, <1>4, <3>1, <3>2 DEF Panics
  <2>2. ASSUME NEW effect, OnCond(c, effect), Alive, phase = "guest" PROVE Goes
    BY <1>1, <1>2, <2>2 DEF OnCond, Panics
  <2>3. CASE pthread_cond_signal(c) \/ pthread_cond_broadcast(c) \/ pthread_cond_destroy(c)
    <3>1. Alive /\ phase = "guest"
      BY <2>3 DEF pthread_cond_signal, pthread_cond_broadcast, pthread_cond_destroy
    <3>2. Panic("cond_destroy") \/ \E effect : OnCond(c, effect)
      BY <2>3 DEF pthread_cond_signal, pthread_cond_broadcast, pthread_cond_destroy
    <3>3. QED
      BY <1>2, <2>2, <3>1, <3>2 DEF Panics
  <2>4. CASE CondInvalid(c) \/ pthread_cond_init(c) \/ \E p \in MutexPtrs : CondWaitInvalid(c, p)
    <3>1. Alive /\ phase = "guest" /\ \E r : Return(r)
      BY <2>4 DEF CondInvalid, pthread_cond_init, CondWaitInvalid
    <3>2. QED
      BY <1>1, <3>1
  <2>5. QED
    BY <1>7, <2>1, <2>3, <2>4 DEF CondCall, pthread_cond_wait, pthread_cond_timedwait
<1>8. ASSUME NEW s \in SemPtrs, SemCall(s) PROVE Goes
  <2>1. Alive /\ phase = "guest"
    BY <1>8 DEF SemCall, sem_init, sem_destroy, sem_post, sem_wait, sem_trywait
  <2>2. \/ \E r : Return(r)
        \/ \E call : Yield(BlockOn("Semaphore", s, "none"), call)
    BY <1>8 DEF SemCall, sem_init, sem_destroy, sem_post, sem_wait, sem_trywait
  <2>3. QED
    BY <1>1, <1>3, <1>4, <2>1, <2>2
<1>9. ASSUME ThreadCall PROVE Goes
  <2>1. CASE \/ \E detach, suspended \in BOOLEAN :
                   (MayCall("create") \/ MayCall("create_suspended"))
                       /\ NewThread(detach, suspended)
             \/ \E j \in ThreadIds : thread_resume(j) \/ thread_suspend(j)
    BY <2>1
    DEF NewThread, thread_resume, thread_suspend, scanVars, StartScan, Begins,
        TimedBlocks, Goes
  <2>2. CASE ThreadExit
    <3>1. Panic("main_exit") \/ (StartScan /\ UNCHANGED <<blocked_by, panic>> /\ Alive)
      BY <2>2 DEF ThreadExit
    <3>2. QED
      BY <1>2, <3>1 DEF Panics, StartScan, Begins, TimedBlocks, Goes
  <2>3. CASE (\E j \in ThreadIds : pthread_join(j) \/ pthread_detach(j)) \/ sleep \/ Preempt
    <3>1. /\ Alive /\ phase = "guest"
          /\ \/ \E r : Return(r)
             \/ Panic("join_main")
             \/ \E b, call : /\ Yield(b, call)
                             /\ \/ b = NotBlocked
                                \/ b = BlockOn("Sleeping", 0, "pending")
                                \/ \E j : b = BlockOn("Joining", j, "none")
      BY <2>3 DEF pthread_join, pthread_detach, sleep, Preempt
    <3>2. QED
      BY <1>1, <1>2, <1>3, <1>4, <3>1 DEF Panics
  <2>4. QED
    BY <1>9, <2>1, <2>2, <2>3
    DEF ThreadCall, pthread_create, pthread_create_suspended_np
<1>10. ASSUME Resume PROVE Goes
  <2>1. \/ /\ Alive /\ phase = "guest"
           /\ UNCHANGED <<scanVars, blocked_by, panic>>
        \/ Panic("cond_missing")
    BY <1>10 DEF Resume, ResumeLock, ResumeCond, ResumeSem, ResumeOther
  <2>2. QED
    BY <1>2, <2>1 DEF Panics, scanVars, Begins, TimedBlocks, Goes
<1>11. QED
  BY <1>6, <1>7, <1>8, <1>9, <1>10 DEF Goes

\* The scan passes over the candidate u, which may wait for its mutex from now
\* on; the threads that were stuck still are.
LEMMA SkipStuck ==
    ASSUME DeadlockInv, Scanning, phase' = "scan", scan_i' = scan_i + 1,
           UNCHANGED <<nthreads, current_thread>>,
           NEW u \in ThreadIds, u = Candidate,
           ~next_awakening' => /\ ~next_awakening
                               /\ Stuck(u)'
                               /\ \A t \in ThreadIds \ {u} : Stuck(t) => Stuck(t)'
    PROVE  ScanStuck'
<1> DEFINE at(k) == (current_thread + 1 + k) % nthreads
<1>1. /\ scan_i \in Nat
      /\ \A k \in Nat : at(k) \in ThreadIds
      /\ \A k : at(k)' = at(k)
  <2>1. /\ nthreads \in 1 .. MaxThreads /\ current_thread \in 0 .. nthreads - 1
        /\ scan_i \in 0 .. nthreads
    BY TypeParts DEF DeadlockInv, ThreadInv, SchedTypeOK, LiveThreads
  <2>2. QED
    BY <2>1, BoundsAssumption DEF ThreadIds
<1>2. at(scan_i) = u
  BY DEF Candidate
<1>3. ~next_awakening => \A k \in 0 .. scan_i - 1 : Stuck(at(k))
  BY DEF DeadlockInv, ScanStuck, Scanning
<1> HIDE DEF at
<1>4. ASSUME ~next_awakening', NEW k \in 0 .. scan_i PROVE Stuck(at(k))'
  <2>1. PICK t \in ThreadIds : t = at(k) /\ t = at(k)'
    BY <1>1, <1>4
  <2>2. t # u => Stuck(t)
    <3>1. t # u => k \in 0 .. scan_i - 1
      BY <1>1, <1>2, <1>4, <2>1
    <3>2. QED
      BY <1>3, <1>4, <2>1, <3>1
  <2>3. Stuck(t)'
    BY <1>4, <2>2
  <2>4. QED
    BY <2>1, <2>3
<1>5. QED
  BY <1>1, <1>4 DEF ScanStuck, at

\* A time-out leaves the mutex of its variable, and the other variables, as
\* they were.
LEMMA TimedOutAt ==
    ASSUME TypeOK
    PROVE  /\ conds \in [CondPtrs -> CondHostObject]
           /\ \A t : \A c \in CondPtrs :
                 /\ TimeOut(conds, c, t)[c].curr_mutex = conds[c].curr_mutex
                 /\ \A e \in CondPtrs \ {c} : TimeOut(conds, c, t)[e] = conds[e]
<1>1. conds \in [CondPtrs -> CondHostObject]
  BY TypeParts DEF CondTypeOK, CondMapOK
<1>2. ASSUME NEW t, NEW c \in CondPtrs
      PROVE  /\ TimeOut(conds, c, t)[c].curr_mutex = conds[c].curr_mutex
             /\ \A e \in CondPtrs \ {c} : TimeOut(conds, c, t)[e] = conds[e]
  <2>1. conds[c] \in CondHostObject /\ DOMAIN conds = CondPtrs
    BY <1>1
  <2>2. DOMAIN conds[c] = {"present", "waiting", "waking", "curr_mutex", "timed_out"}
    BY <2>1 DEF CondHostObject
  <2>3. QED
    BY <2>1, <2>2, Zenon DEF TimeOut
<1>3. QED
  BY <1>1, <1>2

\* A step of the scheduler.
LEMMA ScheduleStuck ==
    ASSUME DeadlockInv, Schedule
    PROVE  Timed' /\ ScanStuck' /\ NoFalseDeadlock'
<1>0. /\ TypeOK /\ Alive /\ phase = "scan" /\ Candidate \in ThreadIds
      /\ blocked_by \in [ThreadIds -> Block]
  <2>1. schedule_next_thread => Scanning \/ ScanEnd
    BY DEF schedule_next_thread, ScanInactive, ScanSuspended, ScanNotBlocked, ScanSleeping,
      ScanMutex, ScanSemaphore, ScanConditionLost, ScanConditionSignalled,
      ScanConditionTimedOut, ScanConditionWaiting, ConsidersCondition, ScanJoining,
      Considers
  <2>2. Alive /\ phase = "scan"
    BY <2>1 DEF Schedule, Scanning, ScanEnd
  <2>3. QED
    BY <2>2, TypeParts, LiveIds DEF DeadlockInv, ThreadInv, SchedTypeOK, BlocksOK
<1>1. PICK u \in ThreadIds : u = Candidate
  BY <1>0
<1>2. Timed
  BY DEF DeadlockInv
<1>3. ASSUME UNCHANGED blocked_by PROVE Timed'
  BY <1>2, <1>3 DEF Timed
<1>4. ASSUME Wake PROVE Timed' /\ ScanStuck' /\ NoFalseDeadlock'
  <2>1. blocked_by' = [blocked_by EXCEPT ![u] = NotBlocked] /\ NotBlocked.deadline = "none"
    BY <1>1, <1>4 DEF Wake, NotBlocked, BlockOn
  <2>2. Timed'
    BY <1>0, <1>2, <2>1 DEF Timed
  <2>3. phase' = "guest" /\ panic' = "none"
    BY <1>0, <1>4 DEF Wake, switch_thread, Alive
  <2>4. QED
    BY <2>2, <2>3 DEF ScanStuck, NoFalseDeadlock
<1>5. ASSUME NEW why, why \notin {"none", "deadlock"}, Panic(why)
      PROVE  Timed' /\ ScanStuck' /\ NoFalseDeadlock'
  BY <1>3, <1>5 DEF Panic, ScanStuck, NoFalseDeadlock, Alive
<1>6. ASSUME NEW timed, Skip(timed), Scanning, UNCHANGED <<mutexes, sems, conds>>,
             ~timed => Stuck(u)
      PROVE  Timed' /\ ScanStuck' /\ NoFalseDeadlock'
  <2>1. UNCHANGED <<active, suspend_count, blocked_by, mutexes, sems, conds, nthreads,
                    current_thread, phase, panic>>
        /\ scan_i' = scan_i + 1
        /\ next_awakening' = (next_awakening \/ timed)
    BY <1>6 DEF Skip, threadVars
  <2>2. \A t : Stuck(t)' <=> Stuck(t)
    BY <2>1 DEF Stuck, Eligible, CondReady
  <2>3. ScanStuck'
    BY <1>0, <1>1, <1>6, <2>1, <2>2, SkipStuck
  <2>4. QED
    BY <1>0, <1>3, <2>1, <2>3 DEF NoFalseDeadlock, Alive
<1>7. ASSUME NEW kind, Considers(kind)
      PROVE  /\ Scanning /\ active[u] /\ suspend_count[u] = 0 /\ blocked_by[u].kind = kind
             /\ kind \notin {"Sleeping", "Condition"} => blocked_by[u].deadline = "none"
  BY <1>1, <1>2, <1>7 DEF Considers, Timed
<1>8. CASE ScanInactive \/ ScanSuspended
  <2>1. Skip(FALSE) /\ Scanning /\ UNCHANGED <<mutexes, sems, conds>>
        /\ (~active[u] \/ suspend_count[u] > 0)
    BY <1>1, <1>8 DEF ScanInactive, ScanSuspended, mutexVars, semVars, condVars
  <2>2. Stuck(u)
    BY <2>1 DEF Stuck, Eligible
  <2>3. QED
    BY <1>6, <2>1, <2>2
<1>9. CASE ScanNotBlocked
  BY <1>4, <1>9 DEF ScanNotBlocked
<1>10. CASE ScanSleeping
  <2>1. UNCHANGED <<mutexes, sems, conds>> /\ Scanning /\ (Wake \/ Skip(TRUE))
    BY <1>10, <1>7 DEF ScanSleeping, mutexVars, semVars, condVars
  <2>2. QED
    BY <1>4, <1>6, <2>1
<1>11. CASE ScanMutex
  <2>0. /\ Scanning /\ blocked_by[u].kind = "Mutex" /\ blocked_by[u].deadline = "none"
    <3>1. Considers("Mutex")
      BY <1>11 DEF ScanMutex
    <3>2. QED
      BY <3>1, <1>7
  <2>1. /\ Scanning /\ blocked_by[u].kind = "Mutex" /\ blocked_by[u].deadline = "none"
        /\ \/ Wake
           \/ Panic("relock")
           \/ /\ mutex_is_locked(mutexes, blocked_by[u].obj)
              /\ Skip(FALSE) /\ UNCHANGED <<mutexes, sems, conds>>
    BY <1>1, <1>11, <2>0 DEF ScanMutex, semVars, condVars
  <2>2. mutex_is_locked(mutexes, blocked_by[u].obj) => Stuck(u)
    BY <2>1 DEF Stuck, Eligible
  <2>3. QED
    BY <1>4, <1>5, <1>6, <2>1, <2>2
<1>12. CASE ScanSemaphore
  <2>0. /\ Scanning /\ blocked_by[u].kind = "Semaphore" /\ blocked_by[u].deadline = "none"
    <3>1. Considers("Semaphore")
      BY <1>12 DEF ScanSemaphore
    <3>2. QED
      BY <3>1, <1>7
  <2>1. /\ Scanning /\ blocked_by[u].kind = "Semaphore" /\ blocked_by[u].deadline = "none"
        /\ \/ Wake
           \/ /\ sems[blocked_by[u].obj].open /\ sems[blocked_by[u].obj].value = 0
              /\ Skip(FALSE) /\ UNCHANGED <<mutexes, sems, conds>>
    BY <1>1, <1>12, <2>0 DEF ScanSemaphore, mutexVars, semVars, condVars
  <2>2. sems[blocked_by[u].obj].open /\ sems[blocked_by[u].obj].value = 0 => Stuck(u)
    BY <2>1 DEF Stuck, Eligible
  <2>3. QED
    BY <1>4, <1>6, <2>1, <2>2
<1>13. CASE ScanJoining
  <2>0. /\ Scanning /\ blocked_by[u].kind = "Joining" /\ blocked_by[u].deadline = "none"
    <3>1. Considers("Joining")
      BY <1>13 DEF ScanJoining
    <3>2. QED
      BY <3>1, <1>7
  <2>1. /\ Scanning /\ blocked_by[u].kind = "Joining" /\ blocked_by[u].deadline = "none"
        /\ \/ Wake
           \/ /\ active[blocked_by[u].obj]
              /\ Skip(FALSE) /\ UNCHANGED <<mutexes, sems, conds>>
    BY <1>1, <1>13, <2>0 DEF ScanJoining, mutexVars, semVars, condVars
  <2>2. active[blocked_by[u].obj] => Stuck(u)
    BY <2>1 DEF Stuck, Eligible
  <2>3. QED
    BY <1>4, <1>6, <2>1, <2>2
<1>14. CASE ScanConditionLost
  BY <1>5, <1>14 DEF ScanConditionLost
<1>15. CASE ScanConditionWaiting
  <2>1. /\ Scanning /\ blocked_by[u].kind = "Condition"
        /\ ~CondReady(u) /\ blocked_by[u].deadline # "passed"
        /\ Skip(blocked_by[u].deadline = "pending")
        /\ UNCHANGED <<mutexes, sems, conds>>
    BY <1>1, <1>15, <1>7
    DEF ScanConditionWaiting, ConsidersCondition, mutexVars, semVars, condVars
  <2>2. blocked_by[u].deadline # "pending" => blocked_by[u].deadline = "none"
    BY <1>0, <2>1 DEF Block, Deadlines
  <2>3. ~(blocked_by[u].deadline = "pending") => Stuck(u)
    BY <2>1, <2>2 DEF Stuck, Eligible
  <2>4. QED
    BY <1>6, <2>1, <2>3
<1>16. ASSUME NEW cs, NEW id, WakeWithMutex(cs, id)
       PROVE  Timed' /\ ScanStuck' /\ NoFalseDeadlock'
  BY <1>4, <1>5, <1>16 DEF WakeWithMutex
<1>17. CASE ScanConditionSignalled
  BY <1>16, <1>17 DEF ScanConditionSignalled
<1>18. CASE ScanConditionTimedOut
  <2> DEFINE c == blocked_by[u].obj
             id == conds[c].curr_mutex
  <2>1. CASE mutex_is_locked(mutexes, id)
    <3>1. /\ Scanning /\ BlockOnMutex(TimeOut(conds, c, u), id)
          /\ blocked_by[u].kind = "Condition"
          /\ UNCHANGED <<sems, mutexes, nthreads, active, suspend_count, current_thread,
                         phase, next_awakening, panic>>
          /\ scan_i' = scan_i + 1
          /\ conds' = TimeOut(conds, c, u)
          /\ blocked_by' = [blocked_by EXCEPT ![u] = BlockOn("Mutex", id, "none")]
      BY <1>1, <1>18, <2>1, <1>7
      DEF ScanConditionTimedOut, ConsidersCondition, BlockOnMutex, semVars, threadVars
    <3>2. /\ blocked_by'[u] = BlockOn("Mutex", id, "none")
          /\ \A t \in ThreadIds \ {u} : blocked_by'[t] = blocked_by[t]
      BY <1>0, <3>1
    <3>3. Stuck(u)'
      BY <2>1, <3>1, <3>2 DEF Stuck, Eligible, BlockOn
    <3>4. ASSUME NEW t \in ThreadIds \ {u}, Stuck(t) PROVE Stuck(t)'
      <4>1. blocked_by[t].kind = "Condition" /\ CondReady(t)' => CondReady(t)
        <5>1. c \in CondPtrs /\ conds \in [CondPtrs -> CondHostObject]
          <6>1. \A v \in ThreadIds : blocked_by[v].kind = "Condition" => blocked_by[v].obj \in CondPtrs
            BY <1>0, TypeParts DEF SchedTypeOK, BlocksOK, BlockOK
          <6>2. conds \in [CondPtrs -> CondHostObject]
            BY <1>0, TimedOutAt
          <6>3. QED
            BY <1>0, <3>1, <6>1, <6>2
        <5>2. /\ conds'[c].curr_mutex = id
              /\ \A e \in CondPtrs \ {c} : conds'[e] = conds[e]
          <6>1. conds' = TimeOut(conds, c, u)
            BY <3>1
          <6>2. QED
            BY <1>0, <5>1, <6>1, TimedOutAt
        <5>3. blocked_by[t].kind = "Condition" => blocked_by[t].obj \in CondPtrs
          BY <1>0, TypeParts DEF SchedTypeOK, BlocksOK, BlockOK
        <5>4. QED
          BY <2>1, <3>1, <3>2, <5>2, <5>3 DEF CondReady, IsFrontWaking
      <4>2. QED
        BY <3>1, <3>2, <3>4, <4>1 DEF Stuck, Eligible
    <3>5. ScanStuck'
      <4>1. \A t \in ThreadIds \ {u} : Stuck(t) => Stuck(t)'
        BY <3>4
      <4>2. QED
        BY <1>0, <1>1, <3>1, <3>3, <4>1, SkipStuck
    <3>6. Timed'
      BY <1>2, <3>2 DEF Timed, BlockOn
    <3>7. QED
      BY <1>0, <3>1, <3>5, <3>6 DEF NoFalseDeadlock, Alive
  <2>2. CASE ~mutex_is_locked(mutexes, id)
    BY <1>1, <1>16, <1>18, <2>2 DEF ScanConditionTimedOut
  <2>3. QED
    BY <2>1, <2>2
<1>19. CASE ScanEnd
  <2>1. CASE next_awakening
    BY <1>0, <1>3, <1>19, <2>1 DEF ScanEnd, ScanStuck, NoFalseDeadlock, Alive
  <2>2. CASE ~next_awakening
    <3>1. /\ scan_i = nthreads /\ Panic("deadlock")
          /\ UNCHANGED <<active, suspend_count, blocked_by, mutexes, sems, conds>>
      BY <1>19, <2>2 DEF ScanEnd, Panic, threadVars, mutexVars, semVars, condVars
    <3>2. \A t \in LiveThreads : Stuck(t)
      <4>1. /\ nthreads \in 1 .. MaxThreads /\ current_thread \in 0 .. nthreads - 1
        BY <1>0, TypeParts DEF SchedTypeOK, LiveThreads
      <4>2. \A k \in 0 .. nthreads - 1 : Stuck((current_thread + 1 + k) % nthreads)
        BY <1>0, <2>2, <3>1 DEF DeadlockInv, ScanStuck
      <4>3. ASSUME NEW t \in LiveThreads
            PROVE  \E k \in 0 .. nthreads - 1 : (current_thread + 1 + k) % nthreads = t
        <5> DEFINE n == nthreads
                   k == IF t > current_thread THEN t - current_thread - 1
                        ELSE t + n - current_thread - 1
        <5>1. /\ n \in Nat \ {0} /\ t \in 0 .. n - 1 /\ current_thread \in 0 .. n - 1
          BY <4>1, BoundsAssumption DEF LiveThreads
        <5>2. k \in 0 .. n - 1
          BY <5>1
        <5>3. current_thread + 1 + k = t \/ current_thread + 1 + k = t + n
          BY <5>1
        <5>4. t % n = t /\ (t + n) % n = t
          BY <5>1
        <5>5. QED
          BY <5>2, <5>3, <5>4
      <4>4. QED
        BY <4>2, <4>3
    <3>3. \A t \in ThreadIds \ LiveThreads : ~active[t]
      BY DEF DeadlockInv, ThreadInv, UnbornBlank
    <3>4. \A t \in ThreadIds : Stuck(t)
      BY <3>2, <3>3 DEF Stuck, Eligible
    <3>5. \A t \in ThreadIds : Stuck(t)'
      BY <3>1, <3>4 DEF Stuck, Eligible, CondReady
    <3>6. Timed' /\ ScanStuck'
      BY <1>3, <3>1 DEF Panic, ScanStuck, Alive
    <3>7. QED
      BY <3>5, <3>6 DEF NoFalseDeadlock, Stuck
  <2>3. QED
    BY <2>1, <2>2
<1>20. QED
  BY <1>8, <1>9, <1>10, <1>11, <1>12, <1>13, <1>14, <1>15, <1>17, <1>18, <1>19
  DEF Schedule, schedule_next_thread

\* The clock wakes no thread that is stuck.
LEMMA ClockStuck ==
    ASSUME DeadlockInv, Clock
    PROVE  Timed' /\ ScanStuck' /\ NoFalseDeadlock'
<1>1. PICK u \in ThreadIds : Expire(u)
  BY DEF Clock
<1>2. /\ Alive /\ blocked_by[u].deadline = "pending" /\ blocked_by \in [ThreadIds -> Block]
      /\ UNCHANGED <<active, suspend_count, nthreads, current_thread, phase, scan_i,
                     next_awakening, panic, mutexes, sems, conds>>
  BY <1>1, TypeParts
  DEF Expire, threadVars, scanVars, mutexVars, semVars, condVars, DeadlockInv, ThreadInv,
      SchedTypeOK, BlocksOK
<1>3. \A t \in ThreadIds :
         /\ blocked_by'[t].kind = blocked_by[t].kind
         /\ blocked_by'[t].obj = blocked_by[t].obj
         /\ t # u => blocked_by'[t] = blocked_by[t]
  BY <1>1, <1>2 DEF Expire, Block
<1>4. Timed'
  BY <1>2, <1>3 DEF DeadlockInv, Timed
<1>5. ASSUME NEW t \in ThreadIds, Stuck(t) PROVE Stuck(t)'
  <2>1. t = u => ~active[t] \/ suspend_count[t] # 0
    BY <1>2, <1>5 DEF Stuck
  <2>2. CondReady(t)' <=> CondReady(t)
    BY <1>2, <1>3 DEF CondReady
  <2>3. QED
    BY <1>2, <1>3, <1>5, <2>1, <2>2 DEF Stuck, Eligible
<1>6. ScanStuck'
  <2>1. \A k \in 0 .. scan_i - 1 : (current_thread + 1 + k) % nthreads \in ThreadIds
    <3>1. /\ nthreads \in 1 .. MaxThreads /\ current_thread \in 0 .. nthreads - 1
          /\ scan_i \in 0 .. nthreads
      BY TypeParts DEF DeadlockInv, ThreadInv, SchedTypeOK, LiveThreads
    <3>2. QED
      BY <3>1, BoundsAssumption DEF ThreadIds
  <2>2. ASSUME Alive', phase' = "scan", ~next_awakening', NEW k \in 0 .. scan_i' - 1
        PROVE  Stuck((current_thread + 1 + k) % nthreads)'
    <3>1. PICK t \in ThreadIds : /\ t = (current_thread + 1 + k) % nthreads
                                 /\ t = ((current_thread + 1 + k) % nthreads)'
      BY <1>2, <2>1, <2>2
    <3>2. Stuck(t)
      BY <1>2, <2>2, <3>1 DEF DeadlockInv, ScanStuck
    <3>3. QED
      BY <1>5, <3>1, <3>2
  <2>3. QED
    BY <2>2 DEF ScanStuck
<1>7. QED
  BY <1>2, <1>4, <1>6 DEF NoFalseDeadlock, Alive

LEMMA DeadlockInvariance == Spec => []DeadlockInv
<1>1. Init => DeadlockInv
  BY InitThreads
  DEF Init, SchedInit, DeadlockInv, Timed, NotBlocked, BlockOn, ScanStuck, NoFalseDeadlock
<1>2. DeadlockInv /\ [Next]_vars => DeadlockInv'
  <2> SUFFICES ASSUME DeadlockInv, [Next]_vars PROVE DeadlockInv'
    OBVIOUS
  <2>0. ThreadInv'
    <3>1. TypeOK' /\ ThreadStep /\ ThreadInv
      BY NextType, NextIsThreadStep DEF DeadlockInv, ThreadInv
    <3>2. QED
      BY <3>1, ContextStep, RunnableStep, FinishedStep DEF ThreadInv
  <2>1. CASE UNCHANGED vars
    <3>1. UNCHANGED <<active, suspend_count, blocked_by, mutexes, sems, conds, panic, phase,
                      scan_i, next_awakening, nthreads, current_thread>>
      BY <2>1 DEF vars, schedVars, threadVars, scanVars, mutexVars, semVars, condVars
    <3>2. \A t : Stuck(t)' <=> Stuck(t)
      BY <3>1 DEF Stuck, Eligible, CondReady
    <3>3. ScanStuck'
      BY <3>1, <3>2 DEF DeadlockInv, ScanStuck, Alive
    <3>4. Timed' /\ NoFalseDeadlock'
      BY <3>1, <3>2 DEF DeadlockInv, Timed, NoFalseDeadlock, Stuck
    <3>5. QED
      BY <2>0, <3>3, <3>4 DEF DeadlockInv
  <2>2. CASE Begins /\ TimedBlocks
    <3>1. Timed'
      <4>1. blocked_by \in [ThreadIds -> Block] /\ Timed
        BY TypeParts DEF DeadlockInv, ThreadInv, SchedTypeOK, BlocksOK
      <4>2. QED
        BY <2>2, <4>1 DEF TimedBlocks, Timed
    <3>2. ScanStuck' /\ NoFalseDeadlock'
      BY <2>2 DEF Begins, ScanStuck, NoFalseDeadlock, Alive
    <3>3. QED
      BY <2>0, <3>1, <3>2 DEF DeadlockInv
  <2>3. CASE Schedule
    BY <2>0, <2>3, ScheduleStuck DEF DeadlockInv
  <2>4. CASE Clock
    BY <2>0, <2>4, ClockStuck DEF DeadlockInv
  <2>5. TypeOK
    BY DEF DeadlockInv, ThreadInv
  <2>6. QED
    BY <2>1, <2>2, <2>3, <2>4, <2>5, GuestSteps DEF Next, Halted
<1>3. QED
  BY <1>1, <1>2, PTL DEF Spec

\* "No active threads, program has deadlocked!" is said only when no thread
\* can go on, now or later (schedule_next_thread).
THEOREM DeadlockIsReal == Spec => []NoFalseDeadlock
BY DeadlockInvariance, PTL DEF DeadlockInv

(***************************************************************************)
(* The words in guest memory and the host's map                            *)
(***************************************************************************)
\* With map ms, next identifier n and words w: a live word names a mutex of
\* its own, any other word names none; identifiers are used in order, and
\* nothing is left of a mutex that has been destroyed.
WordsOK(ms, n, w) ==
    /\ \A p \in MutexPtrs :
          IF w[p].magic = "MUTX"
          THEN /\ Exists(ms, w[p].id)
               /\ \A q \in MutexPtrs \ {p} : w[q].id # w[p].id
          ELSE w[p].id = NoMutex
    /\ \A id \in MutexIds :
          IF Exists(ms, id) THEN id < n ELSE ms[id] = Free("absent")

WordsInv == WordsOK(mutexes, mutex_count, mutex_word)

WordsTyped(w) ==
    /\ w \in [MutexPtrs -> MutexWord]
    /\ \A p \in MutexPtrs : w[p].magic = "MUTX" => w[p].id \in MutexIds

\* A new mutex gets an identifier that no word has.
LEMMA NewWord ==
    ASSUME NEW ms, MutexMapOK(ms), NEW n \in MutexIds, NEW w, WordsTyped(w),
           WordsOK(ms, n, w), NEW p \in MutexPtrs, NEW type \in MutexTypes
    PROVE  /\ WordsOK(init_mutex(ms, n, type), n + 1,
                      [w EXCEPT ![p] = [magic |-> "MUTX", id |-> n]])
           /\ ~Exists(ms, n)
<1> DEFINE new == init_mutex(ms, n, type)
           w2 == [w EXCEPT ![p] = [magic |-> "MUTX", id |-> n]]
<1>1. /\ MutexIds \subseteq Nat /\ NoMutex \notin MutexIds /\ "absent" \notin MutexTypes
  BY BoundsAssumption DEF MutexIds, NoMutex, MutexTypes
<1>2. ~Exists(ms, n)
  BY <1>1 DEF WordsOK
<1>3. new[n].type = type /\ \A id \in MutexIds \ {n} : new[id] = ms[id]
  BY MutexEffects DEF Sets
<1>4. /\ w2[p] = [magic |-> "MUTX", id |-> n]
      /\ \A q \in MutexPtrs \ {p} : w2[q] = w[q]
  BY DEF WordsTyped
<1>5. \A q \in MutexPtrs : w[q].id # n
  BY <1>1, <1>2 DEF WordsOK, WordsTyped
<1> HIDE DEF new, w2
<1>6. ASSUME NEW q \in MutexPtrs
      PROVE  IF w2[q].magic = "MUTX"
             THEN /\ Exists(new, w2[q].id)
                  /\ \A r \in MutexPtrs \ {q} : w2[r].id # w2[q].id
             ELSE w2[q].id = NoMutex
  <2>1. CASE q = p
    <3>1. Exists(new, n)
      BY <1>1, <1>3 DEF Exists
    <3>2. QED
      BY <1>4, <1>5, <2>1, <3>1
  <2>2. CASE q # p /\ w[q].magic = "MUTX"
    <3>1. /\ w2[q] = w[q] /\ w[q].id \in MutexIds \ {n} /\ Exists(ms, w[q].id)
          /\ \A r \in MutexPtrs \ {q} : w[r].id # w[q].id
      BY <1>4, <1>5, <2>2 DEF WordsOK, WordsTyped
    <3>2. Exists(new, w[q].id)
      BY <1>3, <3>1 DEF Exists
    <3>3. QED
      BY <1>4, <2>2, <3>1, <3>2
  <2>3. CASE q # p /\ w[q].magic # "MUTX"
    BY <1>4, <2>3 DEF WordsOK
  <2>4. QED
    BY <2>1, <2>2, <2>3
<1>7. ASSUME NEW id \in MutexIds
      PROVE  IF Exists(new, id) THEN id < n + 1 ELSE new[id] = Free("absent")
  BY <1>1, <1>3 DEF WordsOK, Exists
<1>8. QED
  BY <1>2, <1>6, <1>7 DEF WordsOK, new, w2

\* What the first use of a mutex leaves: the map ms, in which the mutex of p
\* exists, and the words, which name it.
LEMMA FirstUse ==
    ASSUME TypeOK, WordsInv, NEW p \in MutexPtrs, check_or_register_mutex(p)
    PROVE  LET w == [mutex_word EXCEPT
                       ![p] = [magic |-> "MUTX", id |-> MutexOf(p)]]
           IN  /\ MutexOf(p) \in MutexIds
               /\ MutexMapOK(MutexesAt(p))
               /\ WordsTyped(w)
               /\ WordsOK(MutexesAt(p), mutex_count', w)
               /\ Exists(MutexesAt(p), MutexOf(p))
               /\ \A q \in MutexPtrs \ {p} : w[q].id # MutexOf(p)
<1> DEFINE w == [mutex_word EXCEPT ![p] = [magic |-> "MUTX", id |-> MutexOf(p)]]
<1>0. /\ WordsTyped(mutex_word) /\ MutexMapOK(mutexes) /\ "NORMAL" \in MutexTypes
      /\ MutexOf(p) \in MutexIds /\ MutexMapOK(MutexesAt(p))
  BY TypeParts, RegisterType DEF WordTypeOK, WordsTyped, MutexTypeOK, MutexTypes
<1>1. WordsTyped(w) /\ w[p] = [magic |-> "MUTX", id |-> MutexOf(p)]
  BY <1>0 DEF WordsTyped, MutexWord
<1>2. CASE IsStatic(p)
  <2>1. /\ mutex_count \in MutexIds /\ mutex_count' = mutex_count + 1
        /\ MutexOf(p) = mutex_count
        /\ MutexesAt(p) = init_mutex(mutexes, mutex_count, "NORMAL")
    BY <1>0, <1>2 DEF check_or_register_mutex, MutexOf, MutexesAt
  <2>2. WordsOK(MutexesAt(p), mutex_count', w)
    BY <1>0, <2>1, NewWord DEF WordsInv
  <2>3. QED
    BY <1>0, <1>1, <2>2 DEF WordsOK
<1>3. CASE ~IsStatic(p)
  <2>1. /\ mutex_word[p].magic = "MUTX" /\ MutexOf(p) = mutex_word[p].id
        /\ MutexesAt(p) = mutexes /\ mutex_count' = mutex_count
    BY <1>3 DEF check_or_register_mutex, MutexKnown, IsStatic, MutexOf, MutexesAt
  <2>2. mutex_word[p] = [magic |-> "MUTX", id |-> MutexOf(p)]
    BY <1>0, <2>1 DEF WordsTyped, MutexWord
  <2>3. w = mutex_word
    BY <1>0, <2>2 DEF WordsTyped
  <2>4. QED
    BY <1>0, <1>1, <2>1, <2>3 DEF WordsInv, WordsOK
<1>4. QED
  BY <1>2, <1>3

\* An operation on a mutex that exists and goes on existing.
LEMMA SameWords ==
    ASSUME NEW ms, NEW n, NEW w, WordsTyped(w), WordsOK(ms, n, w),
           NEW id \in MutexIds, Exists(ms, id), NEW new,
           NEW waiting, NEW by, NEW count,
           Sets(ms, new, id, ms[id].type, waiting, by, count)
    PROVE  WordsOK(new, n, w) /\ Exists(new, id)
<1>1. \A j \in MutexIds : /\ Exists(new, j) <=> Exists(ms, j)
                          /\ ~Exists(ms, j) => new[j] = ms[j]
  BY DEF Sets, Exists
<1>2. Exists(new, id)
  BY <1>1
<1>3. \A p \in MutexPtrs : w[p].magic = "MUTX" => w[p].id \in MutexIds
  BY DEF WordsTyped
<1>4. QED
  BY <1>1, <1>2, <1>3 DEF WordsOK

\* Destroying the mutex that the word at p names, or failing to: the word is
\* gone either way.
LEMMA WordLost ==
    ASSUME NEW ms, MutexMapOK(ms), NEW n, NEW w, WordsTyped(w), WordsOK(ms, n, w),
           NEW p \in MutexPtrs, w[p].magic = "MUTX"
    PROVE  LET gone == [w EXCEPT ![p] = [magic |-> "JUNK", id |-> NoMutex]]
           IN  /\ WordsOK(ms, n, gone)
               /\ WordsOK(destroy_mutex(ms, w[p].id), n, gone)
<1> DEFINE id == w[p].id
           gone == [w EXCEPT ![p] = [magic |-> "JUNK", id |-> NoMutex]]
           new == destroy_mutex(ms, id)
<1>1. /\ gone[p] = [magic |-> "JUNK", id |-> NoMutex]
      /\ \A q \in MutexPtrs \ {p} : gone[q] = w[q]
      /\ id \in MutexIds /\ NoMutex \notin MutexIds
      /\ \A q \in MutexPtrs \ {p} : w[q].id # id
  BY BoundsAssumption DEF WordsTyped, WordsOK, MutexIds, NoMutex
<1>2. /\ new[id] = Free("absent") /\ ~Exists(new, id)
      /\ \A j \in MutexIds \ {id} : new[j] = ms[j]
  BY <1>1 DEF destroy_mutex, MutexMapOK, Exists, Free
<1> HIDE DEF id, gone, new
<1>3. ASSUME NEW q \in MutexPtrs, gone[q].magic = "MUTX"
      PROVE  /\ q # p /\ gone[q] = w[q] /\ w[q].id \in MutexIds \ {id}
             /\ Exists(ms, w[q].id)
             /\ \A r \in MutexPtrs \ {q} : gone[r].id # gone[q].id
  <2>1. q # p /\ gone[q] = w[q] /\ w[q].id \in MutexIds \ {id}
    BY <1>1, <1>3 DEF WordsTyped
  <2>2. QED
    BY <1>1, <1>3, <2>1 DEF WordsOK
<1>4. \A q \in MutexPtrs : gone[q].magic # "MUTX" => gone[q].id = NoMutex
  BY <1>1 DEF WordsOK
<1>5. WordsOK(ms, n, gone)
  BY <1>3, <1>4 DEF WordsOK
<1>6. \A j \in MutexIds : Exists(new, j) <=> Exists(ms, j) /\ j # id
  BY <1>2 DEF Exists
<1>7. WordsOK(new, n, gone)
  BY <1>2, <1>3, <1>4, <1>5, <1>6 DEF WordsOK
<1>8. QED
  BY <1>5, <1>7 DEF id, gone, new

\* lock_mutex keeps the mutexes there are.
LEMMA LockWords ==
    ASSUME NEW ms, MutexMapOK(ms), NEW n, NEW w, WordsTyped(w), WordsOK(ms, n, w),
           NEW id \in MutexIds, Exists(ms, id), lock_mutex(ms, id)
    PROVE  WordsOK(mutexes', n, w)
BY MutexEffects, SameWords DEF lock_mutex

\* So does handing a mutex over.
LEMMA RelockWords ==
    ASSUME TypeOK, WordsInv, NEW id \in MutexIds, Exists(mutexes, id), NEW t,
           mutexes' = relock(mutexes, id, t), UNCHANGED <<mutex_count, mutex_word>>
    PROVE  WordsInv'
<1>1. MutexMapOK(mutexes) /\ WordsTyped(mutex_word)
  BY TypeParts DEF MutexTypeOK, WordTypeOK, WordsTyped
<1>2. WordsOK(mutexes', mutex_count, mutex_word)
  BY <1>1, MutexEffects, SameWords DEF WordsInv
<1>3. QED
  BY <1>2 DEF WordsInv

\* Words are left alone by all but the calls on mutexes, waiting for a
\* condition and the scheduler.
WordsKept == UNCHANGED <<mutexVars, mutex_word>>

LEMMA WordsFrame ==
    ASSUME WordsInv, WordsKept
    PROVE  WordsInv'
BY DEF WordsInv, WordsKept, mutexVars, WordsOK, Exists

\* The calls on mutexes keep the words right.
LEMMA MutexCallWords ==
    ASSUME TypeOK, WordsInv, NEW p \in MutexPtrs, MutexCall(p)
    PROVE  WordsInv'
<1> DEFINE ms == MutexesAt(p)
           id == MutexOf(p)
           w  == [mutex_word EXCEPT ![p] = [magic |-> "MUTX", id |-> id]]
<1>1. ASSUME check_or_register_mutex(p)
      PROVE  /\ id \in MutexIds /\ MutexMapOK(ms) /\ WordsTyped(w)
             /\ WordsOK(ms, mutex_count', w) /\ Exists(ms, id)
  BY <1>1, FirstUse
<1>2. ASSUME check_or_register_mutex(p), WriteWord(p, "MUTX", id),
             WordsOK(mutexes', mutex_count', w)
      PROVE  WordsInv'
  BY <1>2 DEF WordsInv, WriteWord
<1> HIDE DEF ms, id, w
<1>3. CASE MutexInvalid(p)
  BY <1>3, WordsFrame DEF MutexInvalid, WordsKept, pthreadVars
<1>4. ASSUME NEW type \in GuestMutexTypes, pthread_mutex_init(p, type)
      PROVE  WordsInv'
  <2>1. /\ mutex_count \in MutexIds /\ type \in MutexTypes
        /\ MutexMapOK(mutexes) /\ WordsTyped(mutex_word)
    BY <1>4, TypeParts, BoundsAssumption, GuestAssumption
    DEF pthread_mutex_init, MutexTypeOK, WordTypeOK, WordsTyped, MutexIds
  <2>2. QED
    BY <1>4, <2>1, NewWord DEF pthread_mutex_init, WordsInv, WriteWord
<1>5. CASE pthread_mutex_lock(p)
  BY <1>1, <1>2, <1>5, LockWords DEF pthread_mutex_lock, ms, id
<1>6. CASE pthread_mutex_trylock(p)
  BY <1>1, <1>2, <1>6, LockWords DEF pthread_mutex_trylock, ms, id
<1>7. CASE pthread_mutex_unlock(p)
  <2>1. /\ check_or_register_mutex(p) /\ WriteWord(p, "MUTX", id)
        /\ mutexes' \in {ms, unlock_mutex(ms, id)}
    BY <1>7 DEF pthread_mutex_unlock, ms, id
  <2>2. WordsOK(mutexes', mutex_count', w)
    BY <1>1, <2>1, MutexEffects, SameWords
  <2>3. QED
    BY <1>2, <2>1, <2>2
<1>8. CASE pthread_mutex_destroy(p)
  <2>1. /\ check_or_register_mutex(p) /\ WriteWord(p, "JUNK", NoMutex)
        /\ mutexes' \in {ms, destroy_mutex(ms, id)}
    BY <1>8 DEF pthread_mutex_destroy, ms, id
  <2>2. w[p] = [magic |-> "MUTX", id |-> id]
    BY TypeParts DEF w, WordTypeOK
  <2>3. mutex_word' = [w EXCEPT ![p] = [magic |-> "JUNK", id |-> NoMutex]]
    BY <2>1, TypeParts DEF w, WriteWord, WordTypeOK
  <2>4. w[p].magic = "MUTX" /\ w[p].id = id
    BY <2>2
  <2>5. /\ WordsOK(ms, mutex_count', mutex_word')
        /\ WordsOK(destroy_mutex(ms, id), mutex_count', mutex_word')
    BY <1>1, <2>1, <2>3, <2>4, WordLost
  <2>6. QED
    BY <2>1, <2>5 DEF WordsInv
<1>9. QED
  BY <1>3, <1>4, <1>5, <1>6, <1>7, <1>8 DEF MutexCall

\* Waiting for a condition unlocks a mutex, and may register it first.
LEMMA CondWaitWords ==
    ASSUME TypeOK, WordsInv, NEW fn, NEW c, NEW p \in MutexPtrs, NEW d,
           CondWait(fn, c, p, d)
    PROVE  WordsInv'
<1> DEFINE ms == MutexesAt(p)
           id == MutexOf(p)
           w  == [mutex_word EXCEPT ![p] = [magic |-> "MUTX", id |-> id]]
<1>1. /\ id \in MutexIds /\ MutexMapOK(ms) /\ WordsTyped(w)
      /\ WordsOK(ms, mutex_count', w) /\ Exists(ms, id)
      /\ mutex_word' = w
  BY FirstUse DEF CondWait, WriteWord
<1>2. CASE mutexes' \in {ms, unlock_mutex(ms, id)}
  <2>1. WordsOK(mutexes', mutex_count', w)
    BY <1>1, <1>2, MutexEffects, SameWords
  <2>2. QED
    BY <1>1, <2>1 DEF WordsInv
\* A mutex registered just now is not locked, so that the call is refused.
<1>3. CASE ~unlock_refused(ms, id, current_thread) /\ UNCHANGED mutexes
  <2>1. ~IsStatic(p)
    BY <1>1, <1>3, TypeParts, BoundsAssumption
    DEF IsStatic, MutexOf, MutexesAt, init_mutex, unlock_refused,
        mutex_is_locked, Free, MutexTypeOK, MutexMapOK
  <2>2. QED
    BY <1>1, <1>3, <2>1 DEF WordsInv, MutexesAt
<1>4. QED
  BY <1>2, <1>3 DEF CondWait

\* The words are right after any step.
LEMMA WordsStep ==
    ASSUME TypeOK, WordsInv, [Next]_vars
    PROVE  WordsInv'
<1> USE DEF WordsKept, pthreadVars
<1>1. CASE UNCHANGED vars
  BY <1>1, WordsFrame DEF vars
<1>2. ASSUME NEW p \in MutexPtrs, MutexCall(p) PROVE WordsInv'
  BY <1>2, MutexCallWords
<1>3. ASSUME NEW c \in CondPtrs, CondCall(c) PROVE WordsInv'
  <2>1. ASSUME NEW p \in MutexPtrs, pthread_cond_wait(c, p) \/ pthread_cond_timedwait(c, p)
        PROVE  WordsInv'
    BY <2>1, CondWaitWords DEF pthread_cond_wait, pthread_cond_timedwait
  <2>2. CASE CondInvalid(c) \/ pthread_cond_init(c) \/ \E p \in MutexPtrs : CondWaitInvalid(c, p)
    BY <2>2, WordsFrame DEF CondInvalid, pthread_cond_init, CondWaitInvalid
  <2>3. CASE pthread_cond_signal(c) \/ pthread_cond_broadcast(c) \/ pthread_cond_destroy(c)
    BY <2>3, WordsFrame, Zenon
    DEF pthread_cond_signal, pthread_cond_broadcast, pthread_cond_destroy, OnCond
  <2>4. QED
    BY <1>3, <2>1, <2>2, <2>3 DEF CondCall
<1>4. ASSUME NEW s \in SemPtrs, SemCall(s) PROVE WordsInv'
  BY <1>4, WordsFrame
  DEF SemCall, sem_init, sem_destroy, sem_post, sem_wait, sem_trywait
<1>5. CASE ThreadCall
  BY <1>5, WordsFrame, Zenon
  DEF ThreadCall, pthread_create, pthread_create_suspended_np, NewThread,
      ThreadExit, pthread_join, pthread_detach, thread_suspend, thread_resume,
      sleep, Preempt
<1>6. CASE Resume
  BY <1>6, WordsFrame, Zenon
  DEF Resume, ResumeLock, ResumeCond, ResumeSem, ResumeOther
<1>7. CASE Schedule
  <2>1. CASE ScanMutex
    <3>1. blocked_by[Candidate].kind = "Mutex" /\ Candidate \in ThreadIds
      BY <2>1, LiveIds, TypeParts DEF ScanMutex, Considers
    <3>2. blocked_by[Candidate].obj \in MutexIds
      BY <3>1, TypeParts DEF SchedTypeOK, BlocksOK, BlockOK
    <3>3. QED
      BY <1>7, <2>1, <3>2, RelockWords, WordsFrame DEF ScanMutex, Schedule, mutexVars
  <2>2. ASSUME NEW cs, ConsidersCondition, UNCHANGED mutex_count,
               WakeWithMutex(cs, conds[blocked_by[Candidate].obj].curr_mutex)
        PROVE  WordsInv'
    <3>1. conds[blocked_by[Candidate].obj].curr_mutex \in MutexIds
      <4>1. blocked_by[Candidate].kind = "Condition" /\ Candidate \in ThreadIds
        BY <2>2, LiveIds, TypeParts DEF ConsidersCondition, Considers
      <4>2. blocked_by[Candidate].obj \in CondPtrs
        BY <4>1, TypeParts DEF SchedTypeOK, BlocksOK, BlockOK
      <4>3. QED
        BY <2>2, <4>2, TypeParts
        DEF ConsidersCondition, CondTypeOK, CondMapOK, CondHostObject
    <3>2. QED
      BY <1>7, <2>2, <3>1, RelockWords, WordsFrame DEF WakeWithMutex, Schedule, mutexVars
  <2>3. CASE ScanConditionSignalled
    BY <2>2, <2>3 DEF ScanConditionSignalled
  <2>4. CASE ScanConditionTimedOut
    BY <1>7, <2>2, <2>4, WordsFrame
    DEF ScanConditionTimedOut, BlockOnMutex, Schedule, mutexVars
  <2>5. CASE ~ (ScanMutex \/ ScanConditionSignalled \/ ScanConditionTimedOut)
    BY <1>7, <2>5, WordsFrame, Zenon
    DEF Schedule, schedule_next_thread, ScanInactive, ScanSuspended, ScanNotBlocked,
        ScanSleeping, ScanSemaphore, ScanConditionLost, ScanConditionWaiting,
        ScanJoining, ScanEnd
  <2>6. QED
    BY <2>1, <2>3, <2>4, <2>5
<1>8. CASE Clock
  BY <1>8, WordsFrame DEF Clock, Expire
<1>9. QED
  BY <1>1, <1>2, <1>3, <1>4, <1>5, <1>6, <1>7, <1>8 DEF Next, Halted

\* At first no word names a mutex.
LEMMA InitWords == Init => WordsInv
<1> SUFFICES ASSUME Init PROVE WordsInv
  OBVIOUS
<1>1. \A p \in MutexPtrs : mutex_word[p].magic # "MUTX" /\ mutex_word[p].id = NoMutex
  BY CondAssumption DEF Init, WordInit
<1>2. \A id \in MutexIds : mutexes[id] = Free("absent")
  BY DEF Init, MutexInit
<1>3. QED
  BY <1>1, <1>2 DEF WordsInv, WordsOK, Exists, Free

(***************************************************************************)
(* The inductive invariant                                                 *)
(***************************************************************************)
CondFns == {"cond_wait", "cond_timedwait"}
LockingFns == {"lock", "cond_wait", "cond_timedwait"}

\* The mutex that a thread holds when this call of its has returned.
Target(call) == IF call.fn = "lock" THEN call.obj ELSE call.mutex

Waits(t, c) == pending[t].fn \in CondFns /\ pending[t].obj = c

\* Not the thread that executes.
Parked(t) == phase = "scan" \/ t # current_thread

\* The ways a thread in this call can be blocked.
Matches(call, b) ==
    \/ call.fn \in LockingFns /\ b = BlockOn("Mutex", Target(call), "none")
    \/ /\ call.fn \in CondFns
       /\ b.kind = "Condition" /\ b.obj = call.obj
       /\ call.fn = "cond_wait" => b.deadline = "none"
    \/ /\ call.fn = "sem_wait" /\ call.mutex = NoMutex
       /\ b = BlockOn("Semaphore", call.obj, "none")
    \/ /\ call.fn \in {"join", "sleep", "suspend", "none"}
       /\ b.kind \in {"Joining", "Sleeping", "NotBlocked"}

CallsMatch == \A t \in ThreadIds : Parked(t) => Matches(pending[t], blocked_by[t])

\* The mutex a thread is going to hold exists.
CallsExist ==
    \A t \in ThreadIds :
        pending[t].fn \in LockingFns => Exists(mutexes, Target(pending[t]))

\* t runs again, has been given the mutex, and its call has not returned.
AboutToHold(t, id) ==
    /\ ~Parked(t)
    /\ pending[t].fn \in LockingFns
    /\ Target(pending[t]) = id

\* The locks that a thread has obtained are those that the host has for it,
\* but for the one that its call is about to return with.
HoldsMatch ==
    /\ \A t \in ThreadIds, id \in MutexIds :
          /\ holds[t][id] = IF mutexes[id].locked_by = t /\ ~AboutToHold(t, id)
                            THEN mutexes[id].lock_count ELSE 0
          /\ AboutToHold(t, id) => /\ mutexes[id].locked_by = t
                                   /\ mutexes[id].lock_count = 1
    /\ \A id \in MutexIds :
          mutexes[id].type # "RECURSIVE" => mutexes[id].lock_count <= 1

\* Waiters are counted until a condition variable is used.
Counted == (\A c \in CondPtrs : cond_word[c] # "COND") => WaitersCounted

\* The two queues hold the threads of B, each of them once.
Queues(waiting, waking, B) ==
    /\ Once(waiting) /\ Once(waking)
    /\ \A t \in ThreadIds :
          /\ ~(InQueue(waiting, t) /\ InQueue(waking, t))
          /\ InQueue(waiting, t) \/ InQueue(waking, t) <=> t \in B

\* The host object v of condition variable c queues the threads blocked on it.
AtCond(c) == {t \in ThreadIds : BlockedOn(t, "Condition", c)}

QueuesExact(v, c) == Queues(v.waiting, v.waking, AtCond(c))

\* A thread waits for a variable that exists, for the mutex it released.
CondsMatch ==
    \A t \in ThreadIds, c \in CondPtrs :
        Waits(t, c) => /\ conds[c].present
                       /\ cond_word[c] = "COND"
                       /\ blocked_by[t].kind = "Condition" =>
                              conds[c].curr_mutex = pending[t].mutex

CondsExact ==
    /\ CondsMatch
    /\ \A c \in CondPtrs : QueuesExact(conds[c], c)
    /\ TimedOutFresh
    /\ Careless => \A c \in CondPtrs : cond_word[c] # "COND"

TokensKept ==
    /\ SemTokens
    /\ \A s \in SemPtrs : ~sems[s].open => /\ sems[s] = ClosedSem
                                           /\ posted[s] = 0 /\ passed[s] = 0
    /\ \A t \in ThreadIds : pending[t].fn = "sem_wait" => pending[t].mutex = NoMutex

SyncInv ==
    /\ ThreadInv
    /\ WordsInv
    /\ CallsMatch
    /\ CallsExist
    /\ HoldsMatch
    /\ Counted
    /\ CondsExact
    /\ TokensKept
    /\ NoHostPanic

\* The guest does not destroy or re-initialise what its threads use, unless
\* all that it uses are mutexes: destroy_mutex knows when to refuse.
CarefulGuest ==
    Careless => GuestCalls \cap {"cond_init", "cond_wait", "cond_timedwait",
                                 "cond_signal", "cond_broadcast",
                                 "cond_destroy", "sem_destroy"} = {}

(***************************************************************************)
(* The ways a step changes blocks, mutexes, conditions and semaphores      *)
(***************************************************************************)
\* ms is the map of mutexes, or that with a mutex more that nobody has used.
Agrees(ms) ==
    /\ MutexMapOK(ms)
    /\ \A id \in MutexIds :
          /\ Exists(mutexes, id) => ms[id] = mutexes[id]
          /\ ms[id].locked_by = mutexes[id].locked_by
          /\ ms[id].lock_count = mutexes[id].lock_count
          /\ ms[id].waiting_count = mutexes[id].waiting_count

Unlocks(ms, id) ==
    /\ ~unlock_refused(ms, id, current_thread)
    /\ mutexes' = unlock_mutex(ms, id)
    /\ Released(ms, current_thread, id)

\* A mutex call that does not block.
MutexOp ==
    \E ms :
        /\ Agrees(ms)
        /\ \/ mutexes' = ms /\ UNCHANGED holds
           \/ \E id \in MutexIds :
                 /\ Exists(ms, id)
                 /\ \/ /\ ms[id].locked_by = NoThread
                       /\ mutexes' = take(ms, id, current_thread)
                       /\ Obtained(current_thread, id)
                    \/ /\ ms[id].locked_by = current_thread
                       /\ ms[id].type = "RECURSIVE"
                       /\ mutexes' = relevel(ms, id)
                       /\ Obtained(current_thread, id)
                    \/ Unlocks(ms, id)
                    \/ /\ ~destroy_refused(ms, id)
                       /\ mutexes' = destroy_mutex(ms, id)
                       /\ UNCHANGED holds
                       /\ \/ Careless
                          \/ \A t \in ThreadIds : pending[t].fn \in LockingFns =>
                                                    Target(pending[t]) # id

\* v is the host object of variable c for a call that uses it.
Hosts(v, c) ==
    /\ ~Careless
    /\ v \in CondHostObject
    /\ v.present
    /\ v = conds[c] \/ (v = FreshCond /\ \A t \in ThreadIds : ~Waits(t, c))
    /\ cond_word' = [cond_word EXCEPT ![c] = "COND"]

\* The map of condition variables, with host object v for c.
CondAt(c, v) == [conds EXCEPT ![c] = v]

\* The host object v with thread t queued, with one and with all signalled.
Queued(v, id, t) ==
    [v EXCEPT !.curr_mutex = id, !.waiting = Append(v.waiting, t)]
Signalled(v) ==
    [v EXCEPT !.waking = Append(v.waking, Head(v.waiting)), !.waiting = Tail(v.waiting)]
Broadcast(v) == [v EXCEPT !.waking = v.waking \o v.waiting, !.waiting = <<>>]

\* A call on a condition variable that does not block.
CondOp ==
    \/ UNCHANGED condVars
    \/ \E c \in CondPtrs, v \in CondHostObject :
          /\ Hosts(v, c)
          /\ \/ conds' = CondAt(c, v)
             \/ /\ v.waiting # <<>>
                /\ conds' = CondAt(c, Signalled(v))
             \/ conds' = CondAt(c, Broadcast(v))
             \/ /\ \A t \in ThreadIds : ~Waits(t, c)
                /\ conds' = CondAt(c, NoCond)

\* A call on a semaphore that does not block.
SemOp ==
    \/ UNCHANGED semVars
    \/ \E s \in SemPtrs :
          \/ \E v \in Nat : InitSem(s, v)
          \/ /\ CloseSem(s)
             /\ \A t \in ThreadIds : ~(pending[t].fn = "sem_wait" /\ pending[t].obj = s)
          \/ sem_increment(s)
          \/ sem_decrement(s)

Blocks == <<blocked_by, pending, phase, current_thread>>

Still == UNCHANGED <<Blocks, mutexes, holds, condVars, semVars>>

Idles == Running /\ UNCHANGED Blocks /\ MutexOp /\ CondOp /\ SemOp

\* The running thread stops running, blocked in a call.
Stops(b, call) ==
    /\ Running
    /\ blocked_by' = [blocked_by EXCEPT ![current_thread] = b]
    /\ pending' = [pending EXCEPT ![current_thread] = call]
    /\ phase' = "scan"
    /\ UNCHANGED current_thread

Leaves ==
    /\ \E b, call :
          /\ Stops(b, call)
          /\ call.fn \in {"join", "sleep", "suspend", "none"}
          /\ b.kind \in {"Joining", "Sleeping", "NotBlocked"}
    /\ UNCHANGED <<mutexes, holds, condVars, semVars>>

BlocksOnMutex ==
    \E ms : \E id \in MutexIds :
        /\ Agrees(ms) /\ Exists(ms, id)
        /\ mutexes' = add_waiter(ms, id)
        /\ Stops(BlockOn("Mutex", id, "none"), CallTo("lock", id, NoMutex))
        /\ UNCHANGED <<holds, condVars, semVars>>

WaitsOnCond ==
    \E ms : \E id \in MutexIds, c \in CondPtrs, v \in CondHostObject,
              fn \in CondFns, d \in Deadlines :
        /\ Agrees(ms) /\ Exists(ms, id) /\ Unlocks(ms, id)
        /\ Hosts(v, c)
        /\ v.curr_mutex = id \/ (v.waiting = <<>> /\ v.waking = <<>>)
        /\ conds' = CondAt(c, Queued(v, id, current_thread))
        /\ fn = "cond_wait" => d = "none"
        /\ Stops(BlockOn("Condition", c, d), CallTo(fn, c, id))
        /\ UNCHANGED semVars

BlocksOnSem ==
    /\ \E s \in SemPtrs :
          /\ EnqueueSemWaiter(s, current_thread)
          /\ Stops(BlockOn("Semaphore", s, "none"), CallTo("sem_wait", s, NoMutex))
    /\ UNCHANGED <<mutexes, holds, condVars>>

\* The call of the running thread returns.
Finishes ==
    LET t    == current_thread
        call == pending[t]
    IN  /\ phase = "guest"
        /\ call.fn # "none"
        /\ pending' = [pending EXCEPT ![t] = NoCall]
        /\ UNCHANGED <<blocked_by, phase, current_thread, mutexes, cond_word,
                       sems, posted>>
        /\ IF call.fn \in LockingFns THEN Obtained(t, Target(call))
           ELSE UNCHANGED holds
        /\ IF call.fn \in CondFns THEN conds' = ClearTimedOut(conds, call.obj, t)
           ELSE UNCHANGED conds
        /\ IF call.fn = "sem_wait"
           THEN passed' = [passed EXCEPT ![call.obj] = @ + 1]
           ELSE UNCHANGED passed

\* The scheduler switches to the candidate.
Switches ==
    /\ phase = "scan"
    /\ blocked_by' = [blocked_by EXCEPT ![Candidate] = NotBlocked]
    /\ current_thread' = Candidate
    /\ phase' = "guest"
    /\ UNCHANGED <<pending, holds>>

Wakes ==
    /\ Switches
    /\ blocked_by[Candidate].kind \in {"NotBlocked", "Sleeping", "Joining"}
    /\ UNCHANGED <<mutexes, condVars, semVars>>

HandsOver(id) ==
    /\ Switches
    /\ ~mutex_is_locked(mutexes, id)
    /\ Exists(mutexes, id)
    /\ mutexes' = relock(mutexes, id, Candidate)
    /\ UNCHANGED semVars

WakesFromMutex ==
    /\ blocked_by[Candidate].kind = "Mutex"
    /\ HandsOver(blocked_by[Candidate].obj)
    /\ UNCHANGED condVars

WakesFromCond ==
    LET c == blocked_by[Candidate].obj
    IN  /\ blocked_by[Candidate].kind = "Condition"
        /\ HandsOver(conds[c].curr_mutex)
        /\ \/ IsFrontWaking(conds, c, Candidate) /\ conds' = PopWaking(conds, c)
           \/ /\ blocked_by[Candidate].deadline = "passed"
              /\ conds' = TimeOut(conds, c, Candidate)
        /\ UNCHANGED cond_word

WakesFromSem ==
    /\ blocked_by[Candidate].kind = "Semaphore"
    /\ Switches
    /\ GrantSem(blocked_by[Candidate].obj, Candidate)
    /\ UNCHANGED <<mutexes, condVars>>

\* The candidate waits for its mutex from now on.
TimesOut ==
    LET c == blocked_by[Candidate].obj
    IN  /\ phase = "scan"
        /\ blocked_by[Candidate].kind = "Condition"
        /\ blocked_by[Candidate].deadline = "passed"
        /\ conds' = TimeOut(conds, c, Candidate)
        /\ blocked_by' = [blocked_by EXCEPT
                ![Candidate] = BlockOn("Mutex", conds[c].curr_mutex, "none")]
        /\ UNCHANGED <<pending, phase, current_thread, mutexes, holds, cond_word,
                       semVars>>

Expires ==
    /\ \E t \in ThreadIds :
          /\ blocked_by[t].deadline = "pending"
          /\ blocked_by' = [blocked_by EXCEPT
                               ![t] = [blocked_by[t] EXCEPT !.deadline = "passed"]]
    /\ UNCHANGED <<pending, phase, current_thread, mutexes, holds, condVars, semVars>>

SyncStep ==
    \/ Still
    \/ Idles
    \/ Leaves
    \/ BlocksOnMutex
    \/ WaitsOnCond
    \/ BlocksOnSem
    \/ Finishes
    \/ Wakes
    \/ WakesFromMutex
    \/ WakesFromCond
    \/ WakesFromSem
    \/ TimesOut
    \/ Expires

\* The first use of a mutex changes nothing about the others.
LEMMA UseAgrees ==
    ASSUME TypeOK, WordsInv
    PROVE  /\ Agrees(mutexes)
           /\ \A type \in MutexTypes : mutex_count < MaxMutexes =>
                 /\ Agrees(init_mutex(mutexes, mutex_count, type))
                 /\ mutex_count \in MutexIds
                 /\ ~Exists(mutexes, mutex_count)
           /\ \A p \in MutexPtrs : check_or_register_mutex(p) =>
                 /\ Agrees(MutexesAt(p))
                 /\ MutexOf(p) \in MutexIds
                 /\ Exists(MutexesAt(p), MutexOf(p))
<1>0. /\ MutexMapOK(mutexes) /\ WordsTyped(mutex_word) /\ 0 \in ThreadIds
      /\ mutex_count \in 0 .. MaxMutexes /\ "NORMAL" \in MutexTypes
  BY TypeParts, BoundsAssumption
  DEF MutexTypeOK, WordTypeOK, WordsTyped, ThreadIds, MutexTypes
<1>1. Agrees(mutexes)
  BY <1>0 DEF Agrees
<1>2. ASSUME NEW type \in MutexTypes, mutex_count < MaxMutexes
      PROVE  /\ Agrees(init_mutex(mutexes, mutex_count, type))
             /\ mutex_count \in MutexIds
             /\ ~Exists(mutexes, mutex_count)
  <2> DEFINE new == init_mutex(mutexes, mutex_count, type)
  <2>1. mutex_count \in MutexIds
    BY <1>0, <1>2, BoundsAssumption DEF MutexIds
  <2>2. ~Exists(mutexes, mutex_count) /\ mutexes[mutex_count] = Free("absent")
    BY <1>0, <2>1, BoundsAssumption DEF WordsInv, WordsOK
  <2>3. /\ new[mutex_count] = Free(type) /\ MutexMapOK(new)
        /\ \A id \in MutexIds \ {mutex_count} : new[id] = mutexes[id]
    BY <1>0, <2>1, MutexOps DEF init_mutex, MutexMapOK
  <2> HIDE DEF new
  <2>4. Agrees(new)
    BY <2>2, <2>3 DEF Agrees, Free
  <2>5. QED
    BY <2>1, <2>2, <2>4 DEF new
<1>3. ASSUME NEW p \in MutexPtrs, check_or_register_mutex(p)
      PROVE  Agrees(MutexesAt(p))
  BY <1>0, <1>1, <1>2, <1>3 DEF check_or_register_mutex, MutexesAt
<1>4. QED
  BY <1>1, <1>2, <1>3, FirstUse

\* What SyncInv says of the types of the things that steps use.
LEMMA SyncTypes ==
    ASSUME SyncInv
    PROVE  /\ TypeOK
           /\ current_thread \in ThreadIds /\ Candidate \in ThreadIds
           /\ \A t \in ThreadIds : BlockOK(blocked_by[t]) /\ CallOK(pending[t])
           /\ Running => blocked_by[current_thread] = NotBlocked
<1>1. TypeOK
  BY DEF SyncInv, ThreadInv
<1>2. QED
  BY <1>1, TypeParts, LiveIds
  DEF SchedTypeOK, BlocksOK, CallsOK, SyncInv, ThreadInv, CurrentRunnable, Running

\* Returning and panicking leave the blocks as they are.
LEMMA BlocksSame ==
    /\ \A r : Return(r) => UNCHANGED Blocks
    /\ \A why : Panic(why) => UNCHANGED Blocks
    /\ \A timed : Skip(timed) => UNCHANGED Blocks
    /\ \A b, call : Running /\ Yield(b, call) => Stops(b, call)
BY DEF Return, Panic, Skip, Blocks, scanVars, Yield, Stops, StartScan

\* An operation of one kind, with the others left alone.
LEMMA OneOp ==
    ASSUME SyncInv, Running, UNCHANGED Blocks
    PROVE  /\ MutexOp /\ UNCHANGED <<condVars, semVars>> => SyncStep
           /\ CondOp /\ UNCHANGED <<mutexes, holds, semVars>> => SyncStep
           /\ SemOp /\ UNCHANGED <<mutexes, holds, condVars>> => SyncStep
           /\ MutexOp /\ CondOp /\ UNCHANGED semVars => SyncStep
<1>1. UNCHANGED <<mutexes, holds>> => MutexOp
  <2>1. Agrees(mutexes)
    BY SyncTypes, UseAgrees DEF SyncInv
  <2>2. QED
    BY <2>1, Zenon DEF MutexOp
<1>2. UNCHANGED condVars => CondOp
  BY DEF CondOp
<1>3. UNCHANGED semVars => SemOp
  BY DEF SemOp
<1>4. QED
  BY <1>1, <1>2, <1>3 DEF SyncStep, Idles

\* The calls on mutexes are steps of these kinds.
LEMMA MutexCallSync ==
    ASSUME SyncInv, NEW p \in MutexPtrs, MutexCall(p)
    PROVE  SyncStep
<1> DEFINE ms == MutexesAt(p)
           id == MutexOf(p)
<1>0. ASSUME check_or_register_mutex(p)
      PROVE  Agrees(ms) /\ id \in MutexIds /\ Exists(ms, id)
  BY <1>0, UseAgrees, SyncTypes DEF SyncInv
<1> HIDE DEF ms, id
<1>1. ASSUME Running, UNCHANGED <<condVars, semVars>>, check_or_register_mutex(p),
             lock_mutex(ms, id)
      PROVE  SyncStep
  <2>1. Agrees(ms) /\ id \in MutexIds /\ Exists(ms, id)
    BY <1>0, <1>1
  <2>2. CASE /\ ms[id].locked_by \notin {NoThread, current_thread}
             /\ mutexes' = add_waiter(ms, id)
             /\ Yield(BlockOn("Mutex", id, "none"), CallTo("lock", id, NoMutex))
             /\ UNCHANGED holds
    <3>1. Stops(BlockOn("Mutex", id, "none"), CallTo("lock", id, NoMutex))
      BY <1>1, <2>2, BlocksSame
    <3>2. BlocksOnMutex
      BY <1>1, <2>1, <2>2, <3>1, Zenon DEF BlocksOnMutex
    <3>3. QED
      BY <3>2 DEF SyncStep
  <2>3. CASE MutexOp /\ \E r : Return(r)
    BY <1>1, <2>3, BlocksSame, OneOp
  <2>4. QED
    BY <1>1, <2>1, <2>2, <2>3 DEF lock_mutex, MutexOp
<1>2. ASSUME Running, UNCHANGED <<condVars, semVars, holds>>, UNCHANGED Blocks,
             check_or_register_mutex(p), mutexes' = ms
      PROVE  SyncStep
  BY <1>0, <1>2, OneOp DEF MutexOp
<1> USE DEF MayCall
<1>3. CASE MutexInvalid(p)
  BY <1>3, BlocksSame DEF MutexInvalid, SyncStep, Still, mutexVars
<1>4. ASSUME NEW type \in GuestMutexTypes, pthread_mutex_init(p, type)
      PROVE  SyncStep
  <2>1. type \in MutexTypes
    BY GuestAssumption
  <2>2. Agrees(mutexes')
    BY <1>4, <2>1, UseAgrees, SyncTypes DEF pthread_mutex_init, SyncInv
  <2>3. MutexOp
    BY <1>4, <2>2, Zenon DEF MutexOp, pthread_mutex_init
  <2>4. QED
    BY <1>4, <2>3, BlocksSame, OneOp DEF pthread_mutex_init
<1>5. CASE pthread_mutex_lock(p)
  BY <1>1, <1>5 DEF pthread_mutex_lock, ms, id
<1>6. CASE pthread_mutex_trylock(p)
  BY <1>1, <1>2, <1>6, BlocksSame DEF pthread_mutex_trylock, ms, id
<1>7. CASE pthread_mutex_unlock(p)
  <2>1. CASE UNCHANGED holds /\ mutexes' = ms
    BY <1>2, <1>7, <2>1, BlocksSame DEF pthread_mutex_unlock
  <2>2. CASE Unlocks(ms, id)
    <3>1. MutexOp
      BY <1>0, <1>7, <2>2 DEF pthread_mutex_unlock, MutexOp
    <3>2. QED
      BY <1>7, <3>1, BlocksSame, OneOp DEF pthread_mutex_unlock
  <2>3. QED
    BY <1>7, <2>1, <2>2 DEF pthread_mutex_unlock, Unlocks, ms, id
<1>8. CASE pthread_mutex_destroy(p)
  <2>1. CASE mutexes' = ms
    BY <1>2, <1>8, <2>1, BlocksSame DEF pthread_mutex_destroy
  <2>2. CASE ~destroy_refused(ms, id) /\ mutexes' = destroy_mutex(ms, id)
    <3>1. ASSUME ~Careless, NEW t \in ThreadIds, pending[t].fn \in LockingFns
          PROVE  Target(pending[t]) # id
      <4>1. ~MutexBusy(p)
        BY <1>8, <3>1 DEF pthread_mutex_destroy, MayEnd
      <4>2. CASE IsStatic(p)
        <5>1. ~Exists(mutexes, id)
          BY <1>8, <4>2, UseAgrees, SyncTypes
          DEF pthread_mutex_destroy, check_or_register_mutex, id, MutexOf,
              SyncInv, MutexTypes
        <5>2. Exists(mutexes, Target(pending[t]))
          BY <3>1 DEF SyncInv, CallsExist
        <5>3. QED
          BY <5>1, <5>2
      <4>3. CASE ~IsStatic(p)
        <5>1. mutex_word[p].magic = "MUTX" /\ id = mutex_word[p].id
          BY <1>8, <4>3
          DEF pthread_mutex_destroy, check_or_register_mutex, id, MutexOf, IsStatic,
              MutexKnown
        <5>2. QED
          BY <3>1, <4>1, <5>1 DEF MutexBusy, LockingFns, Target
      <4>4. QED
        BY <4>2, <4>3
    <3>2. MutexOp
      BY <1>0, <1>8, <2>2, <3>1 DEF pthread_mutex_destroy, MutexOp
    <3>3. QED
      BY <1>8, <3>2, BlocksSame, OneOp DEF pthread_mutex_destroy
  <2>3. QED
    BY <1>8, <2>1, <2>2 DEF pthread_mutex_destroy, ms, id
<1>9. QED
  BY <1>3, <1>4, <1>5, <1>6, <1>7, <1>8 DEF MutexCall

\* Queueing and signalling change the host object and nothing else.
LEMMA CondOpsAt ==
    ASSUME CondTypeOK, NEW c \in CondPtrs, NEW v \in CondHostObject
    PROVE  /\ \A id, t : Enqueue(CondAt(c, v), c, id, t) = CondAt(c, Queued(v, id, t))
           /\ SignalOne(CondAt(c, v), c) =
                 IF v.waiting = <<>> THEN CondAt(c, v) ELSE CondAt(c, Signalled(v))
           /\ SignalAll(CondAt(c, v), c) = CondAt(c, Broadcast(v))
           /\ [CondAt(c, v) EXCEPT ![c] = NoCond] = CondAt(c, NoCond)
<1> DEFINE cs == CondAt(c, v)
<1>1. conds \in [CondPtrs -> CondHostObject] /\ cs[c] = v
  BY DEF CondTypeOK, CondMapOK, CondAt
<1>2. \A w : [cs EXCEPT ![c] = w] = CondAt(c, w)
  BY <1>1 DEF CondAt
<1>3. \A id, t : Enqueue(cs, c, id, t) = [cs EXCEPT ![c] = Queued(v, id, t)]
  BY <1>1 DEF Enqueue, Queued, CondHostObject
<1>4. SignalOne(cs, c) = IF v.waiting = <<>> THEN cs
                         ELSE [cs EXCEPT ![c] = Signalled(v)]
  BY <1>1 DEF SignalOne, Signalled, CondHostObject
<1>5. SignalAll(cs, c) = [cs EXCEPT ![c] = Broadcast(v)]
  BY <1>1 DEF SignalAll, Broadcast, CondHostObject
<1> HIDE DEF cs
<1>6. QED
  BY <1>2, <1>3, <1>4, <1>5 DEF cs

\* A careful guest uses variables that are there.
LEMMA CondUse ==
    ASSUME SyncInv, ~Careless, NEW c \in CondPtrs, MayUse(c), CondKnown(c),
           RegisterCond(c)
    PROVE  LET v == CondsAt(c)[c]
           IN  Hosts(v, c) /\ CondsAt(c) = CondAt(c, v)
<1> DEFINE v == CondsAt(c)[c]
<1>1. conds \in [CondPtrs -> CondHostObject]
  BY SyncTypes, TypeParts DEF CondTypeOK, CondMapOK
<1>2. CASE cond_word[c] = "STATIC"
  <2>1. v = FreshCond /\ CondsAt(c) = CondAt(c, v)
    BY <1>1, <1>2 DEF CondsAt, CondAt
  <2>2. FreshCond \in CondHostObject /\ FreshCond.present
    BY DEF FreshCond, CondHostObject
  <2>3. \A t \in ThreadIds : ~Waits(t, c)
    BY <1>2 DEF SyncInv, CondsExact, CondsMatch
  <2>4. QED
    BY <2>1, <2>2, <2>3 DEF Hosts, RegisterCond
<1>3. CASE cond_word[c] # "STATIC"
  <2>1. cond_word[c] = "COND" /\ conds[c].present
    BY <1>3 DEF CondKnown, MayUse
  <2>2. v = conds[c] /\ CondsAt(c) = CondAt(c, v)
    BY <1>1, <1>3 DEF CondsAt, CondAt
  <2> HIDE DEF v
  <2>3. v \in CondHostObject /\ v.present
    BY <1>1, <2>1, <2>2
  <2>4. Hosts(v, c)
    BY <1>1, <2>1, <2>2, <2>3 DEF Hosts, RegisterCond
  <2>5. QED
    BY <2>2, <2>4 DEF v
<1>4. QED
  BY <1>2, <1>3

\* A call on a condition variable means that the guest is careful.
LEMMA CondGuest ==
    ASSUME CarefulGuest,
           \E fn \in {"cond_init", "cond_wait", "cond_timedwait", "cond_signal",
                      "cond_broadcast", "cond_destroy", "sem_destroy"} : fn \in GuestCalls
    PROVE  ~Careless
BY DEF CarefulGuest

\* Waiting for a condition is a step of these kinds, and so are the other
\* calls on condition variables.
LEMMA CondWaitSync ==
    ASSUME CarefulGuest, SyncInv, NEW c \in CondPtrs, NEW p \in MutexPtrs,
           NEW fn \in CondFns, NEW d \in Deadlines, fn = "cond_wait" => d = "none",
           CondWait(fn, c, p, d)
    PROVE  SyncStep
<1> DEFINE ms == MutexesAt(p)
           id == MutexOf(p)
           cs == CondsAt(c)
           v  == cs[c]
<1>0. ~Careless /\ Running
  BY CondGuest DEF CondWait, MayCall, CondFns
<1>1. Agrees(ms) /\ id \in MutexIds /\ Exists(ms, id)
  BY UseAgrees, SyncTypes DEF CondWait, SyncInv
<1>2. Hosts(v, c) /\ cs = CondAt(c, v)
  BY <1>0, CondUse DEF CondWait
<1>3. v \in CondHostObject /\ v.present /\ CondTypeOK
  BY <1>2, SyncTypes, TypeParts DEF Hosts
<1>4. UNCHANGED semVars
  BY DEF CondWait
<1> HIDE DEF ms, id, v
<1>5. CASE mutexes' = ms /\ conds' = cs /\ Return("EPERM") /\ UNCHANGED holds
  <2>1. MutexOp /\ CondOp
    BY <1>1, <1>2, <1>3, <1>5 DEF MutexOp, CondOp
  <2>2. QED
    BY <1>0, <1>4, <1>5, <2>1, BlocksSame, OneOp
<1>6. CASE /\ ~unlock_refused(ms, id, current_thread)
           /\ SameMutex(cs, c, id)
           /\ mutexes' = unlock_mutex(ms, id)
           /\ Released(ms, current_thread, id)
           /\ conds' = Enqueue(cs, c, id, current_thread)
           /\ Yield(BlockOn("Condition", c, d), CallTo(fn, c, id))
  <2>1. Stops(BlockOn("Condition", c, d), CallTo(fn, c, id))
    BY <1>0, <1>6, BlocksSame
  <2>2. conds' = CondAt(c, Queued(v, id, current_thread))
    <3>1. Enqueue(CondAt(c, v), c, id, current_thread) =
              CondAt(c, Queued(v, id, current_thread))
      BY <1>3, CondOpsAt
    <3>2. QED
      BY <1>2, <1>6, <3>1
  <2>3. Unlocks(ms, id)
    BY <1>6 DEF Unlocks
  <2>4. v.curr_mutex = id \/ (v.waiting = <<>> /\ v.waking = <<>>)
    BY <1>6 DEF SameMutex, v
  <2>5. WaitsOnCond
    BY <1>1, <1>2, <1>3, <1>4, <2>1, <2>2, <2>3, <2>4, Zenon DEF WaitsOnCond
  <2>6. QED
    BY <2>5 DEF SyncStep
<1>7. CASE ~SameMutex(cs, c, id) /\ Panic("cond_mutex") /\ UNCHANGED <<mutexes, conds, holds>>
  <2>1. cond_word[c] # "STATIC"
    <3>1. v # FreshCond
      BY <1>7 DEF SameMutex, v, FreshCond
    <3>2. QED
      BY <1>3, <3>1 DEF CondsAt, v, CondTypeOK, CondMapOK
  <2>2. UNCHANGED cond_word
    BY <1>3, <2>1 DEF CondWait, CondKnown, RegisterCond, CondTypeOK
  <2>3. QED
    BY <1>4, <1>7, <2>2, BlocksSame DEF SyncStep, Still, condVars
<1>8. QED
  BY <1>3, <1>5, <1>6, <1>7 DEF CondWait, ms, id, v

LEMMA CondCallSync ==
    ASSUME CarefulGuest, SyncInv, NEW c \in CondPtrs, CondCall(c)
    PROVE  SyncStep
<1> USE DEF MayCall
<1> DEFINE v == CondsAt(c)[c]
<1>0. \A t \in ThreadIds : Waits(t, c) => CondBusy(c)
  BY DEF Waits, CondBusy, CondFns
<1>1. ASSUME Running, ~Careless, MayUse(c), CondKnown(c), RegisterCond(c)
      PROVE  /\ Hosts(v, c) /\ CondsAt(c) = CondAt(c, v)
             /\ v \in CondHostObject /\ v.present /\ CondTypeOK
  BY <1>1, CondUse, SyncTypes, TypeParts DEF Hosts
<1>2. CASE CondInvalid(c)
  BY <1>2, BlocksSame
  DEF CondInvalid, SyncStep, Still, mutexVars
<1>3. CASE pthread_cond_init(c)
  <2>1. ~Careless /\ Running
    BY <1>3, CondGuest DEF pthread_cond_init
  <2>2. Hosts(FreshCond, c) /\ FreshCond \in CondHostObject
    BY <1>0, <1>3, <2>1
    DEF pthread_cond_init, MayEnd, InitCond, Hosts, FreshCond, CondHostObject
  <2>3. CondOp
    BY <1>3, <2>2 DEF CondOp, CondAt, pthread_cond_init, InitCond
  <2>4. QED
    BY <1>3, <2>1, <2>3, BlocksSame, OneOp DEF pthread_cond_init, mutexVars
<1>4. ASSUME NEW p \in MutexPtrs, CondWaitInvalid(c, p) PROVE SyncStep
  <2>1. ~Careless /\ Running
    BY <1>4, CondGuest DEF CondWaitInvalid
  <2>2. CondOp
    BY <1>1, <1>4, <2>1 DEF CondOp, CondWaitInvalid
  <2>3. QED
    BY <1>4, <2>1, <2>2, BlocksSame, OneOp DEF CondWaitInvalid, mutexVars
<1>5. ASSUME NEW p \in MutexPtrs, pthread_cond_wait(c, p) PROVE SyncStep
  BY <1>5, CondWaitSync DEF pthread_cond_wait, CondFns, Deadlines
<1>6. ASSUME NEW p \in MutexPtrs, pthread_cond_timedwait(c, p) PROVE SyncStep
  BY <1>6, CondWaitSync DEF pthread_cond_timedwait, CondFns, Deadlines
<1>7. ASSUME NEW effect, OnCond(c, effect), Running, ~Careless,
             Hosts(v, c) /\ v \in CondHostObject /\ conds' = effect => CondOp
      PROVE  SyncStep
  <2>1. /\ Hosts(v, c) /\ v \in CondHostObject /\ v.present
    BY <1>1, <1>7 DEF OnCond
  <2>2. CondOp
    BY <1>7, <2>1 DEF OnCond
  <2>3. QED
    BY <1>7, <2>1, <2>2, BlocksSame, OneOp DEF OnCond, mutexVars
<1>8. CASE pthread_cond_signal(c)
  <2>1. ~Careless /\ Running /\ OnCond(c, SignalOne(CondsAt(c), c))
    BY <1>8, CondGuest DEF pthread_cond_signal
  <2>2. CondTypeOK /\ v \in CondHostObject /\ CondsAt(c) = CondAt(c, v)
    BY <1>1, <2>1 DEF OnCond
  <2>3. SignalOne(CondsAt(c), c) =
            IF v.waiting = <<>> THEN CondAt(c, v) ELSE CondAt(c, Signalled(v))
    BY <2>2, CondOpsAt
  <2>4. QED
    BY <1>7, <2>1, <2>3 DEF CondOp
<1>9. CASE pthread_cond_broadcast(c)
  <2>1. ~Careless /\ Running /\ OnCond(c, SignalAll(CondsAt(c), c))
    BY <1>9, CondGuest DEF pthread_cond_broadcast
  <2>2. CondTypeOK /\ v \in CondHostObject /\ CondsAt(c) = CondAt(c, v)
    BY <1>1, <2>1 DEF OnCond
  <2>3. SignalAll(CondsAt(c), c) = CondAt(c, Broadcast(v))
    BY <2>2, CondOpsAt
  <2>4. QED
    BY <1>7, <2>1, <2>3 DEF CondOp
<1>10. CASE pthread_cond_destroy(c)
  <2>1. ~Careless /\ Running
    BY <1>10, CondGuest DEF pthread_cond_destroy
  <2>2. \A t \in ThreadIds : ~Waits(t, c)
    BY <1>0, <1>10, <2>1 DEF pthread_cond_destroy, MayEnd
  <2>3. CASE OnCond(c, [CondsAt(c) EXCEPT ![c] = NoCond])
    <3>1. CondTypeOK /\ v \in CondHostObject /\ CondsAt(c) = CondAt(c, v)
      BY <1>1, <2>1, <2>3 DEF OnCond
    <3>2. [CondsAt(c) EXCEPT ![c] = NoCond] = CondAt(c, NoCond)
      BY <3>1, CondOpsAt
    <3>3. QED
      BY <1>7, <2>1, <2>2, <2>3, <3>2 DEF CondOp
  <2>4. CASE /\ Panic("cond_destroy")
             /\ UNCHANGED <<mutexVars, semVars, condVars, pthreadVars, holds>>
    BY <2>4, BlocksSame DEF SyncStep, Still, mutexVars
  <2>5. QED
    BY <1>10, <2>3, <2>4, Zenon DEF pthread_cond_destroy
<1>11. QED
  BY <1>2, <1>3, <1>4, <1>5, <1>6, <1>8, <1>9, <1>10 DEF CondCall

\* The calls on semaphores: none is closed while a thread waits for it.
LEMMA SemCallSync ==
    ASSUME CarefulGuest, SyncInv, NEW s \in SemPtrs, SemCall(s)
    PROVE  SyncStep
<1> USE DEF MayCall
<1>1. ASSUME Running, UNCHANGED <<mutexVars, condVars, holds>>, NEW r, Return(r), SemOp
      PROVE  SyncStep
  BY <1>1, BlocksSame, OneOp DEF mutexVars
<1>2. UNCHANGED semVars => SemOp
  BY DEF SemOp
<1>3. ASSUME NEW v \in SemValues, sem_init(s, v) PROVE SyncStep
  <2>1. SemOp
    BY <1>3, SemAssumption DEF sem_init, SemOp
  <2>2. QED
    BY <1>1, <1>3, <2>1 DEF sem_init
<1>4. CASE sem_destroy(s)
  <2>1. ~SemBusy(s)
    BY <1>4, CondGuest DEF sem_destroy, MayEnd
  <2>2. CloseSem(s) => SemOp
    BY <2>1 DEF SemBusy, SemOp
  <2>3. QED
    BY <1>1, <1>2, <1>4, <2>2 DEF sem_destroy
<1>5. CASE sem_post(s)
  <2>1. SemOp
    BY <1>2, <1>5 DEF sem_post, SemOp
  <2>2. QED
    BY <1>1, <1>5, <2>1 DEF sem_post
<1>6. CASE sem_trywait(s)
  <2>1. SemOp
    BY <1>2, <1>6 DEF sem_trywait, SemOp
  <2>2. QED
    BY <1>1, <1>6, <2>1 DEF sem_trywait
<1>7. CASE sem_wait(s)
  <2>1. CASE sem_decrement(s) /\ Return("ok")
    <3>1. SemOp
      BY <2>1 DEF SemOp
    <3>2. QED
      BY <1>1, <1>7, <2>1, <3>1 DEF sem_wait
  <2>2. CASE UNCHANGED semVars /\ Return("EINVAL")
    BY <1>1, <1>2, <1>7, <2>2 DEF sem_wait
  <2>3. CASE /\ EnqueueSemWaiter(s, current_thread)
             /\ Yield(BlockOn("Semaphore", s, "none"), CallTo("sem_wait", s, NoMutex))
    <3>1. Stops(BlockOn("Semaphore", s, "none"), CallTo("sem_wait", s, NoMutex))
      BY <1>7, <2>3, BlocksSame DEF sem_wait
    <3>2. BlocksOnSem
      BY <1>7, <2>3, <3>1 DEF sem_wait, BlocksOnSem, mutexVars
    <3>3. QED
      BY <3>2 DEF SyncStep
  <2>4. QED
    BY <1>7, <2>1, <2>2, <2>3 DEF sem_wait
<1>8. QED
  BY <1>3, <1>4, <1>5, <1>6, <1>7 DEF SemCall

\* The calls that create, join, suspend and end threads.
LEMMA ThreadCallSync ==
    ASSUME SyncInv, ThreadCall
    PROVE  SyncStep
<1> USE DEF MayCall, SyncStep
<1>0. /\ Running => /\ blocked_by[current_thread] = NotBlocked
                    /\ pending[current_thread] = NoCall
      /\ blocked_by = [blocked_by EXCEPT ![current_thread] = blocked_by[current_thread]]
      /\ pending = [pending EXCEPT ![current_thread] = pending[current_thread]]
  BY SyncTypes, TypeParts DEF Running, SchedTypeOK, BlocksOK, CallsOK
<1>1. ASSUME UNCHANGED Blocks, UNCHANGED <<mutexVars, condVars, semVars, holds>>
      PROVE  Still
  BY <1>1 DEF Still, mutexVars
<1>2. ASSUME NEW b, NEW call, Stops(b, call),
             UNCHANGED <<mutexVars, condVars, semVars, holds>>,
             call.fn \in {"join", "sleep", "suspend", "none"},
             b.kind \in {"Joining", "Sleeping", "NotBlocked"}
      PROVE  Leaves
  BY <1>2 DEF Leaves, mutexVars
<1>3. ASSUME NEW detach, NEW suspended, NewThread(detach, suspended) PROVE SyncStep
  BY <1>1, <1>3 DEF NewThread, Blocks, scanVars
<1>4. CASE \/ \E detach \in BOOLEAN : pthread_create(detach)
           \/ \E detach \in BOOLEAN : pthread_create_suspended_np(detach)
  BY <1>3, <1>4 DEF pthread_create, pthread_create_suspended_np
<1>5. CASE ThreadExit
  <2>1. CASE Panic("main_exit")
    BY <1>1, <1>5, <2>1, BlocksSame DEF ThreadExit
  <2>2. CASE StartScan /\ UNCHANGED <<current_thread, blocked_by, pending>>
    <3>1. Stops(NotBlocked, NoCall)
      BY <1>0, <1>5, <2>2 DEF ThreadExit, Stops, StartScan
    <3>2. QED
      BY <1>2, <1>5, <3>1 DEF ThreadExit, NotBlocked, NoCall, BlockOn, CallTo
  <2>3. QED
    BY <1>5, <2>1, <2>2 DEF ThreadExit
<1>6. ASSUME NEW j \in ThreadIds, pthread_join(j) PROVE SyncStep
  <2>1. UNCHANGED <<mutexVars, condVars, semVars, holds>> /\ Running
    BY <1>6 DEF pthread_join
  <2>2. CASE Yield(BlockOn("Joining", j, "none"), CallTo("join", j, NoMutex))
    <3>1. Stops(BlockOn("Joining", j, "none"), CallTo("join", j, NoMutex))
      BY <2>1, <2>2, BlocksSame
    <3>2. QED
      BY <1>2, <2>1, <3>1 DEF BlockOn, CallTo
  <2>3. CASE Panic("join_main") \/ \E r : Return(r)
    BY <1>1, <2>1, <2>3, BlocksSame
  <2>4. QED
    BY <1>6, <2>2, <2>3 DEF pthread_join
<1>7. ASSUME NEW j \in ThreadIds, pthread_detach(j) PROVE SyncStep
  BY <1>1, <1>7, BlocksSame DEF pthread_detach
<1>8. ASSUME NEW j \in ThreadIds, thread_suspend(j) PROVE SyncStep
  <2>1. /\ UNCHANGED <<mutexVars, condVars, semVars, holds>> /\ Running
        /\ UNCHANGED <<current_thread, blocked_by>>
    BY <1>8 DEF thread_suspend, threadVars
  <2>2. CASE j = current_thread
    <3>1. Stops(NotBlocked, CallTo("suspend", 0, NoMutex))
      BY <1>0, <1>8, <2>1, <2>2 DEF thread_suspend, Stops, StartScan
    <3>2. QED
      BY <1>2, <2>1, <3>1 DEF NotBlocked, BlockOn, CallTo
  <2>3. CASE j # current_thread
    BY <1>1, <1>8, <2>1, <2>3 DEF thread_suspend, Blocks, scanVars
  <2>4. QED
    BY <2>2, <2>3
<1>9. ASSUME NEW j \in ThreadIds, thread_resume(j) PROVE SyncStep
  BY <1>1, <1>9 DEF thread_resume, Blocks, scanVars
<1>10. CASE sleep
  <2>1. Stops(BlockOn("Sleeping", 0, "pending"), CallTo("sleep", 0, NoMutex))
    BY <1>10, BlocksSame DEF sleep
  <2>2. QED
    BY <1>2, <1>10, <2>1 DEF sleep, BlockOn, CallTo
<1>11. CASE Preempt
  <2>1. Stops(NotBlocked, NoCall)
    BY <1>11, BlocksSame DEF Preempt
  <2>2. QED
    BY <1>2, <1>11, <2>1 DEF Preempt, NotBlocked, NoCall, BlockOn, CallTo
<1>12. QED
  BY <1>4, <1>5, <1>6, <1>7, <1>8, <1>9, <1>10, <1>11 DEF ThreadCall

\* The rest of a call, once the scheduler has switched back.
LEMMA ResumeSync ==
    ASSUME SyncInv, Resume
    PROVE  SyncStep
<1>1. CASE ResumeLock
  BY <1>1 DEF ResumeLock, SyncStep, Finishes, LockingFns, CondFns, Target,
              mutexVars, condVars, semVars, scanVars
<1>2. CASE ResumeCond
  <2>1. CASE Panic("cond_missing") /\ UNCHANGED <<conds, holds>>
    BY <1>2, <2>1, BlocksSame
    DEF ResumeCond, SyncStep, Still, mutexVars, condVars
  <2>2. CASE ~ (Panic("cond_missing") /\ UNCHANGED <<conds, holds>>)
    BY <1>2, <2>2 DEF ResumeCond, SyncStep, Finishes, LockingFns, CondFns, Target,
                      mutexVars, condVars, semVars, scanVars
  <2>3. QED
    BY <1>2, <2>1, <2>2 DEF ResumeCond
<1>3. CASE ResumeSem
  BY <1>3 DEF ResumeSem, SyncStep, Finishes, LockingFns, CondFns, Target,
              mutexVars, condVars, semVars, scanVars
<1>4. CASE ResumeOther
  BY <1>4 DEF ResumeOther, SyncStep, Finishes, LockingFns, CondFns, Target,
              mutexVars, condVars, semVars, scanVars
<1>5. QED
  BY <1>1, <1>2, <1>3, <1>4 DEF Resume

\* The scheduler's steps.  A thread blocked on a semaphore never finds it
\* gone, since a closed one has nobody waiting.
LEMMA ScheduleSync ==
    ASSUME SyncInv, Schedule
    PROVE  SyncStep
<1> USE DEF SyncStep
<1>0. Candidate \in ThreadIds /\ UNCHANGED <<pthreadVars, holds>> /\ schedule_next_thread
  BY SyncTypes DEF Schedule
<1>1. ASSUME UNCHANGED <<mutexVars, condVars, semVars, holds>>,
             UNCHANGED Blocks
      PROVE  Still
  BY <1>1 DEF Still, mutexVars
<1>2. ASSUME Wake, phase = "scan" PROVE Switches
  BY <1>0, <1>2 DEF Wake, Switches, switch_thread
<1>3. ASSUME Wake, UNCHANGED <<mutexVars, condVars, semVars, holds>>,
             \E kind \in {"NotBlocked", "Sleeping", "Joining"} : Considers(kind)
      PROVE  Wakes
  BY <1>2, <1>3 DEF Wakes, Considers, Scanning, mutexVars
<1>4. CASE ScanInactive
  BY <1>0, <1>1, <1>4, BlocksSame DEF ScanInactive
<1>5. CASE ScanSuspended
  BY <1>0, <1>1, <1>5, BlocksSame DEF ScanSuspended
<1>6. CASE ScanNotBlocked
  BY <1>0, <1>3, <1>6 DEF ScanNotBlocked
<1>7. CASE ScanSleeping
  BY <1>0, <1>1, <1>3, <1>7, BlocksSame DEF ScanSleeping
<1>8. CASE ScanJoining
  BY <1>0, <1>1, <1>3, <1>8, BlocksSame DEF ScanJoining
<1>9. CASE ScanMutex
  <2> DEFINE id == blocked_by[Candidate].obj
  <2>1. /\ blocked_by[Candidate].kind = "Mutex" /\ phase = "scan"
        /\ UNCHANGED <<mutex_count, semVars, condVars>>
    BY <1>9 DEF ScanMutex, Considers, Scanning
  <2>2. CASE /\ ~mutex_is_locked(mutexes, id) /\ Exists(mutexes, id)
             /\ mutexes' = relock(mutexes, id, Candidate)
             /\ Wake
    BY <1>0, <1>2, <2>1, <2>2 DEF WakesFromMutex, HandsOver
  <2>3. CASE UNCHANGED mutexes /\ UNCHANGED Blocks
    BY <1>0, <1>1, <2>1, <2>3 DEF mutexVars
  <2>4. QED
    BY <1>9, <2>2, <2>3, BlocksSame DEF ScanMutex
<1>10. CASE ScanSemaphore
  <2> DEFINE s == blocked_by[Candidate].obj
  <2>1. /\ blocked_by[Candidate].kind = "Semaphore" /\ phase = "scan"
        /\ UNCHANGED <<mutexVars, condVars>>
    BY <1>10 DEF ScanSemaphore, Considers, Scanning
  <2>2. s \in SemPtrs /\ sems[s].open
    <3>1. s \in SemPtrs
      BY <1>0, <2>1, SyncTypes DEF BlockOK
    <3>2. Candidate \in sems[s].waiting
      BY <1>0, <2>1, <3>1 DEF SyncInv, TokensKept, SemTokens, BlockedOn
    <3>3. QED
      BY <3>1, <3>2 DEF SyncInv, TokensKept, ClosedSem
  <2>3. CASE GrantSem(s, Candidate) /\ Wake
    BY <1>0, <1>2, <2>1, <2>3 DEF WakesFromSem, mutexVars
  <2>4. CASE UNCHANGED semVars /\ UNCHANGED Blocks
    BY <1>0, <1>1, <2>1, <2>4
  <2>5. QED
    BY <1>10, <2>2, <2>3, <2>4, BlocksSame DEF ScanSemaphore
<1>11. CASE ScanConditionLost
  BY <1>0, <1>1, <1>11, BlocksSame DEF ScanConditionLost
<1>12. CASE ScanConditionWaiting
  BY <1>0, <1>1, <1>12, BlocksSame DEF ScanConditionWaiting
<1> DEFINE c  == blocked_by[Candidate].obj
           id == conds[c].curr_mutex
<1>13. ASSUME NEW cs, ConsidersCondition, WakeWithMutex(cs, id),
              ~mutex_is_locked(mutexes, id),
              UNCHANGED <<mutex_count, semVars, cond_word>>,
              \/ IsFrontWaking(conds, c, Candidate) /\ cs = PopWaking(conds, c)
              \/ /\ blocked_by[Candidate].deadline = "passed"
                 /\ cs = TimeOut(conds, c, Candidate)
       PROVE  SyncStep
  <2>1. blocked_by[Candidate].kind = "Condition" /\ phase = "scan"
    BY <1>13 DEF ConsidersCondition, Considers, Scanning
  <2>2. CASE /\ Exists(mutexes, id)
             /\ mutexes' = relock(mutexes, id, Candidate)
             /\ conds' = cs
             /\ Wake
    BY <1>0, <1>2, <1>13, <2>1, <2>2 DEF WakesFromCond, HandsOver
  <2>3. CASE UNCHANGED <<mutexes, conds>> /\ UNCHANGED Blocks
    BY <1>0, <1>1, <1>13, <2>3 DEF mutexVars, condVars
  <2>4. QED
    BY <1>13, <2>2, <2>3, BlocksSame DEF WakeWithMutex
<1>14. CASE ScanConditionSignalled
  BY <1>13, <1>14 DEF ScanConditionSignalled, CondReady
<1>15. CASE ScanConditionTimedOut
  <2>1. CASE mutex_is_locked(mutexes, id)
    <3>1. /\ blocked_by[Candidate].kind = "Condition" /\ phase = "scan"
          /\ blocked_by[Candidate].deadline = "passed"
          /\ UNCHANGED <<semVars, cond_word>>
          /\ BlockOnMutex(TimeOut(conds, c, Candidate), id)
      BY <1>15, <2>1
      DEF ScanConditionTimedOut, ConsidersCondition, Considers, Scanning
    <3>2. TimesOut
      BY <1>0, <3>1 DEF TimesOut, BlockOnMutex
    <3>3. QED
      BY <3>2
  <2>2. CASE ~mutex_is_locked(mutexes, id)
    BY <1>13, <1>15, <2>2 DEF ScanConditionTimedOut
  <2>3. QED
    BY <2>1, <2>2
<1>16. CASE ScanEnd
  <2>1. UNCHANGED Blocks
    BY <1>16, BlocksSame DEF ScanEnd, Blocks
  <2>2. QED
    BY <1>0, <1>1, <1>16, <2>1 DEF ScanEnd
<1>17. QED
  BY <1>0, <1>4, <1>5, <1>6, <1>7, <1>8, <1>9, <1>10, <1>11, <1>12, <1>14, <1>15,
     <1>16
  DEF schedule_next_thread

\* Every step of the specification is of one of these kinds.
LEMMA NextIsSyncStep ==
    ASSUME CarefulGuest, SyncInv, [Next]_vars
    PROVE  SyncStep
<1>1. CASE UNCHANGED vars
  BY <1>1 DEF vars, schedVars, mutexVars, scanVars, Blocks, SyncStep, Still
<1>2. CASE Clock
  <2>1. PICK t \in ThreadIds : Expire(t) /\ UNCHANGED <<pthreadVars, holds>>
    BY <1>2 DEF Clock
  <2>2. [blocked_by EXCEPT ![t].deadline = "passed"] =
            [blocked_by EXCEPT ![t] = [blocked_by[t] EXCEPT !.deadline = "passed"]]
    BY SyncTypes, TypeParts DEF SchedTypeOK, BlocksOK
  <2>3. Expires
    BY <2>1, <2>2 DEF Expires, Expire, scanVars, mutexVars
  <2>4. QED
    BY <2>3 DEF SyncStep
<1>3. QED
  BY <1>1, <1>2, MutexCallSync, CondCallSync, SemCallSync, ThreadCallSync,
     ResumeSync, ScheduleSync
  DEF Next, Halted

(***************************************************************************)
(* What the invariant says of one thread, and what a step does to each     *)
(***************************************************************************)
\* What a thread that is not executing waits for tells which call it is in.
LEMMA ParkedCall ==
    ASSUME SyncInv, NEW t \in ThreadIds, Parked(t)
    PROVE  LET b == blocked_by[t]
               call == pending[t]
           IN  /\ b.kind = "Mutex" =>
                     /\ call.fn \in LockingFns /\ b.obj = Target(call)
                     /\ b.obj \in MutexIds /\ Exists(mutexes, b.obj)
                     /\ b.deadline = "none"
               /\ b.kind = "Condition" =>
                     /\ b.obj \in CondPtrs /\ Waits(t, b.obj)
                     /\ conds[b.obj].present /\ cond_word[b.obj] = "COND"
                     /\ conds[b.obj].curr_mutex = Target(call)
                     /\ Target(call) \in MutexIds /\ Exists(mutexes, Target(call))
                     /\ b.deadline # "none" => call.fn = "cond_timedwait"
               /\ b.kind = "Semaphore" =>
                     b.obj \in SemPtrs /\ call = CallTo("sem_wait", b.obj, NoMutex)
               /\ b.kind \in {"NotBlocked", "Sleeping", "Joining"} =>
                     call.fn \in {"join", "sleep", "suspend", "none"}
<1> DEFINE b == blocked_by[t]
           call == pending[t]
<1>1. BlockOK(b) /\ CallOK(call) /\ Matches(call, b)
  BY SyncTypes DEF SyncInv, CallsMatch
<1>2. call.fn \in LockingFns => Exists(mutexes, Target(call))
  BY DEF SyncInv, CallsExist
<1>3. \A c \in CondPtrs : Waits(t, c) =>
         /\ conds[c].present /\ cond_word[c] = "COND"
         /\ b.kind = "Condition" => conds[c].curr_mutex = call.mutex
  BY DEF SyncInv, CondsExact, CondsMatch
<1>4. \A c : Waits(t, c) <=> call.fn \in CondFns /\ call.obj = c
  BY DEF Waits
<1> USE DEF Matches, LockingFns, CondFns, Target, BlockOn
<1>5. CASE b.kind = "Mutex"
  BY <1>1, <1>2, <1>5 DEF BlockOK
<1>6. CASE b.kind = "Condition"
  <2>1. call.fn \in CondFns /\ b.obj = call.obj /\ b.obj \in CondPtrs
    BY <1>1, <1>6 DEF BlockOK
  <2>2. call.mutex \in MutexIds
    BY <1>1, <2>1 DEF CallOK
  <2>3. b.deadline # "none" => call.fn = "cond_timedwait"
    BY <1>1, <1>6
  <2>4. QED
    BY <1>2, <1>3, <1>4, <1>6, <2>1, <2>2, <2>3
<1>7. CASE b.kind = "Semaphore"
  BY <1>1, <1>7 DEF BlockOK, CallOK, Call, CallTo
<1>8. CASE b.kind \in {"NotBlocked", "Sleeping", "Joining"}
  BY <1>1, <1>8
<1>9. b.kind \in BlockKinds
  BY <1>1 DEF BlockOK, Block
<1>10. QED
  BY <1>5, <1>6, <1>7, <1>8, <1>9 DEF BlockKinds

\* Only the running thread is not parked, and it is in no call.
LEMMA RunningCall ==
    ASSUME SyncInv, Running
    PROVE  /\ current_thread \in ThreadIds
           /\ \A t : Parked(t) <=> t # current_thread
           /\ pending[current_thread] = NoCall
           /\ blocked_by[current_thread] = NotBlocked
           /\ \A t, id : ~AboutToHold(t, id)
           /\ \A c : ~Waits(current_thread, c)
BY SyncTypes
DEF Running, Parked, AboutToHold, Waits, NoCall, CallTo, LockingFns, CondFns

\* The running thread stops: it alone is blocked.
LEMMA StopsAt ==
    ASSUME SyncInv, NEW b, NEW call, Stops(b, call)
    PROVE  /\ Running
           /\ \A t : Parked(t)'
           /\ \A t, id : ~AboutToHold(t, id)'
           /\ blocked_by'[current_thread] = b
           /\ pending'[current_thread] = call
           /\ \A t \in ThreadIds \ {current_thread} :
                 blocked_by'[t] = blocked_by[t] /\ pending'[t] = pending[t]
<1>1. /\ current_thread \in ThreadIds /\ DOMAIN blocked_by = ThreadIds
      /\ DOMAIN pending = ThreadIds
  BY SyncTypes, TypeParts DEF SchedTypeOK, BlocksOK, CallsOK
<1>2. QED
  BY <1>1 DEF Stops, Parked, AboutToHold

\* The scheduler switches: the candidate alone is no longer blocked.
LEMMA SwitchesAt ==
    ASSUME SyncInv, Switches
    PROVE  /\ \A t : Parked(t)
           /\ \A t, id : ~AboutToHold(t, id)
           /\ \A t : Parked(t)' <=> t # Candidate
           /\ Candidate \in ThreadIds
           /\ blocked_by'[Candidate] = NotBlocked
           /\ \A t \in ThreadIds \ {Candidate} : blocked_by'[t] = blocked_by[t]
           /\ UNCHANGED <<pending, holds>>
<1>1. Candidate \in ThreadIds /\ DOMAIN blocked_by = ThreadIds
  BY SyncTypes, TypeParts DEF SchedTypeOK, BlocksOK
<1>2. QED
  BY <1>1 DEF Switches, Parked, AboutToHold

\* A call returns: nobody's block changes.
LEMMA FinishesAt ==
    ASSUME SyncInv, Finishes
    PROVE  /\ current_thread \in ThreadIds
           /\ blocked_by[current_thread] = NotBlocked
           /\ \A t : Parked(t) <=> t # current_thread
           /\ \A t : Parked(t)' <=> t # current_thread
           /\ UNCHANGED blocked_by
           /\ pending'[current_thread] = NoCall
           /\ \A t \in ThreadIds \ {current_thread} : pending'[t] = pending[t]
<1>1. /\ current_thread \in ThreadIds /\ DOMAIN pending = ThreadIds
      /\ CurrentRunnable
  BY SyncTypes, TypeParts DEF SchedTypeOK, CallsOK, SyncInv, ThreadInv
<1>2. QED
  BY <1>1 DEF Finishes, Parked, CurrentRunnable

\* A candidate times out.
LEMMA TimesOutAt ==
    ASSUME SyncInv, TimesOut
    PROVE  /\ \A t : Parked(t) /\ Parked(t)'
           /\ Candidate \in ThreadIds
           /\ blocked_by'[Candidate] = BlockOn("Mutex", Target(pending[Candidate]), "none")
           /\ \A t \in ThreadIds \ {Candidate} : blocked_by'[t] = blocked_by[t]
           /\ UNCHANGED pending
<1>1. Candidate \in ThreadIds /\ DOMAIN blocked_by = ThreadIds
  BY SyncTypes, TypeParts DEF SchedTypeOK, BlocksOK
<1>2. \A t : Parked(t) /\ Parked(t)'
  BY DEF TimesOut, Parked
<1>3. conds[blocked_by[Candidate].obj].curr_mutex = Target(pending[Candidate])
  BY <1>1, <1>2, ParkedCall DEF TimesOut
<1>4. QED
  BY <1>1, <1>2, <1>3 DEF TimesOut

\* A deadline comes: no thread's block is of another kind.
LEMMA ExpiresAt ==
    ASSUME SyncInv, Expires
    PROVE  /\ \A t : Parked(t)' <=> Parked(t)
           /\ UNCHANGED pending
           /\ \A t \in ThreadIds :
                 /\ blocked_by'[t].kind = blocked_by[t].kind
                 /\ blocked_by'[t].obj = blocked_by[t].obj
                 /\ \/ blocked_by'[t] = blocked_by[t]
                    \/ blocked_by[t].deadline = "pending"
                       /\ blocked_by'[t].deadline = "passed"
<1>1. blocked_by \in [ThreadIds -> Block]
  BY SyncTypes, TypeParts DEF SchedTypeOK, BlocksOK
<1>2. PICK t \in ThreadIds :
         /\ blocked_by[t].deadline = "pending"
         /\ blocked_by' = [blocked_by EXCEPT
                              ![t] = [blocked_by[t] EXCEPT !.deadline = "passed"]]
  BY DEF Expires
<1>3. \A u \in ThreadIds :
         blocked_by'[u] = IF u = t THEN [blocked_by[t] EXCEPT !.deadline = "passed"]
                          ELSE blocked_by[u]
  BY <1>1, <1>2
<1>4. LET b == [blocked_by[t] EXCEPT !.deadline = "passed"]
      IN  b.kind = blocked_by[t].kind /\ b.obj = blocked_by[t].obj /\ b.deadline = "passed"
  BY <1>1 DEF Block
<1>5. QED
  BY <1>2, <1>3, <1>4 DEF Expires, Parked

(***************************************************************************)
(* Each part of the invariant is kept                                      *)
(***************************************************************************)
LEMMA CallsMatchStep ==
    ASSUME SyncInv, SyncStep
    PROVE  CallsMatch'
<1> SUFFICES ASSUME NEW t \in ThreadIds, Parked(t)'
             PROVE  Matches(pending[t], blocked_by[t])'
  BY DEF CallsMatch
<1>0. Parked(t) => Matches(pending[t], blocked_by[t])
  BY DEF SyncInv, CallsMatch
<1>1. ASSUME NEW b, NEW call, Stops(b, call), Matches(call, b)
      PROVE  Matches(pending[t], blocked_by[t])'
  <2>1. CASE t = current_thread
    BY <1>1, <2>1, StopsAt DEF Matches
  <2>2. CASE t # current_thread
    <3>1. Parked(t)
      BY <1>1, <2>2, StopsAt, RunningCall
    <3>2. QED
      BY <1>0, <1>1, <2>2, <3>1, StopsAt DEF Matches
  <2>3. QED
    BY <2>1, <2>2
<1>2. CASE Still \/ Idles
  BY <1>0, <1>2 DEF Still, Idles, Blocks, Parked, Matches
<1>3. CASE Leaves
  <2>1. PICK b, call : /\ Stops(b, call)
                       /\ call.fn \in {"join", "sleep", "suspend", "none"}
                       /\ b.kind \in {"Joining", "Sleeping", "NotBlocked"}
    BY <1>3 DEF Leaves
  <2>2. QED
    BY <1>1, <2>1 DEF Matches
<1>4. CASE BlocksOnMutex
  <2>1. \A id : Matches(CallTo("lock", id, NoMutex), BlockOn("Mutex", id, "none"))
    BY DEF Matches, LockingFns, Target, CallTo
  <2>2. QED
    BY <1>1, <1>4, <2>1 DEF BlocksOnMutex
<1>5. CASE WaitsOnCond
  <2>1. PICK id \in MutexIds, c \in CondPtrs, fn \in CondFns, d \in Deadlines :
           /\ fn = "cond_wait" => d = "none"
           /\ Stops(BlockOn("Condition", c, d), CallTo(fn, c, id))
    BY <1>5 DEF WaitsOnCond
  <2>2. Matches(CallTo(fn, c, id), BlockOn("Condition", c, d))
    BY <2>1 DEF Matches, CallTo, BlockOn
  <2>3. QED
    BY <1>1, <2>1, <2>2
<1>6. CASE BlocksOnSem
  <2>1. \A s : Matches(CallTo("sem_wait", s, NoMutex), BlockOn("Semaphore", s, "none"))
    BY DEF Matches, CallTo
  <2>2. QED
    BY <1>1, <1>6, <2>1 DEF BlocksOnSem
<1>7. CASE Finishes
  BY <1>0, <1>7, FinishesAt DEF Matches
<1>8. ASSUME Switches PROVE Matches(pending[t], blocked_by[t])'
  BY <1>0, <1>8, SwitchesAt DEF Matches
<1>9. CASE TimesOut
  <2>1. CASE t = Candidate
    <3>1. pending[t].fn \in CondFns
      BY <1>9, <2>1, TimesOutAt, ParkedCall DEF TimesOut, Waits
    <3>2. QED
      BY <1>9, <2>1, <3>1, TimesOutAt DEF Matches, LockingFns, CondFns
  <2>2. CASE t # Candidate
    BY <1>0, <1>9, <2>2, TimesOutAt DEF Matches
  <2>3. QED
    BY <2>1, <2>2
<1>10. CASE Expires
  <2>1. Parked(t) /\ UNCHANGED pending
    BY <1>10, ExpiresAt
  <2>2. CASE blocked_by'[t] = blocked_by[t]
    BY <1>0, <2>1, <2>2 DEF Matches
  <2>3. CASE /\ blocked_by[t].deadline = "pending"
             /\ blocked_by'[t].kind = blocked_by[t].kind
             /\ blocked_by'[t].obj = blocked_by[t].obj
    BY <1>0, <2>1, <2>3 DEF Matches, BlockOn
  <2>4. QED
    BY <1>10, <2>2, <2>3, ExpiresAt
<1>11. QED
  BY <1>2, <1>3, <1>4, <1>5, <1>6, <1>7, <1>8, <1>9, <1>10
  DEF SyncStep, Wakes, WakesFromMutex, WakesFromCond, WakesFromSem, HandsOver

\* A new map of mutexes in which no mutex is of another type or gone.
Lasting(ms) ==
    \A id \in MutexIds : Exists(mutexes, id) => ms[id].type = mutexes[id].type

\* Only pthread_mutex_destroy makes a mutex disappear.
LEMMA MutexesLast ==
    ASSUME SyncInv, SyncStep
    PROVE  \/ Lasting(mutexes')
           \/ Running /\ UNCHANGED Blocks
              /\ \E ms : \E id \in MutexIds :
                    /\ Agrees(ms)
                    /\ ~destroy_refused(ms, id)
                    /\ mutexes' = destroy_mutex(ms, id)
                    /\ UNCHANGED holds
                    /\ \/ Careless
                       \/ \A t \in ThreadIds : pending[t].fn \in LockingFns =>
                                                 Target(pending[t]) # id
<1>0. MutexMapOK(mutexes)
  BY SyncTypes, TypeParts DEF MutexTypeOK
<1>1. ASSUME NEW ms, Agrees(ms), NEW id \in MutexIds, NEW w, NEW by, NEW n,
             Sets(ms, mutexes', id, ms[id].type, w, by, n)
      PROVE  Lasting(mutexes')
  BY <1>1 DEF Agrees, Sets, Lasting
<1>2. CASE Idles
  <2>1. PICK ms : /\ Agrees(ms)
                  /\ \/ mutexes' = ms
                     \/ \E id \in MutexIds :
                           \/ \E t : mutexes' = take(ms, id, t)
                           \/ mutexes' = relevel(ms, id)
                           \/ mutexes' = unlock_mutex(ms, id)
                     \/ \E id \in MutexIds :
                           /\ ~destroy_refused(ms, id)
                           /\ mutexes' = destroy_mutex(ms, id)
                           /\ UNCHANGED holds
                           /\ \/ Careless
                              \/ \A t \in ThreadIds : pending[t].fn \in LockingFns =>
                                                        Target(pending[t]) # id
    BY <1>2 DEF Idles, MutexOp, Unlocks
  <2>2. CASE mutexes' = ms
    BY <2>1, <2>2 DEF Agrees, Lasting
  <2>3. ASSUME NEW id \in MutexIds,
               \/ \E t : mutexes' = take(ms, id, t)
               \/ mutexes' = relevel(ms, id)
               \/ mutexes' = unlock_mutex(ms, id)
        PROVE  Lasting(mutexes')
    <3>1. MutexMapOK(ms)
      BY <2>1 DEF Agrees
    <3>2. QED
      BY <1>1, <2>1, <2>3, <3>1, MutexEffects
  <2>4. QED
    BY <1>2, <2>1, <2>2, <2>3 DEF Idles
<1>3. CASE BlocksOnMutex \/ WaitsOnCond
  <2>1. PICK ms : \E id \in MutexIds :
           /\ Agrees(ms)
           /\ mutexes' = add_waiter(ms, id) \/ mutexes' = unlock_mutex(ms, id)
    BY <1>3 DEF BlocksOnMutex, WaitsOnCond, Unlocks
  <2>2. MutexMapOK(ms)
    BY <2>1 DEF Agrees
  <2>3. QED
    BY <1>1, <2>1, <2>2, MutexEffects
<1>4. ASSUME NEW id \in MutexIds, HandsOver(id) PROVE Lasting(mutexes')
  BY <1>0, <1>1, <1>4, MutexEffects, UseAgrees, SyncTypes DEF HandsOver, SyncInv
<1>5. CASE WakesFromMutex
  BY <1>4, <1>5, ParkedCall, SwitchesAt DEF WakesFromMutex, HandsOver
<1>6. CASE WakesFromCond
  BY <1>4, <1>6, ParkedCall, SwitchesAt DEF WakesFromCond, HandsOver
<1>7. CASE UNCHANGED mutexes
  BY <1>7 DEF Lasting
<1>8. QED
  BY <1>2, <1>3, <1>5, <1>6, <1>7, Zenon
  DEF SyncStep, Still, Leaves, BlocksOnSem, Finishes, Wakes, WakesFromSem,
      TimesOut, Expires

\* A mutex that can be destroyed is the target of no call, although only the
\* threads that wait in lock_mutex are counted: those that wait for a condition
\* are not, but then the guest is careful.
LEMMA TargetsSpared ==
    ASSUME CarefulGuest, SyncInv, Running, NEW ms, Agrees(ms), NEW id \in MutexIds,
           ~destroy_refused(ms, id), Careless,
           NEW t \in ThreadIds, pending[t].fn \in LockingFns
    PROVE  Target(pending[t]) # id
<1> SUFFICES ASSUME Target(pending[t]) = id PROVE FALSE
  OBVIOUS
<1>1. \A c \in CondPtrs : cond_word[c] # "COND"
  BY DEF SyncInv, CondsExact
<1>2. mutexes[id].waiting_count = 0
  BY DEF destroy_refused, Agrees
<1>3. IsFiniteSet({u \in ThreadIds : BlockedOn(u, "Mutex", id)})
  <2>1. IsFiniteSet(ThreadIds)
    BY BoundsAssumption, FS_Interval DEF ThreadIds
  <2>2. QED
    BY <2>1, FS_Subset
<1>4. ~BlockedOn(t, "Mutex", id)
  <2>1. Cardinality({u \in ThreadIds : BlockedOn(u, "Mutex", id)}) = 0
    BY <1>1, <1>2 DEF SyncInv, Counted, WaitersCounted
  <2>2. {u \in ThreadIds : BlockedOn(u, "Mutex", id)} = {}
    BY <1>3, <2>1, FS_EmptySet
  <2>3. QED
    BY <2>2
<1>5. t # current_thread
  BY RunningCall DEF NoCall, CallTo, LockingFns
<1>6. Parked(t)
  BY <1>5, RunningCall
<1>7. Matches(pending[t], blocked_by[t])
  BY <1>6 DEF SyncInv, CallsMatch
<1>8. blocked_by[t].kind # "Condition"
  BY <1>1, <1>6, ParkedCall
<1>9. blocked_by[t] = BlockOn("Mutex", id, "none")
  BY <1>7, <1>8 DEF Matches, LockingFns, CondFns
<1>10. QED
  BY <1>4, <1>9 DEF BlockedOn, BlockOn

LEMMA CallsExistStep ==
    ASSUME CarefulGuest, SyncInv, SyncStep
    PROVE  CallsExist'
<1> SUFFICES ASSUME NEW t \in ThreadIds, (pending[t].fn \in LockingFns)'
             PROVE  Exists(mutexes', Target(pending'[t]))
  BY DEF CallsExist, Exists
<1>0. pending[t].fn \in LockingFns =>
         Target(pending[t]) \in MutexIds /\ Exists(mutexes, Target(pending[t]))
  <2>1. CallOK(pending[t])
    BY SyncTypes
  <2>2. QED
    BY <2>1 DEF SyncInv, CallsExist, CallOK, LockingFns, Target
<1>1. ASSUME Lasting(mutexes'), pending'[t] = pending[t]
      PROVE  Exists(mutexes', Target(pending'[t]))
  BY <1>0, <1>1 DEF Lasting, Exists
\* The mutex is there when the call starts.
<1>2. ASSUME NEW ms, Agrees(ms), NEW id \in MutexIds, Exists(ms, id),
             mutexes' = add_waiter(ms, id) \/ mutexes' = unlock_mutex(ms, id),
             NEW b, NEW call, Stops(b, call), Target(call) = id
      PROVE  Exists(mutexes', Target(pending'[t]))
  <2>1. MutexMapOK(ms)
    BY <1>2 DEF Agrees
  <2>2. \E w, by, n : Sets(ms, mutexes', id, ms[id].type, w, by, n)
    BY <1>2, <2>1, MutexEffects
  <2>3. Exists(mutexes', id)
    BY <1>2, <2>2 DEF Sets, Exists
  <2>4. Lasting(mutexes')
    BY <1>2, <2>2 DEF Agrees, Sets, Lasting
  <2>5. QED
    BY <1>1, <1>2, <2>3, <2>4, StopsAt
<1>3. CASE Running /\ UNCHANGED Blocks
           /\ \E ms : \E id \in MutexIds :
                    /\ Agrees(ms)
                    /\ ~destroy_refused(ms, id)
                    /\ mutexes' = destroy_mutex(ms, id)
                    /\ \/ Careless
                       \/ \A u \in ThreadIds : pending[u].fn \in LockingFns =>
                                                 Target(pending[u]) # id
  <2>1. PICK ms : \E id \in MutexIds :
                    /\ Agrees(ms)
                    /\ ~destroy_refused(ms, id)
                    /\ mutexes' = destroy_mutex(ms, id)
                    /\ \/ Careless
                       \/ \A u \in ThreadIds : pending[u].fn \in LockingFns =>
                                                 Target(pending[u]) # id
    BY <1>3
  <2>2. PICK id \in MutexIds :
                    /\ Agrees(ms)
                    /\ ~destroy_refused(ms, id)
                    /\ mutexes' = destroy_mutex(ms, id)
                    /\ \/ Careless
                       \/ \A u \in ThreadIds : pending[u].fn \in LockingFns =>
                                                 Target(pending[u]) # id
    BY <2>1
  <2>3. pending' = pending
    BY <1>3 DEF Blocks
  <2>4. Target(pending[t]) # id
    BY <1>3, <2>2, <2>3, TargetsSpared
  <2>5. mutexes'[Target(pending[t])] = ms[Target(pending[t])]
    BY <1>0, <2>2, <2>3, <2>4, MutexEffects DEF Agrees, Sets
  <2>6. QED
    BY <1>0, <2>2, <2>3, <2>5 DEF Agrees, Exists
<1>4. ASSUME NEW call, NEW b, Stops(b, call), call.fn \notin LockingFns,
             Lasting(mutexes')
      PROVE  Exists(mutexes', Target(pending'[t]))
  BY <1>1, <1>4, StopsAt
<1>5. CASE Lasting(mutexes')
  <2>1. CASE Still \/ Idles \/ TimesOut \/ Expires
    BY <1>1, <1>5, <2>1 DEF Still, Idles, Blocks, TimesOut, Expires
  <2>2. CASE Leaves
    <3>1. PICK b, call : /\ Stops(b, call)
                         /\ call.fn \in {"join", "sleep", "suspend", "none"}
      BY <2>2 DEF Leaves
    <3>2. QED
      BY <1>4, <1>5, <3>1 DEF LockingFns
  <2>3. CASE BlocksOnMutex
    BY <1>2, <2>3 DEF BlocksOnMutex, Target, CallTo
  <2>4. CASE WaitsOnCond
    BY <1>2, <2>4 DEF WaitsOnCond, Unlocks, Target, CallTo, CondFns
  <2>5. CASE BlocksOnSem
    <3>1. \A s : CallTo("sem_wait", s, NoMutex).fn \notin LockingFns
      BY DEF LockingFns, CallTo
    <3>2. QED
      BY <1>4, <1>5, <2>5, <3>1 DEF BlocksOnSem
  <2>6. CASE Finishes
    <3>1. t # current_thread
      BY <2>6, FinishesAt DEF NoCall, CallTo, LockingFns
    <3>2. QED
      BY <1>1, <1>5, <2>6, <3>1, FinishesAt
  <2>7. CASE Switches
    BY <1>1, <1>5, <2>7 DEF Switches
  <2>8. QED
    BY <2>1, <2>2, <2>3, <2>4, <2>5, <2>6, <2>7, Zenon
    DEF SyncStep, Wakes, WakesFromMutex, WakesFromCond, WakesFromSem, HandsOver
<1>6. QED
  BY <1>3, <1>5, MutexesLast

\* h is the history of locks that the map ms of mutexes stands for.
Held(ms, h) ==
    /\ \A t \in ThreadIds, id \in MutexIds :
          h[t][id] = IF ms[id].locked_by = t THEN ms[id].lock_count ELSE 0
    /\ \A id \in MutexIds : ms[id].type # "RECURSIVE" => ms[id].lock_count <= 1

\* Locking and unlocking change the history as they change the map.
LEMMA HeldOps ==
    ASSUME TypeOK, NEW ms, MutexMapOK(ms), Held(ms, holds), NEW id \in MutexIds
    PROVE  /\ ms[id].locked_by = NoThread
              /\ mutexes' = take(ms, id, current_thread)
              /\ Obtained(current_thread, id)
                 => Held(mutexes', holds')
           /\ ms[id].locked_by = current_thread /\ ms[id].type = "RECURSIVE"
              /\ mutexes' = relevel(ms, id)
              /\ Obtained(current_thread, id)
                 => Held(mutexes', holds')
           /\ Unlocks(ms, id) => Held(mutexes', holds')
           /\ ~destroy_refused(ms, id) /\ mutexes' = destroy_mutex(ms, id)
              /\ UNCHANGED holds
                 => Held(mutexes', holds')
           /\ mutexes' = add_waiter(ms, id) /\ UNCHANGED holds
                 => Held(mutexes', holds')
<1> DEFINE m == ms[id]
           cur == current_thread
<1>0. /\ cur \in ThreadIds /\ NoThread \notin ThreadIds
      /\ m.lock_count \in Nat /\ (m.locked_by = NoThread <=> m.lock_count = 0)
      /\ holds \in [ThreadIds -> [MutexIds -> Int]]
      /\ m.locked_by \in ThreadIds \cup {NoThread}
  <2>1. SchedTypeOK /\ HoldsOK
    BY TypeParts
  <2>2. cur \in ThreadIds
    BY <2>1, LiveIds
  <2>3. NoThread \notin ThreadIds
    BY BoundsAssumption DEF ThreadIds, NoThread
  <2>4. /\ m.lock_count \in Nat /\ (m.locked_by = NoThread <=> m.lock_count = 0)
        /\ m.locked_by \in ThreadIds \cup {NoThread}
    BY DEF MutexMapOK, Mutex
  <2>5. QED
    BY <2>1, <2>2, <2>3, <2>4 DEF HoldsOK
<1>1. \A t \in ThreadIds, j \in MutexIds :
         holds[t][j] = IF ms[j].locked_by = t THEN ms[j].lock_count ELSE 0
  BY DEF Held
<1>2. \A j \in MutexIds : ms[j].type # "RECURSIVE" => ms[j].lock_count <= 1
  BY DEF Held
<1> HIDE DEF m, cur
\* Only mutex id changes, and only what threads have of it.
<1>3. ASSUME NEW type, NEW w, NEW by, NEW n, Sets(ms, mutexes', id, type, w, by, n),
             type # "RECURSIVE" => n <= 1,
             \A t \in ThreadIds : /\ holds'[t][id] = IF by = t THEN n ELSE 0
                                  /\ \A j \in MutexIds \ {id} : holds'[t][j] = holds[t][j]
      PROVE  Held(mutexes', holds')
  <2>1. ASSUME NEW t \in ThreadIds, NEW j \in MutexIds
        PROVE  holds'[t][j] = IF mutexes'[j].locked_by = t
                              THEN mutexes'[j].lock_count ELSE 0
    BY <1>1, <1>3 DEF Sets
  <2>2. ASSUME NEW j \in MutexIds, mutexes'[j].type # "RECURSIVE"
        PROVE  mutexes'[j].lock_count <= 1
    BY <1>2, <1>3, <2>2 DEF Sets
  <2>3. QED
    BY <2>1, <2>2 DEF Held
<1>4. ASSUME Obtained(cur, id)
      PROVE  \A t \in ThreadIds :
                /\ holds'[t][id] = IF t = cur THEN holds[t][id] + 1 ELSE holds[t][id]
                /\ \A j \in MutexIds \ {id} : holds'[t][j] = holds[t][j]
  BY <1>0, <1>4 DEF Obtained
<1>5. CASE /\ m.locked_by = NoThread /\ mutexes' = take(ms, id, cur)
           /\ Obtained(cur, id)
  <2>1. Sets(ms, mutexes', id, m.type, m.waiting_count, cur, 1)
    BY <1>5, MutexEffects DEF m
  <2>2. \A t \in ThreadIds : holds'[t][id] = IF cur = t THEN 1 ELSE 0
    BY <1>0, <1>1, <1>4, <1>5 DEF m
  <2>3. QED
    BY <1>3, <1>4, <1>5, <2>1, <2>2
<1>6. CASE /\ m.locked_by = cur /\ m.type = "RECURSIVE"
           /\ mutexes' = relevel(ms, id) /\ Obtained(cur, id)
  <2>1. Sets(ms, mutexes', id, m.type, m.waiting_count, cur, m.lock_count + 1)
    BY <1>6, MutexEffects DEF m
  <2>2. \A t \in ThreadIds : holds'[t][id] = IF cur = t THEN m.lock_count + 1 ELSE 0
    BY <1>0, <1>1, <1>4, <1>6 DEF m
  <2>3. QED
    BY <1>3, <1>4, <1>6, <2>1, <2>2
<1>7. CASE Unlocks(ms, id)
  <2>1. m.locked_by # NoThread /\ (m.type = "NORMAL" \/ m.locked_by = cur)
    BY <1>7 DEF Unlocks, unlock_refused, mutex_is_locked, m, cur
  <2>2. m.lock_count # 0
    BY <1>0, <2>1
  <2>3. CASE m.type = "NORMAL"
    <3>1. m.lock_count = 1
      <4>1. m.lock_count <= 1
        BY <1>2, <2>3 DEF m
      <4>2. m.lock_count \in Nat
        BY <1>0
      <4>3. QED
        BY <2>2, <4>1, <4>2
    <3>2. Sets(ms, mutexes', id, m.type, m.waiting_count, NoThread, 0)
      BY <1>7, <3>1, MutexEffects DEF Unlocks, m
    <3>3. holds' = [u \in ThreadIds |-> [holds[u] EXCEPT ![id] = 0]]
      BY <1>7, <2>3 DEF Unlocks, Released, m
    <3>4. \A t \in ThreadIds :
             /\ holds'[t][id] = 0
             /\ \A j \in MutexIds \ {id} : holds'[t][j] = holds[t][j]
      BY <1>0, <3>3
    <3>5. QED
      BY <1>3, <3>2, <3>4
  <2>4. CASE m.type # "NORMAL"
    <3>1. m.locked_by = cur
      BY <2>1, <2>4
    <3>2. holds' = [holds EXCEPT ![cur][id] = @ - 1]
      BY <1>7, <2>4 DEF Unlocks, Released, m, cur
    <3>3. \A t \in ThreadIds :
             /\ holds'[t][id] = IF t = cur THEN m.lock_count - 1 ELSE 0
             /\ \A j \in MutexIds \ {id} : holds'[t][j] = holds[t][j]
      BY <1>0, <1>1, <3>1, <3>2 DEF m
    <3>4. CASE m.lock_count = 1
      <4>1. Sets(ms, mutexes', id, m.type, m.waiting_count, NoThread, 0)
        BY <1>7, <3>4, MutexEffects DEF Unlocks, m
      <4>2. \A t \in ThreadIds : holds'[t][id] = 0
        BY <3>3, <3>4
      <4>3. QED
        BY <1>3, <3>3, <4>1, <4>2
    <3>5. CASE m.lock_count # 1
      <4>1. Sets(ms, mutexes', id, m.type, m.waiting_count, cur, m.lock_count - 1)
        BY <1>7, <3>1, <3>5, MutexEffects DEF Unlocks, m
      <4>2. m.type # "RECURSIVE" => m.lock_count - 1 <= 1
        BY <1>0, <1>2 DEF m
      <4>3. QED
        BY <1>3, <3>3, <4>1, <4>2
    <3>6. QED
      BY <3>4, <3>5
  <2>5. QED
    BY <2>3, <2>4
<1>8. CASE /\ ~destroy_refused(ms, id) /\ mutexes' = destroy_mutex(ms, id)
           /\ UNCHANGED holds
  <2>1. Sets(ms, mutexes', id, "absent", 0, NoThread, 0)
    BY <1>8, MutexEffects
  <2>2. m.locked_by = NoThread
    BY <1>8 DEF destroy_refused, mutex_is_locked, m
  <2>3. \A t \in ThreadIds : holds'[t][id] = 0
    BY <1>0, <1>1, <1>8, <2>2 DEF m
  <2>4. QED
    BY <1>3, <1>8, <2>1, <2>3
<1>9. CASE mutexes' = add_waiter(ms, id) /\ UNCHANGED holds
  <2>1. Sets(ms, mutexes', id, m.type, m.waiting_count + 1, m.locked_by, m.lock_count)
    BY <1>9, MutexEffects DEF m
  <2>2. m.type # "RECURSIVE" => m.lock_count <= 1
    BY <1>2 DEF m
  <2>3. \A t \in ThreadIds : holds'[t][id] = IF m.locked_by = t THEN m.lock_count ELSE 0
    BY <1>1, <1>9 DEF m
  <2>4. QED
    BY <1>3, <1>9, <2>1, <2>2, <2>3
<1>10. QED
  BY <1>5, <1>6, <1>7, <1>8, <1>9 DEF m, cur

\* While a thread executes guest code, no thread is about to get a mutex.
LEMMA HeldRunning ==
    ASSUME SyncInv, Running, NEW ms, Agrees(ms)
    PROVE  Held(ms, holds)
<1>1. ASSUME NEW t \in ThreadIds, NEW id \in MutexIds
      PROVE  holds[t][id] = IF ms[id].locked_by = t THEN ms[id].lock_count ELSE 0
  BY RunningCall DEF SyncInv, HoldsMatch, Agrees
<1>2. ASSUME NEW id \in MutexIds, ms[id].type # "RECURSIVE"
      PROVE  ms[id].lock_count <= 1
  <2>1. mutexes[id].type # "RECURSIVE"
    BY <1>2 DEF Agrees, Exists
  <2>2. QED
    BY <2>1 DEF SyncInv, HoldsMatch, Agrees
<1>3. QED
  BY <1>1, <1>2 DEF Held

LEMMA HoldsMatchStep ==
    ASSUME SyncInv, SyncStep
    PROVE  HoldsMatch'
<1>0. TypeOK /\ MutexMapOK(mutexes) /\ NoThread \notin ThreadIds
      /\ \A id \in MutexIds : mutexes[id].lock_count \in Nat
  BY SyncTypes, TypeParts, BoundsAssumption
  DEF MutexTypeOK, ThreadIds, NoThread, MutexMapOK, Mutex
<1>1. ASSUME Held(mutexes', holds'), \A t, id : ~AboutToHold(t, id)'
      PROVE  HoldsMatch'
  BY <1>1 DEF Held, HoldsMatch
<1>2. CASE Idles
  <2>1. Running /\ UNCHANGED Blocks /\ MutexOp
    BY <1>2 DEF Idles
  <2>2. \A t, id : ~AboutToHold(t, id)'
    BY <2>1, RunningCall DEF AboutToHold, Parked, Blocks
  <2>3. Held(mutexes', holds')
    <3>1. PICK ms :
             /\ Agrees(ms)
             /\ \/ mutexes' = ms /\ UNCHANGED holds
                \/ \E id \in MutexIds :
                     \/ /\ ms[id].locked_by = NoThread
                        /\ mutexes' = take(ms, id, current_thread)
                        /\ Obtained(current_thread, id)
                     \/ /\ ms[id].locked_by = current_thread
                        /\ ms[id].type = "RECURSIVE"
                        /\ mutexes' = relevel(ms, id)
                        /\ Obtained(current_thread, id)
                     \/ Unlocks(ms, id)
                     \/ /\ ~destroy_refused(ms, id)
                        /\ mutexes' = destroy_mutex(ms, id)
                        /\ UNCHANGED holds
      BY <2>1 DEF MutexOp
    <3>2. Held(ms, holds) /\ MutexMapOK(ms)
      BY <2>1, <3>1, HeldRunning DEF Agrees
    <3>3. QED
      BY <1>0, <3>1, <3>2, HeldOps
  <2>4. QED
    BY <1>1, <2>2, <2>3
<1>3. CASE BlocksOnMutex
  <2>1. PICK ms : \E id \in MutexIds :
           /\ Agrees(ms)
           /\ mutexes' = add_waiter(ms, id)
           /\ Stops(BlockOn("Mutex", id, "none"), CallTo("lock", id, NoMutex))
           /\ UNCHANGED holds
    BY <1>3 DEF BlocksOnMutex
  <2>2. Running /\ \A t, id : ~AboutToHold(t, id)'
    BY <2>1, StopsAt
  <2>3. Held(ms, holds) /\ MutexMapOK(ms)
    BY <2>1, <2>2, HeldRunning DEF Agrees
  <2>4. Held(mutexes', holds')
    BY <1>0, <2>1, <2>3, HeldOps
  <2>5. QED
    BY <1>1, <2>2, <2>4
<1>4. CASE WaitsOnCond
  <2>1. PICK ms : \E id \in MutexIds, c \in CondPtrs, fn \in CondFns, d \in Deadlines :
           /\ Agrees(ms)
           /\ Unlocks(ms, id)
           /\ Stops(BlockOn("Condition", c, d), CallTo(fn, c, id))
    BY <1>4 DEF WaitsOnCond
  <2>2. Running /\ \A t, id : ~AboutToHold(t, id)'
    BY <2>1, StopsAt
  <2>3. Held(ms, holds) /\ MutexMapOK(ms)
    BY <2>1, <2>2, HeldRunning DEF Agrees
  <2>4. Held(mutexes', holds')
    BY <1>0, <2>1, <2>3, HeldOps
  <2>5. QED
    BY <1>1, <2>2, <2>4
<1>5. CASE Leaves \/ BlocksOnSem
  <2>1. UNCHANGED <<mutexes, holds>> /\ \E b, call : Stops(b, call)
    BY <1>5 DEF Leaves, BlocksOnSem
  <2>2. Running /\ \A t, id : ~AboutToHold(t, id)'
    BY <2>1, StopsAt
  <2>3. Held(mutexes, holds)
    BY <1>0, <2>2, HeldRunning, UseAgrees DEF SyncInv
  <2>4. QED
    BY <1>1, <2>1, <2>2, <2>3
<1>6. CASE Still \/ TimesOut \/ Expires
  BY <1>6 DEF Still, TimesOut, Expires, SyncInv, HoldsMatch, AboutToHold, Parked,
              Blocks
\* The call returns with the mutex: from now on the thread holds it.
<1>7. CASE Finishes
  <2> DEFINE cur == current_thread
             call == pending[cur]
  <2>1. /\ cur \in ThreadIds /\ UNCHANGED mutexes
        /\ \A t \in ThreadIds, id \in MutexIds :
              AboutToHold(t, id) <=>
                  t = cur /\ call.fn \in LockingFns /\ Target(call) = id
        /\ \A t \in ThreadIds : \A id : ~AboutToHold(t, id)'
        /\ holds \in [ThreadIds -> [MutexIds -> Int]]
    BY <1>0, <1>7, FinishesAt, TypeParts
    DEF Finishes, AboutToHold, NoCall, CallTo, LockingFns, HoldsOK
  <2>2. ASSUME NEW t \in ThreadIds, NEW id \in MutexIds
        PROVE  holds'[t][id] = IF AboutToHold(t, id) THEN holds[t][id] + 1
                               ELSE holds[t][id]
    <3>1. CASE call.fn \in LockingFns
      <4>1. holds' = [holds EXCEPT ![cur][Target(call)] = @ + 1]
        BY <1>7, <3>1 DEF Finishes, Obtained
      <4>2. QED
        BY <2>1, <3>1, <4>1
    <3>2. CASE call.fn \notin LockingFns
      BY <1>7, <2>1, <3>2 DEF Finishes
    <3>3. QED
      BY <3>1, <3>2
  <2>3. ASSUME NEW t \in ThreadIds, NEW id \in MutexIds
        PROVE  holds'[t][id] = IF mutexes[id].locked_by = t
                               THEN mutexes[id].lock_count ELSE 0
    BY <2>2 DEF SyncInv, HoldsMatch
  <2>4. QED
    BY <2>1, <2>3 DEF SyncInv, HoldsMatch
<1>8. CASE Wakes \/ WakesFromSem
  <2>1. UNCHANGED mutexes /\ Switches
        /\ blocked_by[Candidate].kind \in {"NotBlocked", "Sleeping", "Joining", "Semaphore"}
    BY <1>8 DEF Wakes, WakesFromSem
  <2>2. pending[Candidate].fn \notin LockingFns
    <3>1. Candidate \in ThreadIds /\ Parked(Candidate)
      BY <2>1, SwitchesAt
    <3>2. CASE blocked_by[Candidate].kind = "Semaphore"
      <4>1. pending[Candidate] =
                CallTo("sem_wait", blocked_by[Candidate].obj, NoMutex)
        BY <3>1, <3>2, ParkedCall
      <4>2. QED
        BY <4>1 DEF LockingFns, CallTo
    <3>3. CASE blocked_by[Candidate].kind # "Semaphore"
      BY <2>1, <3>1, <3>3, ParkedCall DEF LockingFns
    <3>4. QED
      BY <3>2, <3>3
  <2>3. \A t, id : ~AboutToHold(t, id) /\ ~AboutToHold(t, id)'
    BY <2>1, <2>2, SwitchesAt DEF AboutToHold
  <2>4. UNCHANGED holds
    BY <2>1, SwitchesAt
  <2>5. QED
    BY <2>1, <2>3, <2>4 DEF SyncInv, HoldsMatch
\* The candidate has been given the mutex that its call is to return with.
<1>9. ASSUME NEW id \in MutexIds, HandsOver(id), Target(pending[Candidate]) = id,
             pending[Candidate].fn \in LockingFns
      PROVE  HoldsMatch'
  <2>1. \E w : Sets(mutexes, mutexes', id, mutexes[id].type, w, Candidate, 1)
    BY <1>0, <1>9, MutexEffects DEF HandsOver
  <2>2. /\ \A t, j : ~AboutToHold(t, j)
        /\ \A t, j : AboutToHold(t, j)' <=> t = Candidate /\ j = id
        /\ UNCHANGED holds /\ Candidate \in ThreadIds
    BY <1>9, SwitchesAt DEF HandsOver, AboutToHold
  <2>3. \A t \in ThreadIds : holds[t][id] = 0
    BY <1>0, <1>9, <2>2
    DEF HandsOver, mutex_is_locked, SyncInv, HoldsMatch
  <2>4. ASSUME NEW t \in ThreadIds, NEW j \in MutexIds
        PROVE  /\ holds'[t][j] = IF mutexes'[j].locked_by = t /\ ~AboutToHold(t, j)'
                                 THEN mutexes'[j].lock_count ELSE 0
               /\ AboutToHold(t, j)' => /\ mutexes'[j].locked_by = t
                                        /\ mutexes'[j].lock_count = 1
    <3>1. CASE j = id
      BY <2>1, <2>2, <2>3, <3>1 DEF Sets
    <3>2. CASE j # id
      BY <2>1, <2>2, <3>2 DEF Sets, SyncInv, HoldsMatch
    <3>3. QED
      BY <3>1, <3>2
  <2>5. ASSUME NEW j \in MutexIds, mutexes'[j].type # "RECURSIVE"
        PROVE  mutexes'[j].lock_count <= 1
    BY <2>1, <2>5 DEF Sets, SyncInv, HoldsMatch
  <2>6. QED
    BY <2>4, <2>5 DEF HoldsMatch
<1>10. CASE WakesFromMutex
  BY <1>9, <1>10, SwitchesAt, ParkedCall DEF WakesFromMutex, HandsOver
<1>11. CASE WakesFromCond
  <2>1. Parked(Candidate) /\ Candidate \in ThreadIds
    BY <1>11, SwitchesAt DEF WakesFromCond, HandsOver
  <2>2. /\ conds[blocked_by[Candidate].obj].curr_mutex = Target(pending[Candidate])
        /\ Target(pending[Candidate]) \in MutexIds
        /\ pending[Candidate].fn \in LockingFns
    BY <1>11, <2>1, ParkedCall DEF WakesFromCond, Waits, CondFns, LockingFns
  <2>3. QED
    BY <1>9, <1>11, <2>2 DEF WakesFromCond
<1>12. QED
  BY <1>2, <1>3, <1>4, <1>5, <1>6, <1>7, <1>8, <1>10, <1>11 DEF SyncStep

\* Sets of threads are finite; one more or one less thread counts as one.
LEMMA ThreadSets ==
    ASSUME NEW S \in SUBSET ThreadIds
    PROVE  /\ IsFiniteSet(S)
           /\ Cardinality(S) \in Nat
           /\ \A t : t \notin S => Cardinality(S \cup {t}) = Cardinality(S) + 1
           /\ \A t : t \in S => /\ Cardinality(S \ {t}) = Cardinality(S) - 1
                                /\ Cardinality(S) > 0
<1>1. IsFiniteSet(ThreadIds)
  BY BoundsAssumption, FS_Interval DEF ThreadIds
<1>2. IsFiniteSet(S)
  BY <1>1, FS_Subset
<1>3. Cardinality(S) \in Nat
  BY <1>2, FS_CardinalityType
<1>4. ASSUME NEW t, t \notin S PROVE Cardinality(S \cup {t}) = Cardinality(S) + 1
  BY <1>2, <1>4, FS_AddElement
<1>5. ASSUME NEW t, t \in S
      PROVE  Cardinality(S \ {t}) = Cardinality(S) - 1 /\ Cardinality(S) > 0
  <2>1. Cardinality(S \ {t}) = Cardinality(S) - 1
    BY <1>2, <1>5, FS_RemoveElement
  <2>2. Cardinality(S) # 0
    BY <1>2, <1>5, FS_EmptySet
  <2>3. QED
    BY <1>3, <2>1, <2>2
<1>6. QED
  BY <1>2, <1>3, <1>4, <1>5

\* The threads blocked on an object.
OnMutex(id) == {t \in ThreadIds : BlockedOn(t, "Mutex", id)}
OnSem(s)    == {t \in ThreadIds : BlockedOn(t, "Semaphore", s)}

\* Whom a step blocks on what, or unblocks.
LEMMA BlockSets ==
    ASSUME SyncInv
    PROVE  /\ \A b, call, k, obj :
                 Stops(b, call) =>
                    /\ ~BlockedOn(current_thread, k, obj) \/ k = "NotBlocked"
                    /\ \A t \in ThreadIds : BlockedOn(t, k, obj)' <=>
                         IF t = current_thread THEN b.kind = k /\ b.obj = obj
                         ELSE BlockedOn(t, k, obj)
           /\ \A k, obj :
                 Switches /\ k # "NotBlocked" =>
                    \A t \in ThreadIds : BlockedOn(t, k, obj)' <=>
                         BlockedOn(t, k, obj) /\ t # Candidate
           /\ \A k, obj : Finishes \/ Expires \/ UNCHANGED Blocks =>
                 \A t \in ThreadIds : BlockedOn(t, k, obj)' <=> BlockedOn(t, k, obj)
<1> USE DEF BlockedOn
<1>1. ASSUME NEW b, NEW call, NEW k, NEW obj, Stops(b, call)
      PROVE  /\ ~BlockedOn(current_thread, k, obj) \/ k = "NotBlocked"
             /\ \A t \in ThreadIds : BlockedOn(t, k, obj)' <=>
                         IF t = current_thread THEN b.kind = k /\ b.obj = obj
                         ELSE BlockedOn(t, k, obj)
  BY <1>1, StopsAt, RunningCall DEF NotBlocked, BlockOn
<1>2. ASSUME NEW k, NEW obj, Switches, k # "NotBlocked"
      PROVE  \A t \in ThreadIds : BlockedOn(t, k, obj)' <=>
                         BlockedOn(t, k, obj) /\ t # Candidate
  BY <1>2, SwitchesAt DEF NotBlocked, BlockOn
<1>3. ASSUME NEW k, NEW obj, Finishes \/ Expires \/ UNCHANGED Blocks
      PROVE  \A t \in ThreadIds : BlockedOn(t, k, obj)' <=> BlockedOn(t, k, obj)
  BY <1>3, FinishesAt, ExpiresAt DEF Blocks
<1>4. QED
  BY <1>1, <1>2, <1>3

\* Once a condition variable is in use, its word stays what it is; a step that
\* queues, wakes or times out a thread at one needs a variable in use.
LEMMA CondWords ==
    ASSUME SyncInv, SyncStep, \A c \in CondPtrs : cond_word'[c] # "COND"
    PROVE  /\ \A c \in CondPtrs : cond_word[c] # "COND"
           /\ UNCHANGED condVars
           /\ ~WaitsOnCond /\ ~WakesFromCond /\ ~TimesOut
<1>1. \A v, c : Hosts(v, c) /\ c \in CondPtrs => cond_word'[c] = "COND"
  BY SyncTypes, TypeParts DEF Hosts, CondTypeOK
<1>2. CASE UNCHANGED cond_word
  <2>1. \A c \in CondPtrs : cond_word[c] # "COND"
    BY <1>2
  <2>2. ~WaitsOnCond
    BY <1>1 DEF WaitsOnCond
  <2>3. ASSUME WakesFromCond \/ TimesOut PROVE FALSE
    <3>1. Parked(Candidate) /\ Candidate \in ThreadIds
          /\ blocked_by[Candidate].kind = "Condition"
      BY <2>3, SwitchesAt, TimesOutAt DEF WakesFromCond, HandsOver, TimesOut
    <3>2. QED
      BY <2>1, <3>1, ParkedCall
  <2>4. UNCHANGED condVars
    <3>1. CASE Finishes
      <4>1. pending[current_thread].fn \notin CondFns
        <5>1. CallOK(pending[current_thread])
          BY SyncTypes
        <5>2. pending[current_thread].fn \in CondFns =>
                 cond_word[pending[current_thread].obj] = "COND"
                 /\ pending[current_thread].obj \in CondPtrs
          BY <5>1, SyncTypes DEF CallOK, CondFns, SyncInv, CondsExact, CondsMatch, Waits
        <5>3. QED
          BY <2>1, <5>2
      <4>2. QED
        BY <3>1, <4>1 DEF Finishes, condVars
    <3>2. CASE Idles
      BY <1>1, <3>2 DEF Idles, CondOp
    <3>3. CASE ~Finishes /\ ~Idles
      BY <2>2, <2>3, <3>3, Zenon
      DEF SyncStep, Still, Leaves, BlocksOnMutex, BlocksOnSem, Wakes, WakesFromMutex,
          WakesFromSem, Expires
    <3>4. QED
      BY <3>1, <3>2, <3>3
  <2>5. QED
    BY <2>1, <2>2, <2>3, <2>4
<1>3. CASE ~UNCHANGED cond_word
  <2>1. CASE Idles
    BY <1>1, <1>3, <2>1 DEF Idles, CondOp, condVars
  <2>2. CASE WaitsOnCond
    BY <1>1, <2>2 DEF WaitsOnCond
  <2>3. CASE ~Idles /\ ~WaitsOnCond
    BY <1>3, <2>3, Zenon
    DEF SyncStep, Still, Leaves, BlocksOnMutex, BlocksOnSem, Finishes, Wakes,
        WakesFromMutex, WakesFromCond, WakesFromSem, TimesOut, Expires, condVars
  <2>4. QED
    BY <2>1, <2>2, <2>3
<1>4. QED
  BY <1>2, <1>3

LEMMA CountedStep ==
    ASSUME SyncInv, SyncStep
    PROVE  Counted'
<1> SUFFICES ASSUME \A c \in CondPtrs : cond_word'[c] # "COND",
                    NEW id \in MutexIds
             PROVE  mutexes'[id].waiting_count = Cardinality(OnMutex(id)')
  BY DEF Counted, WaitersCounted, OnMutex
<1>0. /\ mutexes[id].waiting_count = Cardinality(OnMutex(id))
      /\ MutexMapOK(mutexes) /\ Agrees(mutexes)
  BY CondWords, SyncTypes, TypeParts, UseAgrees
  DEF SyncInv, Counted, WaitersCounted, OnMutex, MutexTypeOK
<1>1. ASSUME \A t \in ThreadIds : BlockedOn(t, "Mutex", id)' <=> BlockedOn(t, "Mutex", id)
      PROVE  OnMutex(id)' = OnMutex(id)
  BY <1>1 DEF OnMutex
<1>2. ASSUME NEW b, NEW call, Stops(b, call), b.kind # "Mutex"
      PROVE  OnMutex(id)' = OnMutex(id)
  <2>1. /\ ~BlockedOn(current_thread, "Mutex", id)
        /\ \A t \in ThreadIds : BlockedOn(t, "Mutex", id)' <=>
              IF t = current_thread THEN b.kind = "Mutex" /\ b.obj = id
              ELSE BlockedOn(t, "Mutex", id)
    BY <1>2, BlockSets
  <2>2. QED
    BY <1>1, <1>2, <2>1
<1>3. ASSUME Switches, blocked_by[Candidate].kind # "Mutex"
      PROVE  OnMutex(id)' = OnMutex(id)
  BY <1>1, <1>3, BlockSets DEF BlockedOn
\* A mutex that is destroyed has nobody waiting.
<1>4. ASSUME NEW ms, Agrees(ms), NEW j \in MutexIds,
             \/ mutexes' = ms
             \/ \E t : mutexes' = take(ms, j, t)
             \/ mutexes' = relevel(ms, j)
             \/ mutexes' = unlock_mutex(ms, j)
             \/ ~destroy_refused(ms, j) /\ mutexes' = destroy_mutex(ms, j)
      PROVE  mutexes'[id].waiting_count = mutexes[id].waiting_count
  <2>1. MutexMapOK(ms) /\ ms[id].waiting_count = mutexes[id].waiting_count
    BY <1>4 DEF Agrees
  <2>2. CASE mutexes' = ms
    BY <2>1, <2>2
  <2>3. CASE ~destroy_refused(ms, j) /\ mutexes' = destroy_mutex(ms, j)
    <3>1. Sets(ms, mutexes', j, "absent", 0, NoThread, 0) /\ ms[j].waiting_count = 0
      BY <2>1, <2>3, MutexEffects DEF destroy_refused
    <3>2. QED
      BY <2>1, <3>1 DEF Sets
  <2>4. CASE \/ \E t : mutexes' = take(ms, j, t)
             \/ mutexes' = relevel(ms, j)
             \/ mutexes' = unlock_mutex(ms, j)
    <3>1. \E by, n : Sets(ms, mutexes', j, ms[j].type, ms[j].waiting_count, by, n)
      BY <2>1, <2>4, MutexEffects
    <3>2. QED
      BY <2>1, <3>1 DEF Sets
  <2>5. QED
    BY <1>4, <2>2, <2>3, <2>4
<1>5. CASE Idles
  <2>1. OnMutex(id)' = OnMutex(id)
    BY <1>1, <1>5, BlockSets DEF Idles
  <2>2. mutexes'[id].waiting_count = mutexes[id].waiting_count
    <3>1. PICK ms : /\ Agrees(ms)
                    /\ \/ mutexes' = ms
                       \/ \E j \in MutexIds :
                             \/ \E t : mutexes' = take(ms, j, t)
                             \/ mutexes' = relevel(ms, j)
                             \/ mutexes' = unlock_mutex(ms, j)
                             \/ ~destroy_refused(ms, j) /\ mutexes' = destroy_mutex(ms, j)
      BY <1>5 DEF Idles, MutexOp, Unlocks
    <3>2. QED
      BY <1>4, <3>1
  <2>3. QED
    BY <1>0, <2>1, <2>2
<1>6. CASE BlocksOnMutex
  <2>1. PICK ms : \E j \in MutexIds :
           /\ Agrees(ms) /\ mutexes' = add_waiter(ms, j)
           /\ Stops(BlockOn("Mutex", j, "none"), CallTo("lock", j, NoMutex))
    BY <1>6 DEF BlocksOnMutex
  <2>2. PICK j \in MutexIds :
           /\ Agrees(ms) /\ mutexes' = add_waiter(ms, j)
           /\ Stops(BlockOn("Mutex", j, "none"), CallTo("lock", j, NoMutex))
    BY <2>1
  <2>3. /\ MutexMapOK(ms) /\ ms[id].waiting_count = mutexes[id].waiting_count
        /\ current_thread \in ThreadIds
    BY <2>2, SyncTypes DEF Agrees
  <2>4. mutexes'[id].waiting_count =
            IF id = j THEN mutexes[id].waiting_count + 1 ELSE mutexes[id].waiting_count
    <3>1. Sets(ms, mutexes', j, ms[j].type, ms[j].waiting_count + 1,
               ms[j].locked_by, ms[j].lock_count)
      BY <2>2, <2>3, MutexEffects
    <3>2. QED
      BY <2>3, <3>1 DEF Sets
  <2>5. /\ ~BlockedOn(current_thread, "Mutex", id)
        /\ \A t \in ThreadIds : BlockedOn(t, "Mutex", id)' <=>
              IF t = current_thread THEN j = id ELSE BlockedOn(t, "Mutex", id)
    <3> DEFINE b == BlockOn("Mutex", j, "none")
    <3>1. b.kind = "Mutex" /\ b.obj = j
      BY DEF BlockOn
    <3>2. \E call : Stops(b, call)
      BY <2>2
    <3> HIDE DEF b
    <3>3. /\ ~BlockedOn(current_thread, "Mutex", id) \/ "Mutex" = "NotBlocked"
          /\ \A t \in ThreadIds : BlockedOn(t, "Mutex", id)' <=>
                IF t = current_thread THEN b.kind = "Mutex" /\ b.obj = id
                ELSE BlockedOn(t, "Mutex", id)
      BY <3>2, BlockSets
    <3>4. QED
      BY <3>1, <3>3
  <2>6. CASE id = j
    <3>1. OnMutex(id)' = OnMutex(id) \cup {current_thread}
      BY <2>3, <2>5, <2>6 DEF OnMutex
    <3>2. current_thread \notin OnMutex(id) /\ OnMutex(id) \in SUBSET ThreadIds
      BY <2>5 DEF OnMutex
    <3>3. QED
      BY <1>0, <2>4, <2>6, <3>1, <3>2, ThreadSets
  <2>7. CASE id # j
    BY <1>0, <1>1, <2>4, <2>5, <2>7
  <2>8. QED
    BY <2>6, <2>7
<1>7. CASE WakesFromMutex
  <2> DEFINE j == blocked_by[Candidate].obj
  <2>1. /\ Switches /\ Candidate \in ThreadIds
        /\ BlockedOn(Candidate, "Mutex", j) /\ j \in MutexIds
        /\ mutexes' = relock(mutexes, j, Candidate)
    BY <1>7, SwitchesAt, ParkedCall DEF WakesFromMutex, HandsOver, BlockedOn
  <2> HIDE DEF j
  <2>2. \A t \in ThreadIds : BlockedOn(t, "Mutex", id)' <=>
              BlockedOn(t, "Mutex", id) /\ t # Candidate
    BY <2>1, BlockSets
  <2>3. Sets(mutexes, mutexes', j, mutexes[j].type,
             IF mutexes[j].waiting_count > 0 THEN mutexes[j].waiting_count - 1
             ELSE mutexes[j].waiting_count, Candidate, 1)
    BY <1>0, <2>1, MutexEffects
  <2>4. CASE id = j
    <3>1. OnMutex(id)' = OnMutex(id) \ {Candidate}
      BY <2>2 DEF OnMutex
    <3>2. Candidate \in OnMutex(id) /\ OnMutex(id) \in SUBSET ThreadIds
      BY <2>1, <2>4 DEF OnMutex
    <3>3. QED
      BY <1>0, <2>3, <2>4, <3>1, <3>2, ThreadSets DEF Sets
  <2>5. CASE id # j
    <3>1. OnMutex(id)' = OnMutex(id)
      BY <1>1, <2>1, <2>2, <2>5 DEF BlockedOn
    <3>2. QED
      BY <1>0, <2>3, <2>5, <3>1 DEF Sets
  <2>6. QED
    BY <2>4, <2>5
<1>8. CASE Leaves \/ BlocksOnSem
  <2>1. UNCHANGED mutexes /\ \E b, call : Stops(b, call) /\ b.kind # "Mutex"
    <3>1. CASE Leaves
      BY <3>1 DEF Leaves
    <3>2. CASE BlocksOnSem
      <4>1. \A s : BlockOn("Semaphore", s, "none").kind # "Mutex"
        BY DEF BlockOn
      <4>2. QED
        BY <3>2, <4>1 DEF BlocksOnSem
    <3>3. QED
      BY <1>8, <3>1, <3>2
  <2>2. QED
    BY <1>0, <1>2, <2>1
<1>9. CASE Wakes \/ WakesFromSem
  BY <1>0, <1>3, <1>9 DEF Wakes, WakesFromSem
<1>10. CASE Still \/ Finishes \/ Expires
  <2>1. OnMutex(id)' = OnMutex(id) /\ UNCHANGED mutexes
    BY <1>1, <1>10, BlockSets DEF Still, Finishes, Expires
  <2>2. QED
    BY <1>0, <2>1
<1>11. QED
  BY <1>5, <1>6, <1>7, <1>8, <1>9, <1>10, CondWords DEF SyncStep

(***************************************************************************)
(* Condition variables                                                     *)
(***************************************************************************)
\* The operations on the two queues.
LEMMA QueueOps ==
    ASSUME NEW waiting \in Seq(ThreadIds), NEW waking \in Seq(ThreadIds),
           NEW B \in SUBSET ThreadIds, Queues(waiting, waking, B)
    PROVE  /\ waiting # <<>> =>
                 Queues(Tail(waiting), Append(waking, Head(waiting)), B)
           /\ Queues(<<>>, waking \o waiting, B)
           /\ \A t \in ThreadIds \ B : Queues(Append(waiting, t), waking, B \cup {t})
           /\ waking # <<>> =>
                 /\ Head(waking) \in B
                 /\ Queues(waiting, Tail(waking), B \ {Head(waking)})
           /\ \A t \in ThreadIds :
                 Queues(Without(waiting, t), Without(waking, t), B \ {t})
           /\ waiting = <<>> /\ waking = <<>> => B = {}
<1> USE DEF Queues
<1>0. /\ Once(waiting) /\ Once(waking)
      /\ \A t : InQueue(waiting, t) \/ InQueue(waking, t) => t \in ThreadIds
      /\ Once(<<>>) /\ \A t : ~InQueue(<<>>, t)
  BY DEF InQueue, Once
<1>1. ASSUME waiting # <<>>
      PROVE  Queues(Tail(waiting), Append(waking, Head(waiting)), B)
  <2>1. /\ Head(waiting) \in ThreadIds
        /\ InQueue(waiting, Head(waiting)) /\ Once(Tail(waiting))
        /\ \A u : InQueue(Tail(waiting), u) <=> InQueue(waiting, u) /\ u # Head(waiting)
    BY <1>0, <1>1, TailQueue
  <2>2. Tail(waiting) \in Seq(ThreadIds)
    BY <1>1
  <2>3. /\ \A u : InQueue(Append(waking, Head(waiting)), u)
                     <=> InQueue(waking, u) \/ u = Head(waiting)
        /\ Once(Append(waking, Head(waiting)))
    BY <1>0, <2>1, AppendQueue
  <2>4. QED
    BY <2>1, <2>3
<1>2. Queues(<<>>, waking \o waiting, B)
  <2>1. /\ \A u : InQueue(waking \o waiting, u) <=> InQueue(waking, u) \/ InQueue(waiting, u)
        /\ Once(waking \o waiting)
    BY <1>0, ConcatQueue
  <2>2. QED
    BY <1>0, <2>1
<1>3. ASSUME NEW t \in ThreadIds \ B PROVE Queues(Append(waiting, t), waking, B \cup {t})
  <2>1. /\ \A u : InQueue(Append(waiting, t), u) <=> InQueue(waiting, u) \/ u = t
        /\ Once(Append(waiting, t))
    BY <1>0, AppendQueue
  <2>2. QED
    BY <1>0, <2>1
<1>4. ASSUME waking # <<>>
      PROVE  /\ Head(waking) \in B
             /\ Queues(waiting, Tail(waking), B \ {Head(waking)})
  <2>1. /\ Head(waking) \in ThreadIds
        /\ InQueue(waking, Head(waking)) /\ Once(Tail(waking))
        /\ \A u : InQueue(Tail(waking), u) <=> InQueue(waking, u) /\ u # Head(waking)
    BY <1>0, <1>4, TailQueue
  <2>2. QED
    BY <1>0, <2>1
<1>5. ASSUME NEW t \in ThreadIds
      PROVE  Queues(Without(waiting, t), Without(waking, t), B \ {t})
  <2>1. /\ Once(Without(waiting, t)) /\ Once(Without(waking, t))
        /\ \A u : InQueue(Without(waiting, t), u) <=> InQueue(waiting, u) /\ u # t
        /\ \A u : InQueue(Without(waking, t), u) <=> InQueue(waking, u) /\ u # t
    BY <1>0, WithoutQueue
  <2>2. QED
    BY <2>1
<1>6. waiting = <<>> /\ waking = <<>> => B = {}
  BY <1>0
<1>7. QED
  BY <1>1, <1>2, <1>3, <1>4, <1>5, <1>6

\* After this step the host object of c has these fields; no other variable's
\* object is touched.
CondSets(c, present, waiting, waking, id, timed_out) ==
    /\ conds'[c].present = present
    /\ conds'[c].waiting = waiting
    /\ conds'[c].waking = waking
    /\ conds'[c].curr_mutex = id
    /\ conds'[c].timed_out = timed_out
    /\ \A e \in CondPtrs \ {c} : conds'[e] = conds[e]

\* The operations on condition variables field by field.
LEMMA CondEffects ==
    ASSUME CondTypeOK, NEW c \in CondPtrs, NEW v \in CondHostObject
    PROVE  LET o == conds[c]
           IN  /\ conds' = CondAt(c, v) =>
                     CondSets(c, v.present, v.waiting, v.waking, v.curr_mutex, v.timed_out)
               /\ \A id, t : conds' = CondAt(c, Queued(v, id, t)) =>
                     CondSets(c, v.present, Append(v.waiting, t), v.waking, id,
                              v.timed_out)
               /\ conds' = CondAt(c, Signalled(v)) =>
                     CondSets(c, v.present, Tail(v.waiting),
                              Append(v.waking, Head(v.waiting)), v.curr_mutex, v.timed_out)
               /\ conds' = CondAt(c, Broadcast(v)) =>
                     CondSets(c, v.present, <<>>, v.waking \o v.waiting, v.curr_mutex,
                              v.timed_out)
               /\ conds' = CondAt(c, NoCond) =>
                     CondSets(c, FALSE, <<>>, <<>>, NoMutex, {})
               /\ conds' = PopWaking(conds, c) =>
                     CondSets(c, o.present, o.waiting, Tail(o.waking), o.curr_mutex,
                              o.timed_out)
               /\ \A t : conds' = TimeOut(conds, c, t) =>
                     CondSets(c, o.present, Without(o.waiting, t), Without(o.waking, t),
                              o.curr_mutex, o.timed_out \cup {t})
               /\ \A t : conds' = ClearTimedOut(conds, c, t) =>
                     CondSets(c, o.present, o.waiting, o.waking, o.curr_mutex,
                              o.timed_out \ {t})
<1>0. conds \in [CondPtrs -> CondHostObject]
  BY DEF CondTypeOK, CondMapOK
<1>1. ASSUME NEW w, conds' = CondAt(c, w)
      PROVE  CondSets(c, w.present, w.waiting, w.waking, w.curr_mutex, w.timed_out)
  BY <1>0, <1>1 DEF CondAt, CondSets
<1>2. ASSUME NEW id, NEW t, conds' = CondAt(c, Queued(v, id, t))
      PROVE  CondSets(c, v.present, Append(v.waiting, t), v.waking, id, v.timed_out)
  <2> DEFINE w == Queued(v, id, t)
  <2>1. CondSets(c, w.present, w.waiting, w.waking, w.curr_mutex, w.timed_out)
    BY <1>1, <1>2
  <2>2. /\ w.present = v.present /\ w.waiting = Append(v.waiting, t)
        /\ w.waking = v.waking /\ w.curr_mutex = id /\ w.timed_out = v.timed_out
    BY DEF Queued, CondHostObject
  <2>3. QED
    BY <2>1, <2>2
<1>3. ASSUME conds' = CondAt(c, Signalled(v))
      PROVE  CondSets(c, v.present, Tail(v.waiting), Append(v.waking, Head(v.waiting)),
                      v.curr_mutex, v.timed_out)
  <2> DEFINE w == Signalled(v)
  <2>1. CondSets(c, w.present, w.waiting, w.waking, w.curr_mutex, w.timed_out)
    BY <1>1, <1>3
  <2>2. /\ w.present = v.present /\ w.waiting = Tail(v.waiting)
        /\ w.waking = Append(v.waking, Head(v.waiting))
        /\ w.curr_mutex = v.curr_mutex /\ w.timed_out = v.timed_out
    BY DEF Signalled, CondHostObject
  <2>3. QED
    BY <2>1, <2>2
<1>4. ASSUME conds' = CondAt(c, Broadcast(v))
      PROVE  CondSets(c, v.present, <<>>, v.waking \o v.waiting, v.curr_mutex, v.timed_out)
  <2> DEFINE w == Broadcast(v)
  <2>1. CondSets(c, w.present, w.waiting, w.waking, w.curr_mutex, w.timed_out)
    BY <1>1, <1>4
  <2>2. /\ w.present = v.present /\ w.waiting = <<>>
        /\ w.waking = v.waking \o v.waiting
        /\ w.curr_mutex = v.curr_mutex /\ w.timed_out = v.timed_out
    BY DEF Broadcast, CondHostObject
  <2>3. QED
    BY <2>1, <2>2
<1>5. ASSUME conds' = CondAt(c, NoCond)
      PROVE  CondSets(c, FALSE, <<>>, <<>>, NoMutex, {})
  BY <1>0, <1>5 DEF CondAt, CondSets, NoCond, FreshCond
<1>6. ASSUME conds' = PopWaking(conds, c)
      PROVE  CondSets(c, conds[c].present, conds[c].waiting, Tail(conds[c].waking),
                      conds[c].curr_mutex, conds[c].timed_out)
  BY <1>0, <1>6 DEF PopWaking, CondSets, CondHostObject
<1>7. ASSUME NEW t, conds' = TimeOut(conds, c, t)
      PROVE  CondSets(c, conds[c].present, Without(conds[c].waiting, t),
                      Without(conds[c].waking, t), conds[c].curr_mutex,
                      conds[c].timed_out \cup {t})
  BY <1>0, <1>7 DEF TimeOut, CondSets, CondHostObject
<1>8. ASSUME NEW t, conds' = ClearTimedOut(conds, c, t)
      PROVE  CondSets(c, conds[c].present, conds[c].waiting, conds[c].waking,
                      conds[c].curr_mutex, conds[c].timed_out \ {t})
  BY <1>0, <1>8 DEF ClearTimedOut, CondSets, CondHostObject
<1>9. QED
  BY <1>1, <1>2, <1>3, <1>4, <1>5, <1>6, <1>7, <1>8

\* What CondsExact says of one condition variable.
Fresh(c, t) ==
    /\ pending[t].fn = "cond_timedwait"
    /\ pending[t].obj = c
    /\ blocked_by[t].kind \in {"Mutex", "NotBlocked"}

CondPart(c) ==
    /\ \A t \in ThreadIds :
          Waits(t, c) => /\ conds[c].present
                         /\ cond_word[c] = "COND"
                         /\ blocked_by[t].kind = "Condition" =>
                                conds[c].curr_mutex = pending[t].mutex
    /\ QueuesExact(conds[c], c)
    /\ \A t \in conds[c].timed_out : Fresh(c, t)

LEMMA CondParts ==
    /\ CondsExact <=> /\ \A c \in CondPtrs : CondPart(c)
                      /\ Careless => \A c \in CondPtrs : cond_word[c] # "COND"
    /\ CondsExact' <=> /\ \A c \in CondPtrs : CondPart(c)'
                       /\ Careless => \A c \in CondPtrs : cond_word'[c] # "COND"
BY DEF CondsExact, CondsMatch, TimedOutFresh, CondPart, Fresh

\* A thread blocked on a condition variable is in a wait for it.
LEMMA CondBlocked ==
    ASSUME SyncInv, NEW t \in ThreadIds, NEW c, BlockedOn(t, "Condition", c)
    PROVE  Parked(t) /\ Waits(t, c) /\ c \in CondPtrs
<1>1. Parked(t)
  <2>1. SUFFICES ASSUME ~Parked(t) PROVE FALSE
    OBVIOUS
  <2>2. phase = "guest" /\ t = current_thread
    BY <2>1, SyncTypes, TypeParts DEF Parked, SchedTypeOK
  <2>3. QED
    BY <2>2 DEF SyncInv, ThreadInv, CurrentRunnable, BlockedOn, NotBlocked, BlockOn
<1>2. QED
  BY <1>1, ParkedCall DEF BlockedOn

\* A host object that a call uses is right, a new one because nobody waits.
LEMMA HostRight ==
    ASSUME SyncInv, NEW c \in CondPtrs, NEW v, Hosts(v, c)
    PROVE  /\ v \in CondHostObject /\ v.present /\ cond_word'[c] = "COND"
           /\ v.waiting \in Seq(ThreadIds) /\ v.waking \in Seq(ThreadIds)
           /\ Queues(v.waiting, v.waking, AtCond(c))
           /\ \A t \in ThreadIds : Waits(t, c) => v = conds[c]
           /\ \A t \in v.timed_out : t \in ThreadIds /\ Fresh(c, t)
<1>1. /\ v \in CondHostObject /\ v.present /\ cond_word'[c] = "COND"
      /\ v.waiting \in Seq(ThreadIds) /\ v.waking \in Seq(ThreadIds)
      /\ v.timed_out \subseteq ThreadIds
      /\ CondPart(c)
  BY SyncTypes, TypeParts, CondParts DEF Hosts, CondTypeOK, CondHostObject, SyncInv
<1>2. CASE v = conds[c]
  BY <1>1, <1>2 DEF CondPart, QueuesExact
<1>3. CASE v = FreshCond /\ \A t \in ThreadIds : ~Waits(t, c)
  <2>1. AtCond(c) = {}
    BY <1>3, CondBlocked DEF AtCond
  <2>2. v.waiting = <<>> /\ v.waking = <<>> /\ v.timed_out = {}
    BY <1>3 DEF FreshCond
  <2>3. Queues(<<>>, <<>>, {})
    BY DEF Queues, Once, InQueue
  <2>4. QED
    BY <1>1, <1>3, <2>1, <2>2, <2>3
<1>4. QED
  BY <1>2, <1>3 DEF Hosts

\* The steps that change who waits for c.
Touches(c) ==
    \/ WaitsOnCond /\ pending'[current_thread].obj = c
    \/ Finishes /\ Waits(current_thread, c)
    \/ (WakesFromCond \/ TimesOut) /\ blocked_by[Candidate].obj = c

\* For the others, c is as it was.
Quiet(c) ==
    /\ \A t \in ThreadIds : Waits(t, c)' =>
          /\ Waits(t, c) /\ pending'[t] = pending[t]
          /\ blocked_by'[t].kind = "Condition" => blocked_by[t].kind = "Condition"
    /\ AtCond(c)' = AtCond(c)
    /\ \A t \in ThreadIds : Fresh(c, t) => Fresh(c, t)'

LEMMA QuietStep ==
    ASSUME SyncInv, SyncStep, NEW c \in CondPtrs, ~Touches(c)
    PROVE  Quiet(c)
<1> USE DEF Waits, BlockedOn, Fresh
<1> DEFINE Same(t) ==
             /\ Waits(t, c)' =>
                   /\ Waits(t, c) /\ pending'[t] = pending[t]
                   /\ blocked_by'[t].kind = "Condition" => blocked_by[t].kind = "Condition"
             /\ BlockedOn(t, "Condition", c)' <=> BlockedOn(t, "Condition", c)
             /\ Fresh(c, t) => Fresh(c, t)'
<1>1. SUFFICES ASSUME NEW t \in ThreadIds PROVE Same(t)
  BY DEF Quiet, AtCond
<1>2. CASE Still \/ Idles
  BY <1>2 DEF Still, Idles, Blocks
<1>3. ASSUME NEW b, NEW call, Stops(b, call), call.fn \in CondFns => call.obj # c,
             b.kind = "Condition" => b.obj # c
      PROVE  Same(t)
  <2>1. CASE t = current_thread
    BY <1>3, <2>1, StopsAt, RunningCall DEF NoCall, CallTo, NotBlocked, BlockOn
  <2>2. CASE t # current_thread
    BY <1>3, <2>2, StopsAt
  <2>3. QED
    BY <2>1, <2>2
<1>4. CASE Leaves
  <2>1. PICK b, call : /\ Stops(b, call)
                       /\ call.fn \in {"join", "sleep", "suspend", "none"}
                       /\ b.kind \in {"Joining", "Sleeping", "NotBlocked"}
    BY <1>4 DEF Leaves
  <2>2. QED
    BY <1>3, <2>1 DEF CondFns
<1>5. CASE BlocksOnMutex
  <2>1. PICK id : Stops(BlockOn("Mutex", id, "none"), CallTo("lock", id, NoMutex))
    BY <1>5 DEF BlocksOnMutex
  <2>2. QED
    BY <1>3, <2>1 DEF CondFns, BlockOn, CallTo
<1>6. CASE BlocksOnSem
  <2>1. PICK s : Stops(BlockOn("Semaphore", s, "none"), CallTo("sem_wait", s, NoMutex))
    BY <1>6 DEF BlocksOnSem
  <2>2. QED
    BY <1>3, <2>1 DEF CondFns, BlockOn, CallTo
<1>7. CASE WaitsOnCond
  <2>1. PICK fn, e, d, id : Stops(BlockOn("Condition", e, d), CallTo(fn, e, id))
    BY <1>7 DEF WaitsOnCond
  <2>2. e # c
    BY <1>7, <2>1, StopsAt DEF Touches, CallTo
  <2>3. QED
    BY <1>3, <2>1, <2>2 DEF BlockOn, CallTo
<1>8. CASE Finishes
  <2>1. ~Waits(current_thread, c)
    BY <1>8 DEF Touches
  <2>2. CASE t = current_thread
    BY <1>8, <2>1, <2>2, FinishesAt DEF NoCall, CallTo, CondFns
  <2>3. CASE t # current_thread
    BY <1>8, <2>3, FinishesAt
  <2>4. QED
    BY <2>2, <2>3
<1>9. ASSUME Switches, ~BlockedOn(Candidate, "Condition", c) PROVE Same(t)
  <2>1. CASE t = Candidate
    BY <1>9, <2>1, SwitchesAt DEF NotBlocked, BlockOn
  <2>2. CASE t # Candidate
    BY <1>9, <2>2, SwitchesAt
  <2>3. QED
    BY <2>1, <2>2
<1>10. CASE Wakes \/ WakesFromMutex \/ WakesFromSem \/ WakesFromCond
  BY <1>9, <1>10 DEF Wakes, WakesFromMutex, WakesFromSem, WakesFromCond, HandsOver, Touches
<1>11. CASE TimesOut
  <2>1. blocked_by[Candidate].obj # c
    BY <1>11 DEF Touches
  <2>2. CASE t = Candidate
    BY <1>11, <2>1, <2>2, TimesOutAt DEF BlockOn
  <2>3. CASE t # Candidate
    BY <1>11, <2>3, TimesOutAt
  <2>4. QED
    BY <2>2, <2>3
<1>12. CASE Expires
  BY <1>12, ExpiresAt
<1>13. QED
  BY <1>2, <1>4, <1>5, <1>6, <1>7, <1>8, <1>10, <1>11, <1>12 DEF SyncStep

\* Calls that do not block keep c right.
LEMMA CondOpPart ==
    ASSUME SyncInv, NEW c \in CondPtrs, Running, Quiet(c), CondOp
    PROVE  CondPart(c)'
<1>0. /\ CondTypeOK /\ CondPart(c)
      /\ CondPart(c)' <=>
         /\ \A t \in ThreadIds :
               Waits(t, c)' => /\ conds'[c].present
                               /\ cond_word'[c] = "COND"
                               /\ blocked_by'[t].kind = "Condition" =>
                                      conds'[c].curr_mutex = pending'[t].mutex
         /\ Queues(conds'[c].waiting, conds'[c].waking, AtCond(c)')
         /\ \A t \in conds'[c].timed_out : Fresh(c, t)'
  BY SyncTypes, TypeParts, CondParts DEF SyncInv, CondPart, QueuesExact
<1>1. CASE conds'[c] = conds[c] /\ cond_word'[c] = cond_word[c]
  <2>1. \A t \in conds[c].timed_out : t \in ThreadIds
    BY <1>0 DEF CondTypeOK, CondMapOK, CondHostObject
  <2>2. QED
    BY <1>0, <1>1, <2>1 DEF CondPart, QueuesExact, Quiet
<1>2. ASSUME NEW v \in CondHostObject, Hosts(v, c),
             NEW waiting, NEW waking, NEW timed_out,
             CondSets(c, TRUE, waiting, waking, v.curr_mutex, timed_out),
             Queues(waiting, waking, AtCond(c)),
             timed_out = v.timed_out
      PROVE  CondPart(c)'
  <2>1. \A t \in ThreadIds : Waits(t, c) => v = conds[c]
    BY <1>2, HostRight
  <2>2. \A t \in timed_out : Fresh(c, t)'
    BY <1>2, HostRight DEF Quiet
  <2>3. cond_word'[c] = "COND"
    BY <1>2, HostRight
  <2>4. QED
    BY <1>0, <1>2, <2>1, <2>2, <2>3 DEF CondSets, Quiet, CondPart
<1>3. ASSUME NEW e \in CondPtrs, NEW v \in CondHostObject, Hosts(v, e),
             \/ conds' = CondAt(e, v)
             \/ v.waiting # <<>> /\ conds' = CondAt(e, Signalled(v))
             \/ conds' = CondAt(e, Broadcast(v))
             \/ (\A t \in ThreadIds : ~Waits(t, e)) /\ conds' = CondAt(e, NoCond)
      PROVE  CondPart(c)'
  <2>1. CASE e # c
    <3>1. conds'[c] = conds[c]
      BY <1>0, <1>3, <2>1, CondEffects DEF CondSets
    <3>2. cond_word'[c] = cond_word[c]
      BY <1>0, <1>3, <2>1 DEF Hosts, CondTypeOK
    <3>3. QED
      BY <1>1, <3>1, <3>2
  <2>2. CASE e = c
    <3>1. /\ v.present /\ Queues(v.waiting, v.waking, AtCond(c))
          /\ v.waiting \in Seq(ThreadIds) /\ v.waking \in Seq(ThreadIds)
          /\ AtCond(c) \in SUBSET ThreadIds
      BY <1>3, <2>2, HostRight DEF AtCond
    <3>2. CASE conds' = CondAt(c, v)
      <4>1. CondSets(c, v.present, v.waiting, v.waking, v.curr_mutex, v.timed_out)
        BY <1>0, <3>2, CondEffects
      <4>2. QED
        BY <1>2, <1>3, <2>2, <3>1, <4>1
    <3>3. CASE v.waiting # <<>> /\ conds' = CondAt(c, Signalled(v))
      <4>1. CondSets(c, v.present, Tail(v.waiting), Append(v.waking, Head(v.waiting)),
                     v.curr_mutex, v.timed_out)
        BY <1>0, <3>3, CondEffects
      <4>2. Queues(Tail(v.waiting), Append(v.waking, Head(v.waiting)), AtCond(c))
        BY <3>1, <3>3, QueueOps
      <4>3. QED
        BY <1>2, <1>3, <2>2, <3>1, <4>1, <4>2
    <3>4. CASE conds' = CondAt(c, Broadcast(v))
      <4>1. CondSets(c, v.present, <<>>, v.waking \o v.waiting, v.curr_mutex, v.timed_out)
        BY <1>0, <3>4, CondEffects
      <4>2. Queues(<<>>, v.waking \o v.waiting, AtCond(c))
        BY <3>1, QueueOps
      <4>3. QED
        BY <1>2, <1>3, <2>2, <3>1, <4>1, <4>2
    <3>5. CASE (\A t \in ThreadIds : ~Waits(t, c)) /\ conds' = CondAt(c, NoCond)
      <4>1. CondSets(c, FALSE, <<>>, <<>>, NoMutex, {})
        BY <1>0, <3>5, CondEffects
      <4>2. AtCond(c) = {}
        BY <3>5, CondBlocked DEF AtCond
      <4>3. Queues(<<>>, <<>>, {})
        BY DEF Queues, Once, InQueue
      <4>4. QED
        BY <1>0, <3>5, <4>1, <4>2, <4>3 DEF CondSets, Quiet
    <3>6. QED
      BY <1>3, <2>2, <3>2, <3>3, <3>4, <3>5
  <2>3. QED
    BY <2>1, <2>2
<1>4. QED
  BY <1>1, <1>3 DEF CondOp, condVars

\* Threads that start to wait, that are woken or that return from a wait do.
LEMMA CondTouchPart ==
    ASSUME SyncInv, SyncStep, NEW c \in CondPtrs, Touches(c)
    PROVE  CondPart(c)'
<1>0. /\ CondTypeOK /\ CondPart(c)
      /\ conds[c] \in CondHostObject /\ AtCond(c) \in SUBSET ThreadIds
      /\ conds[c].waiting \in Seq(ThreadIds) /\ conds[c].waking \in Seq(ThreadIds)
      /\ conds[c].timed_out \subseteq ThreadIds
      /\ Queues(conds[c].waiting, conds[c].waking, AtCond(c))
      /\ CondPart(c)' <=>
         /\ \A t \in ThreadIds :
               Waits(t, c)' => /\ conds'[c].present
                               /\ cond_word'[c] = "COND"
                               /\ blocked_by'[t].kind = "Condition" =>
                                      conds'[c].curr_mutex = pending'[t].mutex
         /\ Queues(conds'[c].waiting, conds'[c].waking, AtCond(c)')
         /\ \A t \in conds'[c].timed_out : Fresh(c, t)'
  BY SyncTypes, TypeParts, CondParts
  DEF SyncInv, CondPart, QueuesExact, CondTypeOK, CondMapOK, CondHostObject, AtCond
<1>1. CASE WaitsOnCond /\ pending'[current_thread].obj = c
  <2> DEFINE cur == current_thread
  <2>1. PICK id \in MutexIds, e \in CondPtrs, v \in CondHostObject,
             fn \in CondFns, d \in Deadlines :
           /\ Hosts(v, e)
           /\ v.curr_mutex = id \/ (v.waiting = <<>> /\ v.waking = <<>>)
           /\ conds' = CondAt(e, Queued(v, id, cur))
           /\ Stops(BlockOn("Condition", e, d), CallTo(fn, e, id))
    BY <1>1 DEF WaitsOnCond
  <2>2. e = c
    BY <1>1, <2>1, StopsAt DEF CallTo
  <2>3. /\ Running /\ cur \in ThreadIds
        /\ blocked_by'[cur].kind = "Condition" /\ blocked_by'[cur].obj = c
        /\ pending'[cur].mutex = id
        /\ \A t \in ThreadIds \ {cur} :
              blocked_by'[t] = blocked_by[t] /\ pending'[t] = pending[t]
        /\ pending[cur] = NoCall /\ blocked_by[cur] = NotBlocked
    BY <2>1, <2>2, StopsAt, RunningCall DEF BlockOn, CallTo
  <2>4. /\ v.present /\ Queues(v.waiting, v.waking, AtCond(c)) /\ cond_word'[c] = "COND"
        /\ v.waiting \in Seq(ThreadIds) /\ v.waking \in Seq(ThreadIds)
        /\ \A t \in ThreadIds : Waits(t, c) => v = conds[c]
        /\ \A t \in v.timed_out : t \in ThreadIds /\ Fresh(c, t)
    BY <2>1, <2>2, HostRight
  <2>5. CondSets(c, v.present, Append(v.waiting, cur), v.waking, id, v.timed_out)
    BY <1>0, <2>1, <2>2, CondEffects
  <2>6. AtCond(c)' = AtCond(c) \cup {cur} /\ cur \notin AtCond(c)
    BY <2>3 DEF AtCond, BlockedOn, NotBlocked, BlockOn
  <2>7. Queues(Append(v.waiting, cur), v.waking, AtCond(c)')
    <3>1. cur \in ThreadIds \ AtCond(c)
      BY <2>3, <2>6
    <3>2. Queues(Append(v.waiting, cur), v.waking, AtCond(c) \cup {cur})
      BY <1>0, <2>4, <3>1, QueueOps
    <3>3. QED
      BY <2>6, <3>2
\* The mutex is the one that the others released, if there are others.
  <2>8. ASSUME NEW t \in ThreadIds, Waits(t, c)', blocked_by'[t].kind = "Condition"
        PROVE  pending'[t].mutex = id
    <3>1. CASE t = cur
      BY <2>3, <3>1
    <3>2. CASE t # cur
      <4>1. Waits(t, c) /\ blocked_by[t].kind = "Condition" /\ Parked(t)
        BY <2>3, <2>8, <3>2, RunningCall DEF Waits
      <4>2. t \in AtCond(c)
        BY <4>1, ParkedCall DEF AtCond, BlockedOn, Waits
      <4>3. v.waiting # <<>> \/ v.waking # <<>>
        <5>1. InQueue(v.waiting, t) \/ InQueue(v.waking, t)
          BY <2>4, <4>2 DEF Queues
        <5>2. QED
          BY <5>1 DEF InQueue
      <4>4. v.curr_mutex = id /\ v = conds[c]
        BY <2>1, <2>4, <4>1, <4>3
      <4>5. QED
        BY <1>0, <2>3, <3>2, <4>1, <4>4 DEF CondPart
    <3>3. QED
      BY <3>1, <3>2
  <2>9. \A t \in v.timed_out : Fresh(c, t)'
    BY <2>3, <2>4 DEF Fresh, NoCall, CallTo
  <2>10. QED
    BY <1>0, <2>4, <2>5, <2>7, <2>8, <2>9 DEF CondSets
<1>2. CASE Finishes /\ Waits(current_thread, c)
  <2>1. CondSets(c, conds[c].present, conds[c].waiting, conds[c].waking,
                 conds[c].curr_mutex, conds[c].timed_out \ {current_thread})
    BY <1>0, <1>2, CondEffects DEF Finishes, Waits
  <2>2. AtCond(c)' = AtCond(c)
    BY <1>2, FinishesAt DEF AtCond, BlockedOn
  <2>3. cond_word'[c] = cond_word[c]
    BY <1>2 DEF Finishes
  <2>4. ASSUME NEW t \in ThreadIds, Waits(t, c)'
        PROVE  Waits(t, c) /\ pending'[t] = pending[t] /\ blocked_by'[t] = blocked_by[t]
    BY <1>2, <2>4, FinishesAt DEF Waits, NoCall, CallTo, CondFns
  <2>5. \A t \in conds[c].timed_out \ {current_thread} : Fresh(c, t)'
    BY <1>0, <1>2, FinishesAt DEF Fresh, CondPart
  <2>6. QED
    BY <1>0, <2>1, <2>2, <2>3, <2>4, <2>5 DEF CondSets, CondPart
<1>3. CASE (WakesFromCond \/ TimesOut) /\ blocked_by[Candidate].obj = c
  <2>0. PICK t : t = Candidate
    OBVIOUS
  <2>1. /\ t \in ThreadIds /\ blocked_by[t].kind = "Condition" /\ Parked(t)
        /\ UNCHANGED <<pending, cond_word>>
        /\ blocked_by'[t].kind \in {"Mutex", "NotBlocked"}
        /\ \A u \in ThreadIds \ {t} : blocked_by'[u] = blocked_by[u]
    BY <1>3, <2>0, SwitchesAt, TimesOutAt
    DEF WakesFromCond, HandsOver, TimesOut, NotBlocked, BlockOn
  <2>2. /\ pending[t].obj = c
        /\ blocked_by[t].deadline = "passed" => pending[t].fn = "cond_timedwait"
    BY <1>3, <2>0, <2>1, ParkedCall DEF Waits
  <2>3. AtCond(c)' = AtCond(c) \ {t}
    BY <1>3, <2>0, <2>1 DEF AtCond, BlockedOn
  <2>4. \A u : u \in ThreadIds /\ Fresh(c, u) => Fresh(c, u)'
    BY <2>1 DEF Fresh
  <2>5. ASSUME NEW waiting, NEW waking, NEW timed_out,
               CondSets(c, conds[c].present, waiting, waking, conds[c].curr_mutex, timed_out),
               Queues(waiting, waking, AtCond(c) \ {t}),
               \A u \in timed_out : Fresh(c, u)'
        PROVE  CondPart(c)'
    <3>1. ASSUME NEW u \in ThreadIds, Waits(u, c)'
          PROVE  /\ Waits(u, c) /\ pending'[u] = pending[u]
                 /\ blocked_by'[u].kind = "Condition" => blocked_by[u].kind = "Condition"
      BY <2>1, <3>1 DEF Waits
    <3>2. QED
      BY <1>0, <2>1, <2>3, <2>5, <3>1 DEF CondSets, CondPart
  <2>6. CASE IsFrontWaking(conds, c, t) /\ conds' = PopWaking(conds, c)
    <3>1. CondSets(c, conds[c].present, conds[c].waiting, Tail(conds[c].waking),
                   conds[c].curr_mutex, conds[c].timed_out)
      BY <1>0, <2>6, CondEffects
    <3>2. Queues(conds[c].waiting, Tail(conds[c].waking), AtCond(c) \ {t})
      BY <1>0, <2>6, QueueOps DEF IsFrontWaking
    <3>3. \A u \in conds[c].timed_out : Fresh(c, u)'
      BY <1>0, <2>4 DEF CondPart
    <3>4. QED
      BY <2>5, <3>1, <3>2, <3>3
  <2>7. CASE blocked_by[t].deadline = "passed" /\ conds' = TimeOut(conds, c, t)
    <3>1. CondSets(c, conds[c].present, Without(conds[c].waiting, t),
                   Without(conds[c].waking, t), conds[c].curr_mutex,
                   conds[c].timed_out \cup {t})
      BY <1>0, <2>7, CondEffects
    <3>2. Queues(Without(conds[c].waiting, t), Without(conds[c].waking, t), AtCond(c) \ {t})
      BY <1>0, <2>1, QueueOps
    <3>3. Fresh(c, t)'
      BY <2>1, <2>2, <2>7 DEF Fresh
    <3>4. \A u \in conds[c].timed_out \cup {t} : Fresh(c, u)'
      BY <1>0, <2>4, <3>3 DEF CondPart
    <3>5. QED
      BY <2>5, <3>1, <3>2, <3>4
  <2>8. QED
    BY <1>3, <2>0, <2>6, <2>7 DEF WakesFromCond, TimesOut
<1>4. QED
  BY <1>1, <1>2, <1>3 DEF Touches

LEMMA CondsExactStep ==
    ASSUME SyncInv, SyncStep
    PROVE  CondsExact'
<1>0. CondTypeOK /\ CondsExact
  BY SyncTypes, TypeParts DEF SyncInv
<1>1. ASSUME NEW c \in CondPtrs PROVE CondPart(c)'
  <2>1. CASE Touches(c)
    BY <2>1, CondTouchPart
  <2>2. CASE ~Touches(c)
    <3>1. Quiet(c)
      BY <2>2, QuietStep
    <3>2. CASE Idles
      BY <3>1, <3>2, CondOpPart DEF Idles
    <3>3. CASE conds'[c] = conds[c] /\ cond_word'[c] = cond_word[c]
      <4>1. CondPart(c) /\ \A t \in conds[c].timed_out : t \in ThreadIds
        BY <1>0, CondParts DEF CondTypeOK, CondMapOK, CondHostObject
      <4>2. QED
        BY <3>1, <3>3, <4>1 DEF CondPart, QueuesExact, Quiet
    <3>4. CASE WaitsOnCond
      <4>1. PICK e \in CondPtrs, v \in CondHostObject :
               \E fn \in CondFns, d \in Deadlines, id \in MutexIds :
                 /\ Hosts(v, e)
                 /\ conds' = CondAt(e, Queued(v, id, current_thread))
                 /\ Stops(BlockOn("Condition", e, d), CallTo(fn, e, id))
        BY <3>4 DEF WaitsOnCond
      <4>2. e # c
        BY <2>2, <3>4, <4>1, StopsAt DEF Touches, CallTo
      <4>3. conds'[c] = conds[c]
        <5>1. PICK id : conds' = CondAt(e, Queued(v, id, current_thread))
          BY <4>1
        <5>2. CondSets(e, v.present, Append(v.waiting, current_thread), v.waking, id,
                       v.timed_out)
          BY <1>0, <5>1, CondEffects
        <5>3. QED
          BY <4>2, <5>2 DEF CondSets
      <4>4. cond_word'[c] = cond_word[c]
        BY <1>0, <4>1, <4>2 DEF Hosts, CondTypeOK
      <4>5. QED
        BY <3>3, <4>3, <4>4
    <3>5. CASE Finishes
      <4>1. cond_word'[c] = cond_word[c]
        BY <3>5 DEF Finishes
      <4>2. CASE pending[current_thread].fn \notin CondFns
        BY <3>3, <3>5, <4>1, <4>2 DEF Finishes
      <4>3. CASE pending[current_thread].fn \in CondFns
        <5>1. PICK e : e = pending[current_thread].obj
          OBVIOUS
        <5>2. e \in CondPtrs /\ e # c
          BY <2>2, <3>5, <4>3, <5>1, SyncTypes DEF Touches, Waits, CallOK, CondFns
        <5>3. conds' = ClearTimedOut(conds, e, current_thread)
          BY <3>5, <4>3, <5>1 DEF Finishes
        <5>4. conds'[c] = conds[c]
          BY <1>0, <5>2, <5>3, CondEffects DEF CondSets, CondTypeOK, CondMapOK
        <5>5. QED
          BY <3>3, <4>1, <5>4
      <4>4. QED
        BY <4>2, <4>3
    <3>6. CASE WakesFromCond \/ TimesOut
      <4>1. PICK e : e = blocked_by[Candidate].obj
        OBVIOUS
      <4>2. e \in CondPtrs /\ e # c
        BY <2>2, <3>6, <4>1, SyncTypes DEF Touches, BlockOK, WakesFromCond, TimesOut
      <4>3. /\ conds' = PopWaking(conds, e) \/ conds' = TimeOut(conds, e, Candidate)
            /\ UNCHANGED cond_word
        BY <3>6, <4>1 DEF WakesFromCond, TimesOut
      <4>4. conds'[c] = conds[c]
        BY <1>0, <4>2, <4>3, CondEffects DEF CondSets, CondTypeOK, CondMapOK
      <4>5. QED
        BY <3>3, <4>3, <4>4
    <3>7. CASE UNCHANGED condVars
      BY <3>3, <3>7 DEF condVars
    <3>8. QED
      BY <3>2, <3>4, <3>5, <3>6, <3>7, Zenon
      DEF SyncStep, Still, Leaves, BlocksOnMutex, BlocksOnSem, Wakes, WakesFromMutex,
          WakesFromSem, Expires
  <2>3. QED
    BY <2>1, <2>2
<1>2. ASSUME Careless PROVE \A c \in CondPtrs : cond_word'[c] # "COND"
  <2>1. \A c \in CondPtrs : cond_word[c] # "COND"
    BY <1>0, <1>2 DEF CondsExact
  <2>2. UNCHANGED cond_word
    <3>1. ~ \E v, c : Hosts(v, c)
      BY <1>2 DEF Hosts
    <3>2. CASE Idles
      BY <3>1, <3>2 DEF Idles, CondOp, condVars
    <3>3. CASE ~Idles
      BY <3>1, <3>3, Zenon
      DEF SyncStep, Still, Leaves, BlocksOnMutex, WaitsOnCond, BlocksOnSem, Finishes,
          Wakes, WakesFromMutex, WakesFromCond, WakesFromSem, TimesOut, Expires,
          condVars
    <3>4. QED
      BY <3>2, <3>3
  <2>3. QED
    BY <2>1, <2>2
<1>3. QED
  BY <1>1, <1>2, CondParts

(***************************************************************************)
(* Semaphores                                                              *)
(***************************************************************************)
\* The threads that have been given a token and whose sem_wait has not
\* returned yet.
Granted(s) == {t \in ThreadIds : /\ pending[t] = CallTo("sem_wait", s, NoMutex)
                                 /\ blocked_by[t] = NotBlocked}

\* What TokensKept says of one semaphore.
SemPart(s) ==
    /\ sems[s].waiting = OnSem(s)
    /\ sems[s].value + passed[s] + Cardinality(Granted(s)) = posted[s]
    /\ ~sems[s].open => /\ sems[s] = ClosedSem
                        /\ posted[s] = 0 /\ passed[s] = 0

PlainWaits == \A t \in ThreadIds : pending[t].fn = "sem_wait" => pending[t].mutex = NoMutex

LEMMA SemParts ==
    /\ TokensKept <=> PlainWaits /\ \A s \in SemPtrs : SemPart(s)
    /\ TokensKept' <=> PlainWaits' /\ \A s \in SemPtrs : SemPart(s)'
BY DEF TokensKept, SemTokens, SemPart, OnSem, Granted, PlainWaits

\* sem_wait is always called with its semaphore alone.
LEMMA PlainWaitsStep ==
    ASSUME SyncInv, SyncStep
    PROVE  PlainWaits'
<1> SUFFICES ASSUME NEW t \in ThreadIds, pending'[t].fn = "sem_wait"
             PROVE  pending'[t].mutex = NoMutex
  BY DEF PlainWaits
<1>0. pending[t].fn = "sem_wait" => pending[t].mutex = NoMutex
  BY DEF SyncInv, TokensKept
<1>1. ASSUME NEW b, NEW call, Stops(b, call), call.fn = "sem_wait" => call.mutex = NoMutex
      PROVE  pending'[t].mutex = NoMutex
  BY <1>0, <1>1, StopsAt
<1>2. CASE Leaves
  <2>1. PICK b, call : Stops(b, call) /\ call.fn \in {"join", "sleep", "suspend", "none"}
    BY <1>2 DEF Leaves
  <2>2. QED
    BY <1>1, <2>1
<1>3. CASE BlocksOnMutex \/ BlocksOnSem \/ WaitsOnCond
  <2>1. PICK b, call : Stops(b, call)
           /\ \/ \E id : call = CallTo("lock", id, NoMutex)
              \/ \E s : call = CallTo("sem_wait", s, NoMutex)
              \/ \E fn \in CondFns : \E c, id : call = CallTo(fn, c, id)
    BY <1>3 DEF BlocksOnMutex, BlocksOnSem, WaitsOnCond
  <2>2. call.fn = "sem_wait" => call.mutex = NoMutex
    BY <2>1 DEF CallTo, CondFns
  <2>3. QED
    BY <1>1, <2>1, <2>2
<1>4. CASE Finishes
  BY <1>0, <1>4, FinishesAt DEF NoCall, CallTo
<1>5. CASE UNCHANGED pending
  BY <1>0, <1>5
<1>6. QED
  BY <1>2, <1>3, <1>4, <1>5, Zenon
  DEF SyncStep, Still, Idles, Blocks, Wakes, WakesFromMutex, WakesFromCond, WakesFromSem,
      HandsOver, Switches, TimesOut, Expires

\* Only a step that blocks on a semaphore, grants a token or returns from
\* sem_wait changes who waits and who has been given one.
LEMMA SemThreads ==
    ASSUME SyncInv, SyncStep, NEW s \in SemPtrs
    PROVE  IF BlocksOnSem /\ blocked_by'[current_thread].obj = s
           THEN /\ current_thread \notin OnSem(s)
                /\ OnSem(s)' = OnSem(s) \cup {current_thread}
                /\ Granted(s)' = Granted(s)
           ELSE IF WakesFromSem /\ blocked_by[Candidate].obj = s
           THEN /\ Candidate \notin Granted(s)
                /\ Granted(s)' = Granted(s) \cup {Candidate}
                /\ OnSem(s)' = OnSem(s) \ {Candidate}
           ELSE IF Finishes /\ pending[current_thread].fn = "sem_wait"
                   /\ pending[current_thread].obj = s
           THEN /\ current_thread \in Granted(s)
                /\ Granted(s)' = Granted(s) \ {current_thread}
                /\ OnSem(s)' = OnSem(s)
           ELSE Granted(s)' = Granted(s) /\ OnSem(s)' = OnSem(s)
<1> USE DEF OnSem, Granted
<1>1. ASSUME NEW b, NEW call, Stops(b, call), call.fn # "sem_wait", b.kind # "Semaphore"
      PROVE  Granted(s)' = Granted(s) /\ OnSem(s)' = OnSem(s)
  <2>1. ASSUME NEW t \in ThreadIds
        PROVE  /\ (pending'[t] = CallTo("sem_wait", s, NoMutex) /\ blocked_by'[t] = NotBlocked)
                  <=> (pending[t] = CallTo("sem_wait", s, NoMutex)
                       /\ blocked_by[t] = NotBlocked)
               /\ BlockedOn(t, "Semaphore", s)' <=> BlockedOn(t, "Semaphore", s)
    <3>1. CASE t = current_thread
      BY <1>1, <3>1, StopsAt, RunningCall
      DEF CallTo, NoCall, BlockedOn, NotBlocked, BlockOn
    <3>2. CASE t # current_thread
      BY <1>1, <3>2, StopsAt DEF BlockedOn
    <3>3. QED
      BY <3>1, <3>2
  <2>2. QED
    BY <2>1
<1>2. CASE BlocksOnSem
  <2> DEFINE cur == current_thread
  <2>1. PICK e : Stops(BlockOn("Semaphore", e, "none"), CallTo("sem_wait", e, NoMutex))
    BY <1>2 DEF BlocksOnSem
  <2>2. /\ blocked_by'[cur].obj = e /\ blocked_by'[cur].kind = "Semaphore"
        /\ blocked_by'[cur] # NotBlocked /\ cur \in ThreadIds
        /\ blocked_by[cur] = NotBlocked /\ pending[cur] = NoCall
        /\ \A t \in ThreadIds \ {cur} :
              blocked_by'[t] = blocked_by[t] /\ pending'[t] = pending[t]
    BY <2>1, StopsAt, RunningCall DEF BlockOn, NotBlocked
  <2>3. Granted(s)' = Granted(s)
    BY <2>2 DEF NoCall, CallTo
  <2>4. OnSem(s)' = IF e = s THEN OnSem(s) \cup {cur} ELSE OnSem(s)
    BY <2>2 DEF BlockedOn, NotBlocked, BlockOn
  <2>5. cur \notin OnSem(s)
    BY <2>2 DEF BlockedOn, NotBlocked, BlockOn
  <2>6. ~WakesFromSem /\ ~Finishes
    BY <2>1 DEF Stops, Running, WakesFromSem, Switches, Finishes, NoCall, CallTo
  <2>7. QED
    BY <1>2, <2>2, <2>3, <2>4, <2>5, <2>6
<1>3. CASE WakesFromSem
  <2>0. PICK t : t = Candidate
    OBVIOUS
  <2>1. /\ t \in ThreadIds /\ Parked(t) /\ blocked_by[t].kind = "Semaphore"
        /\ blocked_by'[t] = NotBlocked
        /\ \A u \in ThreadIds \ {t} : blocked_by'[u] = blocked_by[u]
        /\ UNCHANGED pending
    BY <1>3, <2>0, SwitchesAt DEF WakesFromSem
  <2>2. pending[t] = CallTo("sem_wait", blocked_by[t].obj, NoMutex)
    BY <2>1, ParkedCall
  <2>3. blocked_by[t] # NotBlocked
    BY <2>1 DEF NotBlocked, BlockOn
  <2>4. CASE blocked_by[t].obj = s
    <3>1. t \notin Granted(s) /\ Granted(s)' = Granted(s) \cup {t}
      BY <2>1, <2>2, <2>3, <2>4
    <3>2. OnSem(s)' = OnSem(s) \ {t}
      BY <2>1, <2>4 DEF BlockedOn, NotBlocked, BlockOn
    <3>3. ~BlocksOnSem
      BY <1>3 DEF WakesFromSem, Switches, BlocksOnSem, Stops, Running
    <3>4. QED
      BY <1>3, <2>0, <2>4, <3>1, <3>2, <3>3
  <2>5. CASE blocked_by[t].obj # s
    <3>1. Granted(s)' = Granted(s)
      BY <2>1, <2>2, <2>3, <2>5 DEF CallTo
    <3>2. OnSem(s)' = OnSem(s)
      BY <2>1, <2>5 DEF BlockedOn, NotBlocked, BlockOn
    <3>3. ~BlocksOnSem /\ ~Finishes
      BY <1>3 DEF WakesFromSem, Switches, BlocksOnSem, Stops, Running, Finishes
    <3>4. QED
      BY <2>0, <2>5, <3>1, <3>2, <3>3
  <2>6. QED
    BY <2>4, <2>5
<1>4. CASE Finishes
  <2> DEFINE cur == current_thread
  <2>1. /\ cur \in ThreadIds /\ blocked_by[cur] = NotBlocked /\ UNCHANGED blocked_by
        /\ pending'[cur] = NoCall
        /\ \A t \in ThreadIds \ {cur} : pending'[t] = pending[t]
    BY <1>4, FinishesAt
  <2>2. OnSem(s)' = OnSem(s)
    BY <2>1 DEF BlockedOn
  <2>3. ~BlocksOnSem /\ ~WakesFromSem
    BY <1>4 DEF Finishes, BlocksOnSem, Stops, Running, WakesFromSem, Switches, NoCall, CallTo
  <2>4. Granted(s)' = Granted(s) \ {cur}
    BY <2>1 DEF NoCall, CallTo
  <2>5. cur \in Granted(s) <=> pending[cur] = CallTo("sem_wait", s, NoMutex)
    BY <2>1
  <2>6. pending[cur] = CallTo("sem_wait", s, NoMutex)
            <=> pending[cur].fn = "sem_wait" /\ pending[cur].obj = s
    <3>1. pending[cur] \in Call /\ (pending[cur].fn = "sem_wait" => pending[cur].mutex = NoMutex)
      BY <2>1, SyncTypes DEF CallOK, SyncInv, TokensKept
    <3>2. QED
      BY <3>1 DEF Call, CallTo
  <2>7. QED
    BY <1>4, <2>2, <2>3, <2>4, <2>5, <2>6
<1>5. ASSUME Switches, blocked_by[Candidate].kind # "Semaphore"
      PROVE  Granted(s)' = Granted(s) /\ OnSem(s)' = OnSem(s)
  <2>0. PICK t : t = Candidate
    OBVIOUS
  <2>1. /\ t \in ThreadIds /\ Parked(t) /\ blocked_by[t].kind # "Semaphore"
        /\ blocked_by'[t] = NotBlocked
        /\ \A u \in ThreadIds \ {t} : blocked_by'[u] = blocked_by[u]
        /\ UNCHANGED pending
    BY <1>5, <2>0, SwitchesAt
  <2>2. Matches(pending[t], blocked_by[t])
    BY <2>1 DEF SyncInv, CallsMatch
  <2>3. pending[t] # CallTo("sem_wait", s, NoMutex)
    BY <2>1, <2>2 DEF Matches, LockingFns, CondFns, BlockOn, CallTo
  <2>4. QED
    BY <2>1, <2>3 DEF BlockedOn, NotBlocked, BlockOn
<1>6. ASSUME TimesOut
      PROVE  Granted(s)' = Granted(s) /\ OnSem(s)' = OnSem(s)
  <2>0. PICK t : t = Candidate
    OBVIOUS
  <2>1. /\ t \in ThreadIds /\ blocked_by[t].kind = "Condition"
        /\ blocked_by'[t].kind = "Mutex"
        /\ \A u \in ThreadIds \ {t} : blocked_by'[u] = blocked_by[u]
        /\ UNCHANGED pending
    BY <1>6, <2>0, TimesOutAt DEF TimesOut, BlockOn
  <2>2. QED
    BY <2>1 DEF BlockedOn, NotBlocked, BlockOn
<1>7. ASSUME Expires
      PROVE  Granted(s)' = Granted(s) /\ OnSem(s)' = OnSem(s)
  BY <1>7, ExpiresAt DEF BlockedOn, NotBlocked, BlockOn
<1>8. ASSUME Still \/ Idles
      PROVE  Granted(s)' = Granted(s) /\ OnSem(s)' = OnSem(s)
  BY <1>8 DEF Still, Idles, Blocks, BlockedOn
<1>9. ASSUME Leaves \/ BlocksOnMutex \/ WaitsOnCond
      PROVE  Granted(s)' = Granted(s) /\ OnSem(s)' = OnSem(s)
  <2>1. PICK b, call : Stops(b, call)
           /\ \/ /\ call.fn \in {"join", "sleep", "suspend", "none"}
                 /\ b.kind \in {"Joining", "Sleeping", "NotBlocked"}
              \/ \E id : /\ call = CallTo("lock", id, NoMutex)
                         /\ b = BlockOn("Mutex", id, "none")
              \/ \E fn \in CondFns : \E c, id, d :
                      /\ call = CallTo(fn, c, id)
                      /\ b = BlockOn("Condition", c, d)
    BY <1>9 DEF Leaves, BlocksOnMutex, WaitsOnCond
  <2>2. call.fn # "sem_wait" /\ b.kind # "Semaphore"
    BY <2>1 DEF CallTo, BlockOn, CondFns
  <2>3. QED
    BY <1>1, <2>1, <2>2
<1>10. ASSUME Wakes \/ WakesFromMutex \/ WakesFromCond
       PROVE  Granted(s)' = Granted(s) /\ OnSem(s)' = OnSem(s)
  BY <1>5, <1>10 DEF Wakes, WakesFromMutex, WakesFromCond, HandsOver
<1>11. CASE ~BlocksOnSem /\ ~WakesFromSem /\ ~Finishes
  <2>1. Granted(s)' = Granted(s) /\ OnSem(s)' = OnSem(s)
    BY <1>6, <1>7, <1>8, <1>9, <1>10, <1>11 DEF SyncStep
  <2>2. QED
    BY <1>11, <2>1
<1>12. QED
  BY <1>2, <1>3, <1>4, <1>11

SemAt(s, open, value, waiting, put, got) ==
    /\ sems'[s] = [open |-> open, value |-> value, waiting |-> waiting]
    /\ posted'[s] = put
    /\ passed'[s] = got

SemSame(s) == /\ sems'[s] = sems[s]
              /\ posted'[s] = posted[s]
              /\ passed'[s] = passed[s]

\* What the operations on semaphore e do to semaphore s.
LEMMA SemEffects ==
    ASSUME SemTypeOK, NEW e \in SemPtrs, NEW s \in SemPtrs, NEW t \in ThreadIds
    PROVE  LET v == sems[s].value
               w == sems[s].waiting
               put == posted[s]
               got == passed[s]
           IN  /\ \A n \in Nat : InitSem(e, n) =>
                     SemSame(s) \/ (/\ e = s /\ ~sems[s].open
                                    /\ SemAt(s, TRUE, n, {}, put + n, got))
               /\ CloseSem(e) =>
                     IF e = s THEN SemAt(s, FALSE, 0, {}, 0, 0) ELSE SemSame(s)
               /\ sem_increment(e) =>
                     IF e = s THEN sems[s].open /\ SemAt(s, TRUE, v + 1, w, put + 1, got)
                     ELSE SemSame(s)
               /\ sem_decrement(e) =>
                     IF e = s THEN sems[s].open /\ SemAt(s, TRUE, v - 1, w, put, got + 1)
                     ELSE SemSame(s)
               /\ EnqueueSemWaiter(e, t) =>
                     IF e = s THEN sems[s].open /\ SemAt(s, TRUE, v, w \cup {t}, put, got)
                     ELSE SemSame(s)
               /\ GrantSem(e, t) =>
                     IF e = s THEN sems[s].open /\ SemAt(s, TRUE, v - 1, w \ {t}, put, got)
                     ELSE SemSame(s)
<1> USE DEF SemAt, SemSame
<1>0. /\ sems \in [SemPtrs -> Semaphore] /\ sems[s] \in Semaphore /\ sems[e] \in Semaphore
      /\ posted \in [SemPtrs -> Nat] /\ passed \in [SemPtrs -> Nat]
  BY DEF SemTypeOK
<1>1. ASSUME NEW n \in Nat, InitSem(e, n)
      PROVE  SemSame(s) \/ (/\ e = s /\ ~sems[s].open
                            /\ SemAt(s, TRUE, n, {}, posted[s] + n, passed[s]))
  <2>1. CASE sems[e].open
    BY <1>1, <2>1 DEF InitSem
  <2>2. CASE ~sems[e].open
    <3>1. /\ sems' = [sems EXCEPT ![e] = [open |-> TRUE, value |-> n, waiting |-> {}]]
          /\ posted' = [posted EXCEPT ![e] = posted[e] + n] /\ passed' = passed
      BY <1>1, <2>2 DEF InitSem
    <3>2. CASE e = s
      BY <1>0, <2>2, <3>1, <3>2
    <3>3. CASE e # s
      BY <1>0, <3>1, <3>3
    <3>4. QED
      BY <3>2, <3>3
  <2>3. QED
    BY <2>1, <2>2
<1>2. ASSUME CloseSem(e)
      PROVE  IF e = s THEN SemAt(s, FALSE, 0, {}, 0, 0) ELSE SemSame(s)
  BY <1>0, <1>2 DEF CloseSem, ClosedSem
<1>3. ASSUME sem_increment(e)
      PROVE  IF e = s
             THEN sems[s].open /\ SemAt(s, TRUE, sems[s].value + 1, sems[s].waiting,
                                        posted[s] + 1, passed[s])
             ELSE SemSame(s)
  BY <1>0, <1>3 DEF sem_increment, Semaphore
<1>4. ASSUME sem_decrement(e)
      PROVE  IF e = s
             THEN sems[s].open /\ SemAt(s, TRUE, sems[s].value - 1, sems[s].waiting,
                                        posted[s], passed[s] + 1)
             ELSE SemSame(s)
  BY <1>0, <1>4 DEF sem_decrement, Semaphore
<1>5. ASSUME EnqueueSemWaiter(e, t)
      PROVE  IF e = s
             THEN sems[s].open /\ SemAt(s, TRUE, sems[s].value, sems[s].waiting \cup {t},
                                        posted[s], passed[s])
             ELSE SemSame(s)
  BY <1>0, <1>5 DEF EnqueueSemWaiter, Semaphore
<1>6. ASSUME GrantSem(e, t)
      PROVE  IF e = s
             THEN sems[s].open /\ SemAt(s, TRUE, sems[s].value - 1, sems[s].waiting \ {t},
                                        posted[s], passed[s])
             ELSE SemSame(s)
  BY <1>0, <1>6 DEF GrantSem, Semaphore
<1> HIDE DEF SemAt, SemSame
<1>7. QED
  BY <1>1, <1>2, <1>3, <1>4, <1>5, <1>6

\* How the sums of SemPart are kept.
LEMMA SemPartKept ==
    ASSUME SyncInv, NEW s \in SemPtrs
    PROVE  /\ SemSame(s) /\ OnSem(s)' = OnSem(s) /\ Granted(s)' = Granted(s)
                 => SemPart(s)'
           /\ \A v, w, put, got :
                 /\ SemAt(s, TRUE, v, w, put, got)
                 /\ w = OnSem(s)'
                 /\ v + got + Cardinality(Granted(s)') = put
                 => SemPart(s)'
<1>1. ASSUME SemSame(s), OnSem(s)' = OnSem(s), Granted(s)' = Granted(s)
      PROVE  SemPart(s)'
  <2>1. SemPart(s)
    BY SemParts DEF SyncInv
  <2>2. QED
    BY <1>1, <2>1 DEF SemPart, SemSame
<1>2. ASSUME NEW v, NEW w, NEW put, NEW got, SemAt(s, TRUE, v, w, put, got),
             w = OnSem(s)', v + got + Cardinality(Granted(s)') = put
      PROVE  SemPart(s)'
  BY <1>2 DEF SemPart, SemAt
<1>3. QED
  BY <1>1, <1>2

\* A call that does not block.
LEMMA SemOpPart ==
    ASSUME SyncInv, NEW s \in SemPtrs, Idles,
           OnSem(s)' = OnSem(s), Granted(s)' = Granted(s)
    PROVE  SemPart(s)'
<1>1. /\ SemTypeOK /\ SemPart(s) /\ sems[s] \in Semaphore
      /\ posted[s] \in Nat /\ passed[s] \in Nat
      /\ current_thread \in ThreadIds /\ pending[current_thread] = NoCall
      /\ \A t : Parked(t) <=> t # current_thread
  BY SyncTypes, TypeParts, SemParts, RunningCall DEF SyncInv, SemTypeOK, Idles
<1>2. Cardinality(Granted(s)) \in Nat
  BY ThreadSets DEF Granted
<1>3. CASE UNCHANGED semVars
  BY <1>3, SemPartKept DEF semVars, SemSame
<1>4. ASSUME NEW e \in SemPtrs, NEW n \in Nat, InitSem(e, n)
      PROVE  SemPart(s)'
  <2>1. SemSame(s) \/ (/\ ~sems[s].open
                       /\ SemAt(s, TRUE, n, {}, posted[s] + n, passed[s]))
    BY <1>1, <1>4, SemEffects
  <2>2. ASSUME ~sems[s].open, SemAt(s, TRUE, n, {}, posted[s] + n, passed[s])
        PROVE  SemPart(s)'
    <3>1. OnSem(s) = {} /\ passed[s] = 0 /\ posted[s] = 0 /\ Cardinality(Granted(s)) = 0
      BY <1>1, <1>2, <2>2 DEF SemPart, ClosedSem
    <3>2. {} = OnSem(s)' /\ n + passed[s] + Cardinality(Granted(s)') = posted[s] + n
      BY <3>1
    <3>3. QED
      BY <2>2, <3>2, SemPartKept
  <2>3. QED
    BY <2>1, <2>2, SemPartKept
<1>5. ASSUME NEW e \in SemPtrs, CloseSem(e),
             \A t \in ThreadIds : ~(pending[t].fn = "sem_wait" /\ pending[t].obj = e)
      PROVE  SemPart(s)'
  <2>1. IF e = s THEN SemAt(s, FALSE, 0, {}, 0, 0) ELSE SemSame(s)
    BY <1>1, <1>5, SemEffects
  <2>2. CASE e = s
    <3>1. Granted(s) = {}
      BY <1>5, <2>2 DEF Granted, CallTo
    <3>2. \A t \in ThreadIds : ~BlockedOn(t, "Semaphore", s)
      <4>1. ASSUME NEW t \in ThreadIds, BlockedOn(t, "Semaphore", s) PROVE FALSE
        <5>1. t # current_thread
          BY <4>1, RunningCall DEF Idles, BlockedOn, NotBlocked, BlockOn
        <5>2. pending[t] = CallTo("sem_wait", s, NoMutex)
          BY <1>1, <4>1, <5>1, ParkedCall DEF BlockedOn
        <5>3. QED
          BY <1>5, <2>2, <5>2 DEF CallTo
      <4>2. QED
        BY <4>1
    <3>3. OnSem(s) = {} /\ Cardinality(Granted(s)) = 0
      BY <3>1, <3>2, FS_EmptySet DEF OnSem
    <3>4. QED
      BY <2>1, <2>2, <3>3 DEF SemPart, SemAt, ClosedSem
  <2>3. QED
    BY <2>1, <2>2, SemPartKept
<1>6. ASSUME NEW e \in SemPtrs, sem_increment(e) \/ sem_decrement(e)
      PROVE  SemPart(s)'
  <2>1. \/ SemSame(s)
        \/ SemAt(s, TRUE, sems[s].value + 1, sems[s].waiting, posted[s] + 1, passed[s])
        \/ SemAt(s, TRUE, sems[s].value - 1, sems[s].waiting, posted[s], passed[s] + 1)
    BY <1>1, <1>6, SemEffects
  <2>2. /\ sems[s].waiting = OnSem(s)'
        /\ sems[s].value + passed[s] + Cardinality(Granted(s)') = posted[s]
        /\ sems[s].value \in Nat /\ Cardinality(Granted(s)') \in Nat
    BY <1>1, <1>2 DEF SemPart, Semaphore
  <2>3. /\ (sems[s].value + 1) + passed[s] + Cardinality(Granted(s)') = posted[s] + 1
        /\ (sems[s].value - 1) + (passed[s] + 1) + Cardinality(Granted(s)') = posted[s]
    BY <1>1, <2>2
  <2>4. QED
    BY <2>1, <2>2, <2>3, SemPartKept
<1>7. QED
  BY <1>3, <1>4, <1>5, <1>6 DEF Idles, SemOp

\* A token is in one place after every step.
LEMMA TokensKeptStep ==
    ASSUME SyncInv, SyncStep
    PROVE  TokensKept'
<1> SUFFICES ASSUME NEW s \in SemPtrs PROVE SemPart(s)'
  BY SemParts, PlainWaitsStep
<1>1. /\ SemTypeOK /\ SemPart(s) /\ sems[s] \in Semaphore
      /\ posted[s] \in Nat /\ passed[s] \in Nat
      /\ current_thread \in ThreadIds /\ Candidate \in ThreadIds
  BY SyncTypes, TypeParts, SemParts DEF SyncInv, SemTypeOK, SchedTypeOK
<1>2. /\ Cardinality(Granted(s)) \in Nat
      /\ \A t : t \notin Granted(s) =>
            Cardinality(Granted(s) \cup {t}) = Cardinality(Granted(s)) + 1
      /\ \A t : t \in Granted(s) =>
            Cardinality(Granted(s) \ {t}) = Cardinality(Granted(s)) - 1
  BY ThreadSets DEF Granted
<1>3. sems[s].value \in Nat
  BY <1>1 DEF Semaphore
<1>4. CASE BlocksOnSem
  <2>1. PICK e \in SemPtrs :
           /\ EnqueueSemWaiter(e, current_thread)
           /\ Stops(BlockOn("Semaphore", e, "none"), CallTo("sem_wait", e, NoMutex))
    BY <1>4 DEF BlocksOnSem
  <2>2. blocked_by'[current_thread].obj = e
    BY <2>1, StopsAt DEF BlockOn
  <2>3. ~WakesFromSem /\ ~Finishes
    BY <2>1, RunningCall DEF Stops, Running, WakesFromSem, Switches, Finishes, NoCall, CallTo
  <2>4. Granted(s)' = Granted(s)
        /\ OnSem(s)' = IF e = s THEN OnSem(s) \cup {current_thread} ELSE OnSem(s)
    BY <1>4, <2>2, <2>3, SemThreads
  <2>5. IF e = s THEN SemAt(s, TRUE, sems[s].value, sems[s].waiting \cup {current_thread},
                            posted[s], passed[s])
        ELSE SemSame(s)
    BY <1>1, <2>1, SemEffects
  <2>6. CASE e = s
    <3>1. /\ sems[s].waiting \cup {current_thread} = OnSem(s)'
          /\ sems[s].value + passed[s] + Cardinality(Granted(s)') = posted[s]
      BY <1>1, <2>4, <2>6 DEF SemPart
    <3>2. QED
      BY <2>5, <2>6, <3>1, SemPartKept
  <2>7. QED
    BY <2>4, <2>5, <2>6, SemPartKept
<1>5. CASE WakesFromSem
  <2>0. PICK t \in ThreadIds : t = Candidate
    BY <1>1
  <2>1. PICK e \in SemPtrs : e = blocked_by[t].obj /\ GrantSem(e, t)
    BY <1>5, <2>0, SwitchesAt, ParkedCall DEF WakesFromSem
  <2>2. ~BlocksOnSem /\ ~Finishes
    BY <1>5 DEF WakesFromSem, Switches, BlocksOnSem, Stops, Running, Finishes
  <2>3. IF e = s
        THEN /\ t \notin Granted(s) /\ Granted(s)' = Granted(s) \cup {t}
             /\ OnSem(s)' = OnSem(s) \ {t}
        ELSE Granted(s)' = Granted(s) /\ OnSem(s)' = OnSem(s)
    BY <1>5, <2>0, <2>1, <2>2, SemThreads
  <2>4. IF e = s THEN SemAt(s, TRUE, sems[s].value - 1, sems[s].waiting \ {t},
                            posted[s], passed[s])
        ELSE SemSame(s)
    BY <1>1, <2>1, SemEffects
  <2>5. CASE e = s
    <3>1. /\ sems[s].waiting \ {t} = OnSem(s)'
          /\ sems[s].value + passed[s] + Cardinality(Granted(s)) = posted[s]
          /\ Cardinality(Granted(s)') = Cardinality(Granted(s)) + 1
      BY <1>1, <1>2, <2>3, <2>5 DEF SemPart
    <3>2. (sems[s].value - 1) + passed[s] + Cardinality(Granted(s)') = posted[s]
      BY <1>1, <1>2, <1>3, <3>1
    <3>3. QED
      BY <2>4, <2>5, <3>1, <3>2, SemPartKept
  <2>6. QED
    BY <2>3, <2>4, <2>5, SemPartKept
<1>6. CASE Finishes
  <2>1. ~BlocksOnSem /\ ~WakesFromSem
    BY <1>6 DEF Finishes, BlocksOnSem, Stops, Running, WakesFromSem, Switches, NoCall, CallTo
  <2> DEFINE own == pending[current_thread].fn = "sem_wait"
                    /\ pending[current_thread].obj = s
  <2>2. IF own THEN /\ current_thread \in Granted(s)
                    /\ Granted(s)' = Granted(s) \ {current_thread}
                    /\ OnSem(s)' = OnSem(s)
        ELSE Granted(s)' = Granted(s) /\ OnSem(s)' = OnSem(s)
    BY <1>6, <2>1, SemThreads
  <2>3. /\ sems' = sems /\ posted' = posted
        /\ passed'[s] = IF own THEN passed[s] + 1 ELSE passed[s]
    BY <1>1, <1>6 DEF Finishes, SemTypeOK
  <2>4. CASE own
    <3>1. /\ sems[s].waiting = OnSem(s)'
          /\ sems[s].value + passed[s] + Cardinality(Granted(s)) = posted[s]
          /\ Cardinality(Granted(s)') = Cardinality(Granted(s)) - 1
      BY <1>1, <1>2, <2>2, <2>4 DEF SemPart
    <3>2. sems[s].open
      <4>1. Cardinality(Granted(s)) > 0
        BY <2>2, <2>4, ThreadSets DEF Granted
      <4>2. QED
        BY <1>1, <1>2, <4>1 DEF SemPart, ClosedSem
    <3>3. sems[s].value + (passed[s] + 1) + Cardinality(Granted(s)') = posted[s]
      BY <1>1, <1>2, <1>3, <3>1
    <3>4. QED
      BY <2>3, <2>4, <3>1, <3>2, <3>3 DEF SemPart
  <2>5. CASE ~own
    BY <2>2, <2>3, <2>5, SemPartKept DEF SemSame
  <2>6. QED
    BY <2>4, <2>5
<1>7. CASE ~BlocksOnSem /\ ~WakesFromSem /\ ~Finishes
  <2>1. Granted(s)' = Granted(s) /\ OnSem(s)' = OnSem(s)
    BY <1>7, SemThreads
  <2>2. CASE Idles
    BY <2>1, <2>2, SemOpPart
  <2>3. CASE ~Idles
    <3>1. UNCHANGED semVars
      BY <1>7, <2>3, Zenon
      DEF SyncStep, Still, Leaves, BlocksOnMutex, WaitsOnCond, Wakes, WakesFromMutex,
          WakesFromCond, HandsOver, TimesOut, Expires
    <3>2. QED
      BY <2>1, <3>1, SemPartKept DEF semVars, SemSame
  <2>4. QED
    BY <2>2, <2>3
<1>8. QED
  BY <1>4, <1>5, <1>6, <1>7

(***************************************************************************)
(* The assertions of the host                                              *)
(***************************************************************************)
Excused == {"none", "main_exit", "join_main", "cond_mutex", "deadlock"}

\* Calls with no assertion of the kinds that the guest cannot help.
LEMMA CallPanics ==
    /\ (\E p \in MutexPtrs : MutexCall(p)) => UNCHANGED panic
    /\ (\E s \in SemPtrs : SemCall(s)) => UNCHANGED panic
    /\ ThreadCall => panic' \in {panic, "main_exit", "join_main"}
    /\ Clock \/ Halted => UNCHANGED panic
<1> USE DEF Return, Yield, Panic
<1>1. ASSUME NEW p \in MutexPtrs, MutexCall(p) PROVE UNCHANGED panic
  <2>1. CASE pthread_mutex_lock(p)
    BY <2>1 DEF pthread_mutex_lock, lock_mutex
  <2>2. CASE pthread_mutex_trylock(p)
    BY <2>2 DEF pthread_mutex_trylock, lock_mutex
  <2>3. CASE pthread_mutex_unlock(p)
    BY <2>3 DEF pthread_mutex_unlock
  <2>4. CASE pthread_mutex_destroy(p)
    BY <2>4 DEF pthread_mutex_destroy
  <2>5. CASE MutexInvalid(p) \/ \E type \in GuestMutexTypes : pthread_mutex_init(p, type)
    BY <2>5 DEF MutexInvalid, pthread_mutex_init
  <2>6. QED
    BY <1>1, <2>1, <2>2, <2>3, <2>4, <2>5 DEF MutexCall
<1>2. ASSUME NEW s \in SemPtrs, SemCall(s) PROVE UNCHANGED panic
  BY <1>2 DEF SemCall, sem_init, sem_destroy, sem_post, sem_wait, sem_trywait
<1>3. ASSUME ThreadCall PROVE panic' \in {panic, "main_exit", "join_main"}
  BY <1>3
  DEF ThreadCall, pthread_create, pthread_create_suspended_np, NewThread, ThreadExit,
      pthread_join, pthread_detach, thread_suspend, thread_resume, sleep, Preempt
<1>4. ASSUME Clock \/ Halted PROVE UNCHANGED panic
  BY <1>4 DEF Clock, Halted, Expire, vars, schedVars
<1>5. QED
  BY <1>1, <1>2, <1>3, <1>4

\* A careful guest waits for, signals and destroys only variables that are
\* there, and destroys none that has waiters.
LEMMA CondPanics ==
    ASSUME CarefulGuest, SyncInv, NEW c \in CondPtrs, CondCall(c)
    PROVE  panic' \in {panic, "cond_mutex"}
<1> USE DEF Return, Yield, Panic, MayCall
<1>1. ASSUME ~Careless, MayUse(c), CondKnown(c), RegisterCond(c)
      PROVE  CondsAt(c)[c].present
  BY <1>1, CondUse DEF Hosts
<1>2. ASSUME NEW effect, OnCond(c, effect), ~Careless
      PROVE  UNCHANGED panic
  BY <1>1, <1>2 DEF OnCond
<1>3. ASSUME NEW fn \in CondFns, NEW p, NEW d, CondWait(fn, c, p, d)
      PROVE  panic' \in {panic, "cond_mutex"}
  <2>1. CondsAt(c)[c].present
    BY <1>1, <1>3, CondGuest DEF CondWait, CondFns
  <2>2. QED
    BY <1>3, <2>1 DEF CondWait
<1>4. CASE \E p \in MutexPtrs : pthread_cond_wait(c, p) \/ pthread_cond_timedwait(c, p)
  BY <1>3, <1>4 DEF pthread_cond_wait, pthread_cond_timedwait, CondFns
<1>5. CASE pthread_cond_signal(c) \/ pthread_cond_broadcast(c)
  BY <1>2, <1>5, CondGuest DEF pthread_cond_signal, pthread_cond_broadcast
<1>6. CASE pthread_cond_destroy(c)
  <2>1. ~Careless /\ ~CondBusy(c)
    BY <1>6, CondGuest DEF pthread_cond_destroy, MayEnd
  <2>2. \A t \in ThreadIds : ~Waits(t, c)
    BY <2>1 DEF CondBusy, Waits, CondFns
  <2>3. \A t \in ThreadIds : ~BlockedOn(t, "Condition", c)
    <3>1. ASSUME NEW t \in ThreadIds, BlockedOn(t, "Condition", c) PROVE FALSE
      <4>1. Parked(t)
        BY <1>6, <3>1, RunningCall
        DEF pthread_cond_destroy, BlockedOn, NotBlocked, BlockOn
      <4>2. QED
        BY <2>2, <3>1, <4>1, ParkedCall DEF BlockedOn
    <3>2. QED
      BY <3>1
  <2>4. CondsAt(c)[c].waiting = <<>> /\ CondsAt(c)[c].waking = <<>>
    <3>1. CASE cond_word[c] = "STATIC"
      BY <3>1, SyncTypes, TypeParts DEF CondsAt, FreshCond, CondTypeOK, CondMapOK
    <3>2. CASE cond_word[c] # "STATIC"
      <4>1. conds[c] \in CondHostObject /\ CondsAt(c)[c] = conds[c]
        BY <3>2, SyncTypes, TypeParts DEF CondsAt, CondTypeOK, CondMapOK
      <4>2. \A t \in ThreadIds : ~InQueue(conds[c].waiting, t) /\ ~InQueue(conds[c].waking, t)
        BY <2>3 DEF SyncInv, CondsExact, QueuesExact, Queues, AtCond
      <4>3. conds[c].waiting = <<>> /\ conds[c].waking = <<>>
        <5>1. \A q \in Seq(ThreadIds) : (\A t \in ThreadIds : ~InQueue(q, t)) => q = <<>>
          <6>1. ASSUME NEW q \in Seq(ThreadIds), q # <<>>
                PROVE  \E t \in ThreadIds : InQueue(q, t)
            <7>1. Len(q) \in Nat /\ 1 \in 1 .. Len(q) /\ q[1] \in ThreadIds
              BY <6>1
            <7>2. QED
              BY <7>1 DEF InQueue
          <6>2. QED
            BY <6>1
        <5>2. QED
          BY <4>1, <4>2, <5>1 DEF CondHostObject
      <4>4. QED
        BY <4>1, <4>3
    <3>3. QED
      BY <3>1, <3>2
  <2>5. OnCond(c, [CondsAt(c) EXCEPT ![c] = NoCond])
    BY <1>6, <2>4 DEF pthread_cond_destroy
  <2>6. QED
    BY <1>2, <2>1, <2>5
<1>7. CASE \/ CondInvalid(c) \/ pthread_cond_init(c)
           \/ \E p \in MutexPtrs : CondWaitInvalid(c, p)
  BY <1>7 DEF CondInvalid, pthread_cond_init, CondWaitInvalid
<1>8. QED
  BY <1>4, <1>5, <1>6, <1>7 DEF CondCall

\* A call goes on where it yielded, and finds its condition variable.
LEMMA ResumePanics ==
    ASSUME SyncInv, Resume
    PROVE  UNCHANGED panic
<1>1. CASE ResumeCond
  <2>1. current_thread \in ThreadIds
    BY SyncTypes
  <2>2. /\ Waits(current_thread, pending[current_thread].obj)
        /\ pending[current_thread].obj \in CondPtrs
    BY <1>1, <2>1, SyncTypes DEF ResumeCond, Waits, CondFns, CallOK
  <2>3. conds[pending[current_thread].obj].present
    BY <2>1, <2>2 DEF SyncInv, CondsExact, CondsMatch
  <2>4. QED
    BY <1>1, <2>3 DEF ResumeCond
<1>2. QED
  BY <1>1 DEF Resume, ResumeLock, ResumeSem, ResumeOther

\* The scheduler finds the mutexes and the variables of the threads it
\* considers.
LEMMA SchedulePanics ==
    ASSUME SyncInv, Schedule
    PROVE  panic' \in {panic, "deadlock"}
<1> USE DEF Skip, Wake, Panic
<1>0. PICK t \in ThreadIds : t = Candidate
  BY SyncTypes
<1>1. phase = "scan" => Parked(t)
  BY DEF Parked
<1>2. CASE ScanMutex
  <2>1. Exists(mutexes, blocked_by[t].obj)
    BY <1>0, <1>1, <1>2, ParkedCall DEF ScanMutex, Considers, Scanning
  <2>2. QED
    BY <1>0, <1>2, <2>1 DEF ScanMutex
<1> DEFINE c == blocked_by[t].obj
<1>3. ASSUME Considers("Condition")
      PROVE  /\ conds[c].present /\ conds[c].curr_mutex # NoMutex
             /\ Exists(mutexes, conds[c].curr_mutex)
  <2>1. /\ conds[c].present /\ conds[c].curr_mutex \in MutexIds
        /\ Exists(mutexes, conds[c].curr_mutex)
    BY <1>0, <1>1, <1>3, ParkedCall DEF Considers, Scanning
  <2>2. QED
    BY <2>1, BoundsAssumption DEF MutexIds, NoMutex
<1>4. ASSUME NEW cs, Considers("Condition"), WakeWithMutex(cs, conds[c].curr_mutex)
      PROVE  UNCHANGED panic
  BY <1>3, <1>4 DEF WakeWithMutex
<1>5. CASE ScanConditionLost
  BY <1>0, <1>3, <1>5 DEF ScanConditionLost
<1>6. CASE ScanConditionSignalled
  BY <1>0, <1>4, <1>6 DEF ScanConditionSignalled, ConsidersCondition
<1>7. CASE ScanConditionTimedOut
  BY <1>0, <1>4, <1>7 DEF ScanConditionTimedOut, ConsidersCondition, BlockOnMutex
<1>8. CASE \/ ScanInactive \/ ScanSuspended \/ ScanNotBlocked \/ ScanSleeping
           \/ ScanSemaphore \/ ScanConditionWaiting \/ ScanJoining \/ ScanEnd
  BY <1>8
  DEF ScanInactive, ScanSuspended, ScanNotBlocked, ScanSleeping, ScanSemaphore,
      ScanConditionWaiting, ScanJoining, ScanEnd
<1>9. QED
  BY <1>2, <1>5, <1>6, <1>7, <1>8 DEF Schedule, schedule_next_thread

LEMMA NoHostPanicStep ==
    ASSUME CarefulGuest, SyncInv, [Next]_vars
    PROVE  NoHostPanic'
<1>1. panic \in Excused
  BY DEF SyncInv, NoHostPanic, Excused
<1>2. CASE UNCHANGED vars
  BY <1>1, <1>2 DEF vars, schedVars, Excused, NoHostPanic
<1>3. CASE Next
  <2>1. panic' \in {panic, "main_exit", "join_main", "cond_mutex", "deadlock"}
    BY <1>3, CallPanics, CondPanics, ResumePanics, SchedulePanics DEF Next
  <2>2. QED
    BY <1>1, <2>1 DEF Excused, NoHostPanic
<1>4. QED
  BY <1>2, <1>3

(***************************************************************************)
(* The invariant holds in every state                                      *)
(***************************************************************************)
\* At first nobody waits for anything and nothing is locked.
LEMMA InitSync == Init => SyncInv
<1> SUFFICES ASSUME Init PROVE SyncInv
  OBVIOUS
<1>1. ThreadInv /\ WordsInv
  BY InitThreads, InitWords
<1>2. /\ \A t \in ThreadIds : blocked_by[t] = NotBlocked /\ pending[t] = NoCall
      /\ panic = "none" /\ phase = "guest"
  BY DEF Init, SchedInit
<1>3. /\ \A t \in ThreadIds, id \in MutexIds : holds[t][id] = 0
      /\ \A id \in MutexIds : mutexes[id] = Free("absent")
  BY Zenon DEF Init, MutexInit
<1>4. /\ \A c \in CondPtrs : conds[c] = NoCond /\ cond_word[c] # "COND"
      /\ \A s \in SemPtrs : sems[s] = ClosedSem /\ posted[s] = 0 /\ passed[s] = 0
  BY CondAssumption DEF Init, CondInit, SemInit
<1>5. /\ \A t \in ThreadIds : pending[t].fn = "none" /\ pending[t].mutex = NoMutex
      /\ \A t \in ThreadIds : blocked_by[t].kind = "NotBlocked"
  BY <1>2 DEF NoCall, CallTo, NotBlocked, BlockOn
<1>6. \A t \in ThreadIds : \A k, obj : k # "NotBlocked" => ~BlockedOn(t, k, obj)
  BY <1>5 DEF BlockedOn
<1>7. CallsMatch /\ CallsExist
  BY <1>5 DEF CallsMatch, Matches, CallsExist, LockingFns
<1>8. HoldsMatch
  <2>1. \A t \in ThreadIds : \A id : ~AboutToHold(t, id)
    BY <1>5 DEF AboutToHold, LockingFns
  <2>2. \A id \in MutexIds : mutexes[id].lock_count = 0
    BY <1>3 DEF Free
  <2>3. QED
    BY <1>3, <2>1, <2>2 DEF HoldsMatch
<1>9. Counted
  <2>1. \A id \in MutexIds : {t \in ThreadIds : BlockedOn(t, "Mutex", id)} = {}
    BY <1>6
  <2>2. \A id \in MutexIds : mutexes[id].waiting_count = 0
    BY <1>3 DEF Free
  <2>3. QED
    BY <2>1, <2>2, FS_EmptySet DEF Counted, WaitersCounted
<1>10. CondsExact
  <2>1. CondsMatch
    BY <1>5 DEF CondsMatch, Waits, CondFns
  <2>2. ASSUME NEW c \in CondPtrs
        PROVE  QueuesExact(conds[c], c) /\ conds[c].timed_out = {}
    <3>1. AtCond(c) = {} /\ conds[c] = NoCond
      BY <1>4, <1>6 DEF AtCond
    <3>2. QED
      <4>1. \A t : ~InQueue(<<>>, t)
        BY DEF InQueue
      <4>2. Once(<<>>)
        BY DEF Once
      <4>3. /\ conds[c].waiting = <<>> /\ conds[c].waking = <<>>
            /\ conds[c].timed_out = {}
        BY <3>1 DEF NoCond, FreshCond
      <4>4. QED
        BY <3>1, <4>1, <4>2, <4>3 DEF QueuesExact, Queues
  <2>3. QED
    BY <1>4, <2>1, <2>2 DEF CondsExact, TimedOutFresh
<1>11. TokensKept
  <2>1. ASSUME NEW s \in SemPtrs PROVE SemPart(s)
    <3>1. OnSem(s) = {} /\ Granted(s) = {}
      BY <1>5, <1>6 DEF OnSem, Granted, CallTo
    <3>2. QED
      BY <1>4, <3>1, FS_EmptySet DEF SemPart, ClosedSem
  <2>2. QED
    BY <1>5, <2>1, SemParts DEF PlainWaits
<1>12. NoHostPanic
  BY <1>2 DEF NoHostPanic
<1>13. QED
  BY <1>1, <1>7, <1>8, <1>9, <1>10, <1>11, <1>12 DEF SyncInv

\* The invariant of the thread layer, for a careful guest.
LEMMA SyncInvariance ==
    ASSUME CarefulGuest
    PROVE  Spec => []SyncInv
<1>1. Init => SyncInv
  BY InitSync
<1>2. SyncInv /\ [Next]_vars => SyncInv'
  <2> SUFFICES ASSUME SyncInv, [Next]_vars PROVE SyncInv'
    OBVIOUS
  <2>1. SyncStep /\ TypeOK
    BY NextIsSyncStep, SyncTypes
  <2>2. ThreadInv'
    <3>1. TypeOK' /\ ThreadStep /\ ThreadInv
      BY <2>1, NextType, NextIsThreadStep DEF SyncInv
    <3>2. QED
      BY <3>1, ContextStep, RunnableStep, FinishedStep DEF ThreadInv
  <2>3. WordsInv'
    BY <2>1, WordsStep DEF SyncInv
  <2>4. CallsMatch' /\ CallsExist' /\ HoldsMatch' /\ Counted'
    BY <2>1, CallsMatchStep, CallsExistStep, HoldsMatchStep, CountedStep
  <2>5. CondsExact' /\ TokensKept' /\ NoHostPanic'
    BY <2>1, CondsExactStep, TokensKeptStep, NoHostPanicStep
  <2>6. QED
    BY <2>2, <2>3, <2>4, <2>5 DEF SyncInv
<1>3. QED
  BY <1>1, <1>2, PTL DEF Spec

(***************************************************************************)
(* The theorems                                                            *)
(***************************************************************************)
\* No two threads hold one mutex, and a thread whose lock, or whose wait on a
\* condition variable, has returned holds the mutex at the depth to which it
\* locked it (lock_mutex, unlock_mutex, relock_unblocked_mutex_...).
THEOREM MutexesExclude ==
    ASSUME CarefulGuest
    PROVE  Spec => []MutualExclusion
<1>1. ASSUME SyncInv PROVE MutualExclusion
  <2>1. ASSUME NEW t \in ThreadIds, NEW id \in MutexIds, holds[t][id] # 0
        PROVE  mutexes[id].locked_by = t /\ mutexes[id].lock_count = holds[t][id]
    BY <1>1, <2>1 DEF SyncInv, HoldsMatch
  <2>2. QED
    BY <2>1 DEF MutualExclusion
<1>2. QED
  BY <1>1, SyncInvariance, PTL

\* A live pthread_mutex_t names a mutex of the host's, its own; waiting_count
\* counts the threads that lock_mutex has blocked, as long as no condition
\* variable is used.
THEOREM WaitersAreCounted ==
    ASSUME CarefulGuest
    PROVE  Spec => []MutexesCounted
<1>1. ASSUME SyncInv PROVE MutexesCounted
  BY <1>1 DEF SyncInv, WordsInv, WordsOK, Counted, MutexesCounted, WordsNameMutexes
<1>2. QED
  BY <1>1, SyncInvariance, PTL

\* The queues of a condition variable hold the threads blocked on it, each
\* once, and the mutex that they are to get is known and exists; timed_out has
\* only threads that are about to answer ETIMEDOUT (cond.rs).
THEOREM CondQueuesExact ==
    ASSUME CarefulGuest
    PROVE  Spec => []CondWaitersExact
<1>1. ASSUME SyncInv PROVE CondWaitersExact
  <2>0. TimedOutFresh /\ \A c \in CondPtrs : QueuesExact(conds[c], c)
    BY <1>1 DEF SyncInv, CondsExact
  <2> SUFFICES ASSUME NEW c \in CondPtrs
               PROVE  /\ \A t \in ThreadIds :
                            Times(conds[c].waiting \o conds[c].waking, t)
                                = IF BlockedOn(t, "Condition", c) THEN 1 ELSE 0
                      /\ (\E t \in ThreadIds : BlockedOn(t, "Condition", c)) =>
                            /\ conds[c].curr_mutex # NoMutex
                            /\ Exists(mutexes, conds[c].curr_mutex)
    BY <2>0 DEF CondWaitersExact, CondQueues
  <2>1. conds[c].waiting \in Seq(ThreadIds) /\ conds[c].waking \in Seq(ThreadIds)
    BY <1>1, SyncTypes, TypeParts DEF CondTypeOK, CondMapOK, CondHostObject
  <2> DEFINE q == conds[c].waiting \o conds[c].waking
  <2>2. Once(q) /\ \A t : InQueue(q, t) <=>
                            InQueue(conds[c].waiting, t) \/ InQueue(conds[c].waking, t)
    BY <2>0, <2>1, ConcatQueue DEF QueuesExact, Queues
  <2> HIDE DEF q
  <2>3. ASSUME NEW t \in ThreadIds
        PROVE  Times(q, t) = IF BlockedOn(t, "Condition", c) THEN 1 ELSE 0
    <3>1. InQueue(q, t) <=> BlockedOn(t, "Condition", c)
      BY <2>0, <2>2 DEF QueuesExact, Queues, AtCond
    <3>2. QED
      BY <2>2, <3>1, TimesOnce
  <2>4. ASSUME NEW t \in ThreadIds, BlockedOn(t, "Condition", c)
        PROVE  conds[c].curr_mutex # NoMutex /\ Exists(mutexes, conds[c].curr_mutex)
    <3>1. Parked(t)
      BY <1>1, <2>4, SyncTypes
      DEF SyncInv, ThreadInv, CurrentRunnable, Parked, BlockedOn, NotBlocked, BlockOn,
          SchedTypeOK, TypeOK
    <3>2. conds[c].curr_mutex \in MutexIds /\ Exists(mutexes, conds[c].curr_mutex)
      BY <1>1, <2>4, <3>1, ParkedCall DEF BlockedOn
    <3>3. QED
      BY <3>2, BoundsAssumption DEF MutexIds, NoMutex
  <2>5. QED
    BY <2>3, <2>4 DEF q
<1>2. QED
  BY <1>1, SyncInvariance, PTL

\* The tokens put into a semaphore are in its value, were taken by waits that
\* returned, or were granted to threads that are about to return
\* (sem_increment, sem_decrement and the scheduler).
THEOREM TokensConserved ==
    ASSUME CarefulGuest
    PROVE  Spec => []SemTokens
<1>1. ASSUME SyncInv PROVE SemTokens
  BY <1>1 DEF SyncInv, TokensKept
<1>2. QED
  BY <1>1, SyncInvariance, PTL

\* The unwraps and the assertions of lock_mutex, pthread_cond_wait,
\* pthread_cond_destroy and schedule_next_thread do not fail.
THEOREM HostPanicsExcused ==
    ASSUME CarefulGuest
    PROVE  Spec => []NoHostPanic
<1>1. ASSUME SyncInv PROVE NoHostPanic
  BY <1>1 DEF SyncInv
<1>2. QED
  BY <1>1, SyncInvariance, PTL
=============================================================================
