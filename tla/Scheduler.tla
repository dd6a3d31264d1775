----------------------------- MODULE Scheduler ------------------------------
(***************************************************************************)
(* Threads and the scheduler of src/src/environment.rs.                    *)
(*                                                                         *)
(* Every guest thread is a host coroutine and only one of them runs at a   *)
(* time.  A host function is atomic up to a call of yield_thread, which    *)
(* hands control back to Environment::run; run then calls                  *)
(* schedule_next_thread, which scans the threads round robin from the one  *)
(* after current_thread, fulfils the block condition of the first thread   *)
(* that can run (relocks its mutex, takes its semaphore token, ...) and    *)
(* switches to it.  phase "guest" is a thread running, phase "scan" is run *)
(* scanning; the scan visits one candidate per step and scan_i is the loop *)
(* variable i.  Only the clock moves during a scan.                        *)
(*                                                                         *)
(* The fields of Thread are one function each.  ThreadBlock::Suspended(n,  *)
(* prev) is suspend_count = n > 0 with blocked_by = prev: a suspension is  *)
(* never nested, suspend_thread increments the count instead.  The         *)
(* deadline of a block is "none", "pending" or "passed".                   *)
(*                                                                         *)
(* panic is the assertion or unwrap of the host that failed; a panic tears *)
(* the emulator down, so nothing happens after it.  The debugger (gdb),    *)
(* with its single stepping, is not modelled.                              *)
(***************************************************************************)
EXTENDS Semaphores, CondVars

VARIABLES
    nthreads,        \* self.threads.len()
    current_thread,
    active,          \* Thread::active
    blocked_by,      \* Thread::blocked_by, without a suspension around it
    suspend_count,   \* the count of ThreadBlock::Suspended, 0 if not
    has_return,      \* Thread::return_value.is_some()
    guest_context,   \* Thread::guest_context.is_some()
    host_context,    \* Thread::host_context.is_some()
    old_context,     \* run() holds the coroutine of current_thread
    phase,           \* "guest" or "scan"
    scan_i,          \* i in schedule_next_thread
    next_awakening,  \* next_awakening.is_some()
    pending,         \* the host call a thread is blocked in
    ret,             \* result of the guest call that just returned
    panic            \* "none" or why the host panicked

contextVars == <<guest_context, host_context, old_context>>
scanVars    == <<phase, scan_i, next_awakening>>
threadVars  == <<nthreads, active, has_return>>
schedVars   == <<threadVars, current_thread, blocked_by, suspend_count,
                 contextVars, scanVars, pending, ret, panic>>

(***************************************************************************)
(* Blocks and pending calls                                                *)
(***************************************************************************)
BlockKinds == {"NotBlocked", "Sleeping", "Mutex", "Semaphore", "Condition",
               "Joining"}
Deadlines  == {"none", "pending", "passed"}
Block      == [kind : BlockKinds, obj : Nat, deadline : Deadlines]

\* A block names an object of its kind.
BlockOK(b) ==
    /\ b \in Block
    /\ b.kind = "Mutex" => b.obj \in MutexIds
    /\ b.kind = "Semaphore" => b.obj \in SemPtrs
    /\ b.kind = "Condition" => b.obj \in CondPtrs
    /\ b.kind = "Joining" => b.obj \in ThreadIds

BlockOn(kind, obj, deadline) ==
    [kind |-> kind, obj |-> obj, deadline |-> deadline]
NotBlocked == BlockOn("NotBlocked", 0, "none")

\* A host function that has yielded, with the arguments its remaining code
\* needs: an object, and for a condition variable the mutex released.
HostCalls == {"lock", "cond_wait", "cond_timedwait", "sem_wait", "join",
              "sleep", "suspend", "none"}
Call == [fn : HostCalls, obj : Nat, mutex : MutexIds \cup {NoMutex}]

\* The rest of a call finds the object it blocked on.
CallOK(call) ==
    /\ call \in Call
    /\ call.fn = "lock" => call.obj \in MutexIds
    /\ call.fn \in {"cond_wait", "cond_timedwait"} =>
          call.obj \in CondPtrs /\ call.mutex \in MutexIds
    /\ call.fn = "sem_wait" => call.obj \in SemPtrs

CallTo(fn, obj, mutex) == [fn |-> fn, obj |-> obj, mutex |-> mutex]
NoCall == CallTo("none", 0, NoMutex)

Results == {"none", "ok", "EDEADLK", "EPERM", "EBUSY", "EINVAL", "EAGAIN",
            "ETIMEDOUT"}

Panics == {"none", "relock", "cond_missing", "cond_no_mutex", "cond_mutex",
           "cond_destroy", "join_main", "main_exit", "deadlock"}

LiveThreads == 0 .. nthreads - 1

BlocksOK ==
    /\ blocked_by \in [ThreadIds -> Block]
    /\ \A t \in ThreadIds : BlockOK(blocked_by[t])

CallsOK ==
    /\ pending \in [ThreadIds -> Call]
    /\ \A t \in ThreadIds : CallOK(pending[t])

SchedTypeOK ==
    /\ nthreads \in 1 .. MaxThreads
    /\ current_thread \in LiveThreads
    /\ active \in [ThreadIds -> BOOLEAN]
    /\ BlocksOK
    /\ suspend_count \in [ThreadIds -> Nat]
    /\ has_return \in [ThreadIds -> BOOLEAN]
    /\ guest_context \in [ThreadIds -> BOOLEAN]
    /\ host_context \in [ThreadIds -> BOOLEAN]
    /\ old_context \in BOOLEAN
    /\ phase \in {"guest", "scan"}
    /\ scan_i \in 0 .. nthreads
    /\ next_awakening \in BOOLEAN
    /\ CallsOK
    /\ ret \in Results
    /\ panic \in Panics

(***************************************************************************)
(* Environment::new leaves one thread, the main thread, about to run.      *)
(***************************************************************************)
SchedInit ==
    /\ nthreads = 1
    /\ current_thread = 0
    /\ active = [t \in ThreadIds |-> t = 0]
    /\ blocked_by = [t \in ThreadIds |-> NotBlocked]
    /\ suspend_count = [t \in ThreadIds |-> 0]
    /\ has_return = [t \in ThreadIds |-> FALSE]
    /\ guest_context = [t \in ThreadIds |-> FALSE]
    /\ host_context = [t \in ThreadIds |-> FALSE]
    /\ old_context = TRUE
    /\ phase = "guest"
    /\ scan_i = 0
    /\ next_awakening = FALSE
    /\ pending = [t \in ThreadIds |-> NoCall]
    /\ ret = "none"
    /\ panic = "none"

(***************************************************************************)
(* Building blocks of the host functions                                   *)
(***************************************************************************)
Alive == panic = "none"

\* The current thread executes guest code and may call a host function.
Running == Alive /\ phase = "guest" /\ pending[current_thread] = NoCall

Panic(why) ==
    /\ panic' = why
    /\ UNCHANGED <<threadVars, current_thread, blocked_by, suspend_count,
                   contextVars, scanVars, pending, ret>>

\* A host function returns r to the guest without yielding.
Return(r) ==
    /\ ret' = r
    /\ UNCHANGED <<threadVars, current_thread, blocked_by, suspend_count,
                   contextVars, scanVars, pending, panic>>

StartScan ==
    /\ phase' = "scan"
    /\ scan_i' = 0
    /\ next_awakening' = FALSE

\* yield_thread(block) in the middle of the host function call.
Yield(block, call) ==
    /\ blocked_by' = [blocked_by EXCEPT ![current_thread] = block]
    /\ pending' = [pending EXCEPT ![current_thread] = call]
    /\ ret' = "none"
    /\ StartScan
    /\ UNCHANGED <<threadVars, current_thread, suspend_count, contextVars,
                   panic>>

\* Fault: a coroutine is stored for a thread that has finished.
switch_thread_zombie(t) ==
    /\ current_thread' = t
    /\ phase' = "guest"
    /\ scan_i' = 0
    /\ next_awakening' = FALSE
    /\ IF t = current_thread
       THEN UNCHANGED contextVars
       ELSE /\ guest_context' = [guest_context EXCEPT ![t] = FALSE,
                                                      ![current_thread] = TRUE]
            /\ host_context' = [host_context EXCEPT ![t] = FALSE,
                                                    ![current_thread] = TRUE]
            /\ old_context' = host_context[t]

(***************************************************************************)
(* Environment::switch_thread, skipped when the scan comes back to the     *)
(* current thread.  The current thread's coroutine goes back into its      *)
(* Thread (nothing, if it has finished) and the new one's is taken out;    *)
(* the CPU registers are exchanged with the new thread's guest context.    *)
(***************************************************************************)
switch_thread(t) ==
    /\ current_thread' = t
    /\ phase' = "guest"
    /\ scan_i' = 0
    /\ next_awakening' = FALSE
    /\ IF t = current_thread
       THEN UNCHANGED contextVars
       ELSE /\ guest_context' = [guest_context EXCEPT ![t] = FALSE,
                                                      ![current_thread] = TRUE]
            /\ host_context' =
                   [host_context EXCEPT ![t] = FALSE,
                                        ![current_thread] = old_context]
            /\ old_context' = host_context[t]

(***************************************************************************)
(* schedule_next_thread, one action per arm of the match                   *)
(***************************************************************************)
Scanning == Alive /\ phase = "scan" /\ scan_i < nthreads

\* Fault: every scan starts at the main thread.
Candidate_first == scan_i % nthreads

Candidate == (current_thread + 1 + scan_i) % nthreads

\* The candidate that the scan considers is blocked as kind.
Considers(kind) ==
    /\ Scanning
    /\ active[Candidate]
    /\ suspend_count[Candidate] = 0
    /\ blocked_by[Candidate].kind = kind

\* Fault: nobody is known to wake later.
Skip_untimed(timed) ==
    /\ scan_i' = scan_i + 1
    /\ UNCHANGED <<threadVars, current_thread, blocked_by, suspend_count,
                   contextVars, phase, next_awakening, pending, ret, panic>>

\* The candidate stays as it is; timed: it will wake at a known time.
Skip(timed) ==
    /\ scan_i' = scan_i + 1
    /\ next_awakening' = (next_awakening \/ timed)
    /\ UNCHANGED <<threadVars, current_thread, blocked_by, suspend_count,
                   contextVars, phase, pending, ret, panic>>

\* The candidate is unblocked and becomes the running thread.
Wake ==
    /\ blocked_by' = [blocked_by EXCEPT ![Candidate] = NotBlocked]
    /\ switch_thread(Candidate)
    /\ UNCHANGED <<threadVars, suspend_count, pending, ret, panic>>

ScanInactive ==
    /\ Scanning
    /\ ~active[Candidate]
    /\ Skip(FALSE)
    /\ UNCHANGED <<mutexVars, semVars, condVars>>

ScanSuspended ==
    /\ Scanning
    /\ active[Candidate]
    /\ suspend_count[Candidate] > 0
    /\ Skip(FALSE)
    /\ UNCHANGED <<mutexVars, semVars, condVars>>

ScanNotBlocked ==
    /\ Considers("NotBlocked")
    /\ Wake
    /\ UNCHANGED <<mutexVars, semVars, condVars>>

ScanSleeping ==
    /\ Considers("Sleeping")
    /\ IF blocked_by[Candidate].deadline = "passed" THEN Wake ELSE Skip(TRUE)
    /\ UNCHANGED <<mutexVars, semVars, condVars>>

\* mutex_is_locked is false for an unknown mutex, and relocking one is an
\* unwrap of None.
ScanMutex ==
    /\ Considers("Mutex")
    /\ LET id == blocked_by[Candidate].obj
       IN  \/ /\ mutex_is_locked(mutexes, id)
              /\ Skip(FALSE)
              /\ UNCHANGED mutexes
           \/ /\ ~mutex_is_locked(mutexes, id)
              /\ Exists(mutexes, id)
              /\ mutexes' = relock(mutexes, id, Candidate)
              /\ Wake
           \/ /\ ~Exists(mutexes, id)
              /\ Panic("relock")
              /\ UNCHANGED mutexes
    /\ UNCHANGED <<mutex_count, semVars, condVars>>

\* A thread blocked on a semaphore that is gone is woken all the same.
ScanSemaphore ==
    /\ Considers("Semaphore")
    /\ LET s == blocked_by[Candidate].obj
       IN  \/ ~sems[s].open /\ Wake /\ UNCHANGED semVars
           \/ GrantSem(s, Candidate) /\ Wake
           \/ /\ sems[s].open /\ sems[s].value = 0
              /\ Skip(FALSE)
              /\ UNCHANGED semVars
    /\ UNCHANGED <<mutexVars, condVars>>

(***************************************************************************)
(* ThreadBlock::Condition.  A signalled thread goes on when it is at the   *)
(* front of waking and the mutex is free; otherwise a thread whose         *)
(* deadline has passed times out, and if the mutex is taken it goes on     *)
(* waiting for the mutex alone, without being counted in waiting_count.    *)
(***************************************************************************)

CondReady(t) ==
    LET c == blocked_by[t].obj
    IN  /\ IsFrontWaking(conds, c, t)
        /\ ~mutex_is_locked(mutexes, conds[c].curr_mutex)

ScanConditionLost ==
    /\ Considers("Condition")
    /\ LET c == blocked_by[Candidate].obj
       IN  \/ ~conds[c].present /\ Panic("cond_missing")
           \/ /\ conds[c].present /\ conds[c].curr_mutex = NoMutex
              /\ Panic("cond_no_mutex")
    /\ UNCHANGED <<mutexVars, semVars, condVars>>

\* The candidate waits on a variable that still exists.
ConsidersCondition ==
    /\ Considers("Condition")
    /\ conds[blocked_by[Candidate].obj].present
    /\ conds[blocked_by[Candidate].obj].curr_mutex # NoMutex

\* Relock the variable's mutex for the candidate, with cs the new map.
WakeWithMutex(cs, id) ==
    \/ /\ Exists(mutexes, id)
       /\ mutexes' = relock(mutexes, id, Candidate)
       /\ conds' = cs
       /\ Wake
    \/ /\ ~Exists(mutexes, id)
       /\ Panic("relock")
       /\ UNCHANGED <<mutexes, conds>>

ScanConditionSignalled ==
    /\ ConsidersCondition
    /\ CondReady(Candidate)
    /\ LET c == blocked_by[Candidate].obj
       IN  WakeWithMutex(PopWaking(conds, c), conds[c].curr_mutex)
    /\ UNCHANGED <<mutex_count, semVars, cond_word>>

\* Fault: a thread that timed out keeps waiting for the variable.
BlockOnMutex_never(cs, id) == Skip(FALSE) /\ UNCHANGED <<mutexes, conds>>

\* The candidate timed out and its mutex is taken.
BlockOnMutex(cs, id) ==
    /\ conds' = cs
    /\ blocked_by' = [blocked_by EXCEPT
                        ![Candidate] = BlockOn("Mutex", id, "none")]
    /\ scan_i' = scan_i + 1
    /\ UNCHANGED <<mutexes, threadVars, current_thread, suspend_count,
                   contextVars, phase, next_awakening, pending, ret, panic>>

ScanConditionTimedOut ==
    /\ ConsidersCondition
    /\ ~CondReady(Candidate)
    /\ blocked_by[Candidate].deadline = "passed"
    /\ LET c  == blocked_by[Candidate].obj
           id == conds[c].curr_mutex
       IN  IF mutex_is_locked(mutexes, id)
           THEN BlockOnMutex(TimeOut(conds, c, Candidate), id)
           ELSE WakeWithMutex(TimeOut(conds, c, Candidate), id)
    /\ UNCHANGED <<mutex_count, semVars, cond_word>>

ScanConditionWaiting ==
    /\ ConsidersCondition
    /\ ~CondReady(Candidate)
    /\ blocked_by[Candidate].deadline # "passed"
    /\ Skip(blocked_by[Candidate].deadline = "pending")
    /\ UNCHANGED <<mutexVars, semVars, condVars>>

ScanJoining ==
    /\ Considers("Joining")
    /\ IF active[blocked_by[Candidate].obj] THEN Skip(FALSE) ELSE Wake
    /\ UNCHANGED <<mutexVars, semVars, condVars>>

\* Fault: the scheduler retries for ever.
ScanEnd_silent ==
    /\ Alive
    /\ phase = "scan"
    /\ scan_i = nthreads
    /\ scan_i' = 0
    /\ next_awakening' = FALSE
    /\ UNCHANGED <<threadVars, current_thread, blocked_by, suspend_count,
                   contextVars, phase, pending, ret, panic,
                   mutexVars, semVars, condVars>>

\* The loop found nobody.  It sleeps and starts over if some thread has a
\* deadline; otherwise nothing can change any more, and after three retries
\* that cannot succeed (they only wait for the clock) the host gives up.
ScanEnd ==
    /\ Alive
    /\ phase = "scan"
    /\ scan_i = nthreads
    /\ \/ /\ next_awakening
          /\ scan_i' = 0
          /\ next_awakening' = FALSE
          /\ UNCHANGED <<threadVars, current_thread, blocked_by,
                         suspend_count, contextVars, phase, pending, ret,
                         panic>>
       \/ ~next_awakening /\ Panic("deadlock")
    /\ UNCHANGED <<mutexVars, semVars, condVars>>

schedule_next_thread ==
    \/ ScanInactive
    \/ ScanSuspended
    \/ ScanNotBlocked
    \/ ScanSleeping
    \/ ScanMutex
    \/ ScanSemaphore
    \/ ScanConditionLost
    \/ ScanConditionSignalled
    \/ ScanConditionTimedOut
    \/ ScanConditionWaiting
    \/ ScanJoining
    \/ ScanEnd

\* The clock reaches the deadline of a blocked thread, at any moment.
Expire(t) ==
    /\ Alive
    /\ blocked_by[t].deadline = "pending"
    /\ blocked_by' = [blocked_by EXCEPT ![t].deadline = "passed"]
    /\ UNCHANGED <<threadVars, current_thread, suspend_count, contextVars,
                   scanVars, pending, ret, panic,
                   mutexVars, semVars, condVars>>

=============================================================================
