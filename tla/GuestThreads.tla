---------------------------- MODULE GuestThreads ----------------------------
(***************************************************************************)
(* What guest threads can do to each other: the pthread, semaphore and     *)
(* Mach thread calls of src/src/libc, each as one action of the thread     *)
(* that is running, composed with the scheduler.                           *)
(*                                                                         *)
(* A call that blocks is two actions: the code before yield_thread and,    *)
(* when the scheduler has switched back, the code after it (Resume...).    *)
(* The guest program is unknown, so it may make any call at any time; what *)
(* it calls is bounded by GuestCalls, and Careless = FALSE keeps it from   *)
(* destroying or re-initialising an object that threads still use and from *)
(* using a destroyed condition variable, which POSIX leaves undefined.     *)
(***************************************************************************)
EXTENDS PthreadMutex

CONSTANTS GuestCalls,     \* names of the calls the guest makes
          GuestMutexTypes,\* mutex types it passes to pthread_mutex_init
          Careless,       \* does it break the rules on object lifetimes?
          MaxSuspend      \* bound on the suspend count of a thread

ASSUME GuestAssumption ==
    /\ GuestMutexTypes \subseteq MutexTypes
    /\ Careless \in BOOLEAN
    /\ MaxSuspend \in Nat

VARIABLES joined_by,      \* ThreadHostObject::joined_by
          detached,       \* ThreadHostObject::attr.detachstate
          holds           \* history: locks a thread obtained, not yet released

pthreadVars == <<mutex_word, joined_by, detached>>
vars == <<mutexVars, semVars, condVars, schedVars, pthreadVars, holds>>

TypeOK ==
    /\ MutexTypeOK
    /\ SemTypeOK
    /\ CondTypeOK
    /\ SchedTypeOK
    /\ WordTypeOK
    /\ joined_by \in [ThreadIds -> ThreadIds \cup {NoThread}]
    /\ detached \in [ThreadIds -> BOOLEAN]
    /\ holds \in [ThreadIds -> [MutexIds -> Int]]

Init ==
    /\ MutexInit
    /\ SemInit
    /\ CondInit
    /\ SchedInit
    /\ WordInit
    /\ joined_by = [t \in ThreadIds |-> NoThread]
    /\ detached = [t \in ThreadIds |-> FALSE]
    /\ holds = [t \in ThreadIds |-> [id \in MutexIds |-> 0]]

MayCall(name) == Running /\ name \in GuestCalls

(***************************************************************************)
(* Who uses an object: threads inside a call on it, and lock holders       *)
(***************************************************************************)
MutexBusy(p) ==
    /\ mutex_word[p].magic = "MUTX"
    /\ LET id == mutex_word[p].id
       IN  \/ mutex_is_locked(mutexes, id)
           \/ \E t \in ThreadIds :
                 \/ pending[t].fn = "lock" /\ pending[t].obj = id
                 \/ pending[t].mutex = id

CondBusy(c) == \E t \in ThreadIds :
                  /\ pending[t].fn \in {"cond_wait", "cond_timedwait"}
                  /\ pending[t].obj = c

SemBusy(s) == \E t \in ThreadIds :
                 pending[t].fn = "sem_wait" /\ pending[t].obj = s

\* Whether the guest would destroy or re-initialise an object now, and use
\* condition variable c: its magic number survives its destruction.
MayEnd(busy) == busy => Careless

MayUse(c) == cond_word[c] = "COND" /\ ~conds[c].present => Careless

\* The history of successful locks.  A NORMAL mutex may be unlocked by any
\* thread, and then no thread holds it any more.
Obtained(t, id) == holds' = [holds EXCEPT ![t][id] = @ + 1]

Released(ms, t, id) ==
    holds' = IF ms[id].type = "NORMAL"
             THEN [u \in ThreadIds |-> [holds[u] EXCEPT ![id] = 0]]
             ELSE [holds EXCEPT ![t][id] = @ - 1]

(***************************************************************************)
(* pthread/mutex.rs over environment/mutex.rs                              *)
(***************************************************************************)
pthread_mutex_init(p, type) ==
    /\ MayCall("mutex_init")
    /\ MayEnd(MutexBusy(p))
    /\ mutex_count < MaxMutexes
    /\ mutexes' = init_mutex(mutexes, mutex_count, type)
    /\ mutex_count' = mutex_count + 1
    /\ WriteWord(p, "MUTX", mutex_count)
    /\ Return("ok")
    /\ UNCHANGED <<semVars, condVars, joined_by, detached, holds>>

\* Any of the mutex calls on memory that holds no mutex.
MutexInvalid(p) ==
    /\ MayCall("mutex_lock")
    /\ ~MutexKnown(p)
    /\ Return("EINVAL")
    /\ UNCHANGED <<mutexVars, semVars, condVars, pthreadVars, holds>>

\* Environment::lock_mutex, with ms the map it starts from.
lock_mutex(ms, id) ==
    LET t == current_thread
    IN  \/ /\ ms[id].locked_by = NoThread
           /\ mutexes' = take(ms, id, t)
           /\ Obtained(t, id)
           /\ Return("ok")
        \/ /\ ms[id].locked_by = t
           /\ ms[id].type # "RECURSIVE"
           /\ mutexes' = ms
           /\ Return("EDEADLK")
           /\ UNCHANGED holds
        \/ /\ ms[id].locked_by = t
           /\ ms[id].type = "RECURSIVE"
           /\ ms[id].lock_count < MaxDepth
           /\ mutexes' = relevel(ms, id)
           /\ Obtained(t, id)
           /\ Return("ok")
        \/ /\ ms[id].locked_by \notin {NoThread, t}
           /\ mutexes' = add_waiter(ms, id)
           /\ Yield(BlockOn("Mutex", id, "none"), CallTo("lock", id, NoMutex))
           /\ UNCHANGED holds

pthread_mutex_lock(p) ==
    /\ MayCall("mutex_lock")
    /\ check_or_register_mutex(p)
    /\ WriteWord(p, "MUTX", MutexOf(p))
    /\ lock_mutex(MutexesAt(p), MutexOf(p))
    /\ UNCHANGED <<semVars, condVars, joined_by, detached>>

pthread_mutex_trylock(p) ==
    /\ MayCall("mutex_trylock")
    /\ check_or_register_mutex(p)
    /\ WriteWord(p, "MUTX", MutexOf(p))
    /\ LET ms == MutexesAt(p)
           id == MutexOf(p)
       IN  IF /\ mutex_is_locked(ms, id)
              /\ ~ (/\ mutex_is_recursive(ms, id)
                    /\ mutex_is_locked_by(ms, id, current_thread))
           THEN mutexes' = ms /\ Return("EBUSY") /\ UNCHANGED holds
           ELSE lock_mutex(ms, id)
    /\ UNCHANGED <<semVars, condVars, joined_by, detached>>

pthread_mutex_unlock(p) ==
    /\ MayCall("mutex_unlock")
    /\ check_or_register_mutex(p)
    /\ WriteWord(p, "MUTX", MutexOf(p))
    /\ LET ms == MutexesAt(p)
           id == MutexOf(p)
       IN  IF unlock_refused(ms, id, current_thread)
           THEN mutexes' = ms /\ Return("EPERM") /\ UNCHANGED holds
           ELSE /\ mutexes' = unlock_mutex(ms, id)
                /\ Released(ms, current_thread, id)
                /\ Return("ok")
    /\ UNCHANGED <<semVars, condVars, joined_by, detached>>

\* The guest word is wiped before destroy_mutex has its say.
pthread_mutex_destroy(p) ==
    /\ MayCall("mutex_destroy")
    /\ MayEnd(MutexBusy(p))
    /\ check_or_register_mutex(p)
    /\ WriteWord(p, "JUNK", NoMutex)
    /\ LET ms == MutexesAt(p)
           id == MutexOf(p)
       IN  IF destroy_refused(ms, id)
           THEN mutexes' = ms /\ Return("EBUSY")
           ELSE mutexes' = destroy_mutex(ms, id) /\ Return("ok")
    /\ UNCHANGED <<semVars, condVars, joined_by, detached, holds>>

ResumeLock ==
    /\ Alive /\ phase = "guest"
    /\ pending[current_thread].fn = "lock"
    /\ Obtained(current_thread, pending[current_thread].obj)
    /\ pending' = [pending EXCEPT ![current_thread] = NoCall]
    /\ ret' = "ok"
    /\ UNCHANGED <<threadVars, current_thread, blocked_by, suspend_count,
                   contextVars, scanVars, panic,
                   mutexVars, semVars, condVars, pthreadVars>>

(***************************************************************************)
(* pthread/cond.rs                                                         *)
(***************************************************************************)
pthread_cond_init(c) ==
    /\ MayCall("cond_init")
    /\ MayEnd(CondBusy(c))
    /\ InitCond(c)
    /\ Return("ok")
    /\ UNCHANGED <<mutexVars, semVars, pthreadVars, holds>>

CondInvalid(c) ==
    /\ MayCall("cond_signal")
    /\ ~CondKnown(c)
    /\ Return("EINVAL")
    /\ UNCHANGED <<mutexVars, semVars, condVars, pthreadVars, holds>>

\* pthread_cond_wait (deadline "none") and pthread_cond_timedwait up to the
\* yield: register the variable, unlock the mutex, join the waiting queue.
CondWait(fn, c, p, deadline) ==
    /\ MayCall(fn)
    /\ MayUse(c)
    /\ CondKnown(c)
    /\ RegisterCond(c)
    /\ check_or_register_mutex(p)
    /\ WriteWord(p, "MUTX", MutexOf(p))
    /\ LET ms == MutexesAt(p)
           id == MutexOf(p)
           cs == CondsAt(c)
       IN  \/ /\ unlock_refused(ms, id, current_thread)
              /\ mutexes' = ms
              /\ conds' = cs
              /\ Return("EPERM")
              /\ UNCHANGED holds
           \/ /\ ~unlock_refused(ms, id, current_thread)
              /\ cs[c].present
              /\ SameMutex(cs, c, id)
              /\ mutexes' = unlock_mutex(ms, id)
              /\ Released(ms, current_thread, id)
              /\ conds' = Enqueue(cs, c, id, current_thread)
              /\ Yield(BlockOn("Condition", c, deadline), CallTo(fn, c, id))
           \/ /\ ~unlock_refused(ms, id, current_thread)
              /\ ~cs[c].present
              /\ Panic("cond_missing")
              /\ UNCHANGED <<mutexes, conds, holds>>
           \/ /\ ~unlock_refused(ms, id, current_thread)
              /\ cs[c].present
              /\ ~SameMutex(cs, c, id)
              /\ Panic("cond_mutex")
              /\ UNCHANGED <<mutexes, conds, holds>>
    /\ UNCHANGED <<semVars, joined_by, detached>>

\* The variable is registered before the mutex turns out not to be one.
CondWaitInvalid(c, p) ==
    /\ MayCall("cond_wait")
    /\ MayUse(c)
    /\ CondKnown(c)
    /\ ~MutexKnown(p)
    /\ RegisterCond(c)
    /\ conds' = CondsAt(c)
    /\ Return("EINVAL")
    /\ UNCHANGED <<mutexVars, semVars, pthreadVars, holds>>

pthread_cond_wait(c, p) == CondWait("cond_wait", c, p, "none")
pthread_cond_timedwait(c, p) == CondWait("cond_timedwait", c, p, "pending")

\* After the yield: the host object must still be there, and tells whether
\* the wait timed out.  The mutex was relocked by the scheduler.
ResumeCond ==
    LET t    == current_thread
        call == pending[t]
        c    == call.obj
    IN  /\ Alive /\ phase = "guest"
        /\ call.fn \in {"cond_wait", "cond_timedwait"}
        /\ \/ /\ conds[c].present
              /\ conds' = ClearTimedOut(conds, c, t)
              /\ ret' = IF t \in conds[c].timed_out THEN "ETIMEDOUT" ELSE "ok"
              /\ Obtained(t, call.mutex)
              /\ pending' = [pending EXCEPT ![t] = NoCall]
              /\ UNCHANGED <<threadVars, current_thread, blocked_by,
                             suspend_count, contextVars, scanVars, panic>>
           \/ /\ ~conds[c].present
              /\ Panic("cond_missing")
              /\ UNCHANGED <<conds, holds>>
        /\ UNCHANGED <<mutexVars, semVars, cond_word, pthreadVars>>

\* The remaining calls on a variable that is registered: effect is the map
\* afterwards, and a destroyed variable (its magic number is still there)
\* is an unwrap of None.
OnCond(c, effect) ==
    /\ MayUse(c)
    /\ CondKnown(c)
    /\ RegisterCond(c)
    /\ \/ CondsAt(c)[c].present /\ conds' = effect /\ Return("ok")
       \/ /\ ~CondsAt(c)[c].present
          /\ Panic("cond_missing")
          /\ UNCHANGED conds
    /\ UNCHANGED <<mutexVars, semVars, pthreadVars, holds>>

pthread_cond_signal(c) ==
    MayCall("cond_signal") /\ OnCond(c, SignalOne(CondsAt(c), c))

pthread_cond_broadcast(c) ==
    MayCall("cond_broadcast") /\ OnCond(c, SignalAll(CondsAt(c), c))

pthread_cond_destroy(c) ==
    /\ MayCall("cond_destroy")
    /\ MayEnd(CondBusy(c))
    /\ \/ /\ CondsAt(c)[c].waiting = <<>> /\ CondsAt(c)[c].waking = <<>>
          /\ OnCond(c, [CondsAt(c) EXCEPT ![c] = NoCond])
       \/ /\ CondsAt(c)[c].waiting # <<>> \/ CondsAt(c)[c].waking # <<>>
          /\ Panic("cond_destroy")
          /\ UNCHANGED <<mutexVars, semVars, condVars, pthreadVars, holds>>

(***************************************************************************)
(* semaphore.rs                                                            *)
(***************************************************************************)
sem_init(s, v) ==
    /\ MayCall("sem_init")
    /\ InitSem(s, v)
    /\ Return("ok")
    /\ UNCHANGED <<mutexVars, condVars, pthreadVars, holds>>

sem_destroy(s) ==
    /\ MayCall("sem_destroy")
    /\ MayEnd(SemBusy(s))
    /\ \/ CloseSem(s) /\ Return("ok")
       \/ ~sems[s].open /\ Return("EINVAL") /\ UNCHANGED semVars
    /\ UNCHANGED <<mutexVars, condVars, pthreadVars, holds>>

sem_post(s) ==
    /\ MayCall("sem_post")
    /\ \/ sem_increment(s) /\ Return("ok")
       \/ ~sems[s].open /\ Return("EINVAL") /\ UNCHANGED semVars
    /\ UNCHANGED <<mutexVars, condVars, pthreadVars, holds>>

sem_wait(s) ==
    /\ MayCall("sem_wait")
    /\ \/ sem_decrement(s) /\ Return("ok")
       \/ /\ EnqueueSemWaiter(s, current_thread)
          /\ Yield(BlockOn("Semaphore", s, "none"),
                   CallTo("sem_wait", s, NoMutex))
       \/ ~sems[s].open /\ Return("EINVAL") /\ UNCHANGED semVars
    /\ UNCHANGED <<mutexVars, condVars, pthreadVars, holds>>

sem_trywait(s) ==
    /\ MayCall("sem_trywait")
    /\ \/ sem_decrement(s) /\ Return("ok")
       \/ sems[s].open /\ sems[s].value = 0 /\ Return("EAGAIN")
          /\ UNCHANGED semVars
       \/ ~sems[s].open /\ Return("EINVAL") /\ UNCHANGED semVars
    /\ UNCHANGED <<mutexVars, condVars, pthreadVars, holds>>

\* sem_decrement answers true to every thread that was blocked.
ResumeSem ==
    /\ Alive /\ phase = "guest"
    /\ pending[current_thread].fn = "sem_wait"
    /\ passed' = [passed EXCEPT ![pending[current_thread].obj] = @ + 1]
    /\ pending' = [pending EXCEPT ![current_thread] = NoCall]
    /\ ret' = "ok"
    /\ UNCHANGED <<threadVars, current_thread, blocked_by, suspend_count,
                   contextVars, scanVars, panic, sems, posted,
                   mutexVars, condVars, pthreadVars, holds>>

(***************************************************************************)
(* Threads: environment.rs, pthread/thread.rs and mach/thread_info.rs      *)
(***************************************************************************)
\* new_thread, for a joinable or detached thread, suspended or not.
NewThread(detach, suspended) ==
    /\ nthreads < MaxThreads
    /\ nthreads' = nthreads + 1
    /\ active' = [active EXCEPT ![nthreads] = TRUE]
    /\ guest_context' = [guest_context EXCEPT ![nthreads] = TRUE]
    /\ host_context' = [host_context EXCEPT ![nthreads] = TRUE]
    /\ suspend_count' = [suspend_count EXCEPT
                           ![nthreads] = IF suspended THEN 1 ELSE 0]
    /\ detached' = [detached EXCEPT ![nthreads] = detach]
    /\ ret' = "ok"
    /\ UNCHANGED <<has_return, current_thread, blocked_by, old_context,
                   scanVars, pending, panic, joined_by, mutex_word,
                   mutexVars, semVars, condVars, holds>>

pthread_create(detach) ==
    MayCall("create") /\ NewThread(detach, FALSE)

pthread_create_suspended_np(detach) ==
    MayCall("create_suspended") /\ NewThread(detach, TRUE)

\* Fault: the return value is not stored.
ThreadExit_novalue ==
    /\ MayCall("exit")
    /\ current_thread # 0
    /\ active' = [active EXCEPT ![current_thread] = FALSE]
    /\ old_context' = FALSE
    /\ ret' = "none"
    /\ StartScan
    /\ UNCHANGED <<nthreads, has_return, current_thread, blocked_by,
                   suspend_count, guest_context, host_context, pending, panic,
                   mutexVars, semVars, condVars, pthreadVars, holds>>

\* The start routine returns or calls pthread_exit: the coroutine stores the
\* return value and run() drops it.  The main routine must not return.
ThreadExit ==
    /\ MayCall("exit")
    /\ \/ /\ current_thread # 0
          /\ active' = [active EXCEPT ![current_thread] = FALSE]
          /\ has_return' = [has_return EXCEPT ![current_thread] = TRUE]
          /\ old_context' = FALSE
          /\ ret' = "none"
          /\ StartScan
          /\ UNCHANGED <<nthreads, current_thread, blocked_by,
                         suspend_count, guest_context, host_context,
                         pending, panic>>
       \/ current_thread = 0 /\ Panic("main_exit")
    /\ UNCHANGED <<mutexVars, semVars, condVars, pthreadVars, holds>>

pthread_join(j) ==
    /\ MayCall("join")
    /\ j \in LiveThreads
    /\ \/ j = 0 /\ Panic("join_main") /\ UNCHANGED joined_by
       \/ /\ j # 0
          /\ j = current_thread \/ joined_by[current_thread] = j
          /\ Return("EDEADLK")
          /\ UNCHANGED joined_by
       \/ /\ j \notin {0, current_thread, joined_by[current_thread]}
          /\ detached[j]
          /\ Return("EINVAL")
          /\ UNCHANGED joined_by
       \/ /\ j \notin {0, current_thread, joined_by[current_thread]}
          /\ ~detached[j]
          /\ joined_by' = [joined_by EXCEPT ![j] = current_thread]
          /\ Yield(BlockOn("Joining", j, "none"),
                   CallTo("join", j, NoMutex))
    /\ UNCHANGED <<mutexVars, semVars, condVars, mutex_word, detached, holds>>

pthread_detach(j) ==
    /\ MayCall("detach")
    /\ j \in LiveThreads
    /\ detached' = [detached EXCEPT ![j] = TRUE]
    /\ Return(IF detached[j] THEN "EINVAL" ELSE "ok")
    /\ UNCHANGED <<mutexVars, semVars, condVars, mutex_word, joined_by, holds>>

\* Fault: a thread that suspends itself goes on running.
thread_suspend_running(j) ==
    /\ MayCall("suspend")
    /\ j \in LiveThreads
    /\ suspend_count[j] < MaxSuspend
    /\ suspend_count' = [suspend_count EXCEPT ![j] = @ + 1]
    /\ ret' = "ok"
    /\ UNCHANGED <<threadVars, current_thread, blocked_by, contextVars,
                   scanVars, pending, panic,
                   mutexVars, semVars, condVars, pthreadVars, holds>>

\* Environment::suspend_thread: suspending oneself yields.
thread_suspend(j) ==
    /\ MayCall("suspend")
    /\ j \in LiveThreads
    /\ suspend_count[j] < MaxSuspend
    /\ suspend_count' = [suspend_count EXCEPT ![j] = @ + 1]
    /\ IF j = current_thread
       THEN /\ pending' = [pending EXCEPT ![j] = CallTo("suspend", 0, NoMutex)]
            /\ ret' = "none"
            /\ StartScan
       ELSE ret' = "ok" /\ UNCHANGED <<pending, scanVars>>
    /\ UNCHANGED <<threadVars, current_thread, blocked_by, contextVars, panic,
                   mutexVars, semVars, condVars, pthreadVars, holds>>

\* Environment::resume_thread: resuming a thread that is not suspended only
\* logs a warning.
thread_resume(j) ==
    /\ MayCall("resume")
    /\ j \in LiveThreads
    /\ suspend_count' = [suspend_count EXCEPT ![j] = IF @ > 0 THEN @ - 1 ELSE @]
    /\ ret' = "ok"
    /\ UNCHANGED <<threadVars, current_thread, blocked_by, contextVars, scanVars,
                   pending, panic,
                   mutexVars, semVars, condVars, pthreadVars, holds>>

\* Environment::sleep
sleep ==
    /\ MayCall("sleep")
    /\ Yield(BlockOn("Sleeping", 0, "pending"), CallTo("sleep", 0, NoMutex))
    /\ UNCHANGED <<mutexVars, semVars, condVars, pthreadVars, holds>>

\* Host functions that just return once the thread has been rescheduled.
ResumeOther ==
    /\ Alive /\ phase = "guest"
    /\ pending[current_thread].fn \in {"join", "sleep", "suspend"}
    /\ pending' = [pending EXCEPT ![current_thread] = NoCall]
    /\ ret' = "ok"
    /\ UNCHANGED <<threadVars, current_thread, blocked_by, suspend_count,
                   contextVars, scanVars, panic,
                   mutexVars, semVars, condVars, pthreadVars, holds>>

\* run_inner: the time slice (remaining_ticks) is used up.
Preempt ==
    /\ Running
    /\ Yield(NotBlocked, NoCall)
    /\ UNCHANGED <<mutexVars, semVars, condVars, pthreadVars, holds>>

\* After a panic of the host, or the end of the program, nothing happens.
Halted == ~Alive /\ UNCHANGED vars

(***************************************************************************)
(* The specification                                                       *)
(***************************************************************************)
MutexCall(p) ==
    \/ MutexInvalid(p)
    \/ \E type \in GuestMutexTypes : pthread_mutex_init(p, type)
    \/ pthread_mutex_lock(p)
    \/ pthread_mutex_trylock(p)
    \/ pthread_mutex_unlock(p)
    \/ pthread_mutex_destroy(p)

CondCall(c) ==
    \/ CondInvalid(c)
    \/ pthread_cond_init(c)
    \/ \E p \in MutexPtrs : CondWaitInvalid(c, p)
    \/ \E p \in MutexPtrs : pthread_cond_wait(c, p)
    \/ \E p \in MutexPtrs : pthread_cond_timedwait(c, p)
    \/ pthread_cond_signal(c)
    \/ pthread_cond_broadcast(c)
    \/ pthread_cond_destroy(c)

SemCall(s) ==
    \/ \E v \in SemValues : sem_init(s, v)
    \/ sem_destroy(s)
    \/ sem_post(s)
    \/ sem_wait(s)
    \/ sem_trywait(s)

ThreadCall ==
    \/ \E detach \in BOOLEAN : pthread_create(detach)
    \/ \E detach \in BOOLEAN : pthread_create_suspended_np(detach)
    \/ ThreadExit
    \/ \E j \in ThreadIds : pthread_join(j)
    \/ \E j \in ThreadIds : pthread_detach(j)
    \/ \E j \in ThreadIds : thread_suspend(j)
    \/ \E j \in ThreadIds : thread_resume(j)
    \/ sleep
    \/ Preempt

Resume == ResumeLock \/ ResumeCond \/ ResumeSem \/ ResumeOther

Schedule == schedule_next_thread /\ UNCHANGED <<pthreadVars, holds>>

Clock == \E t \in ThreadIds : Expire(t) /\ UNCHANGED <<pthreadVars, holds>>

Next ==
    \/ \E p \in MutexPtrs : MutexCall(p)
    \/ \E c \in CondPtrs : CondCall(c)
    \/ \E s \in SemPtrs : SemCall(s)
    \/ ThreadCall
    \/ Resume
    \/ Schedule
    \/ Clock
    \/ Halted

Spec == Init /\ [][Next]_vars

(***************************************************************************)
(* Fairness.  run() always calls the scheduler after a yield and resumes   *)
(* the coroutine it picks; a thread that keeps executing guest code runs   *)
(* out of remaining_ticks; and time passes.                                *)
(***************************************************************************)
Fairness ==
    /\ WF_vars(Schedule)
    /\ WF_vars(Resume)
    /\ WF_vars(Preempt)
    /\ \A t \in ThreadIds : WF_vars(Expire(t) /\ UNCHANGED <<pthreadVars, holds>>)

FairSpec == Spec /\ Fairness

(***************************************************************************)
(* What the thread layer promises                                          *)
(***************************************************************************)

Times(seq, t) == Cardinality({i \in 1 .. Len(seq) : seq[i] = t})

BlockedOn(t, kind, obj) == blocked_by[t].kind = kind /\ blocked_by[t].obj = obj

(***************************************************************************)
(* Mutexes                                                                 *)
(***************************************************************************)
\* A thread whose pthread_mutex_lock (or condition wait) has returned holds
\* the mutex, at the depth it locked it to, until it unlocks it or, for a
\* NORMAL mutex, another thread does.  In particular two threads never hold
\* one mutex, although the scheduler hands it over on behalf of a thread that
\* is not running (lock_mutex, unlock_mutex, relock_unblocked_mutex_...).
MutualExclusion ==
    \A t \in ThreadIds, id \in MutexIds :
        holds[t][id] # 0 => /\ mutexes[id].locked_by = t
                            /\ mutexes[id].lock_count = holds[t][id]

\* waiting_count is exactly the number of threads blocked in lock_mutex, so
\* that destroy_mutex refuses a mutex which the scheduler will relock.
WaitersCounted ==
    \A id \in MutexIds :
        mutexes[id].waiting_count =
            Cardinality({t \in ThreadIds : BlockedOn(t, "Mutex", id)})

\* A thread blocked on a mutex blocks on one that exists: "Add to the waiting
\* count, so that the mutex isn't destroyed" (lock_mutex).
BlockedMutexExists ==
    \A t \in ThreadIds, id \in MutexIds :
        BlockedOn(t, "Mutex", id) => Exists(mutexes, id)

\* The MutexId that a live pthread_mutex_t names is in the host's map, which
\* lock_mutex, unlock_mutex and destroy_mutex unwrap, and no two guest
\* mutexes name the same one.
WordsNameMutexes ==
    \A p \in MutexPtrs :
        mutex_word[p].magic = "MUTX" =>
            /\ Exists(mutexes, mutex_word[p].id)
            /\ \A q \in MutexPtrs \ {p} : mutex_word[q].id # mutex_word[p].id

\* The words in guest memory name the mutexes there are, and these count their
\* waiters: what destroy and the scheduler rely on.  The count is exact until
\* the guest uses a condition variable: a wait that timed out goes on to wait
\* for its mutex without being counted, and still lowers the count.
MutexesCounted ==
    /\ WordsNameMutexes
    /\ (\A c \in CondPtrs : cond_word[c] # "COND") => WaitersCounted

(***************************************************************************)
(* Condition variables                                                     *)
(***************************************************************************)
\* A thread is queued at a condition variable, once, exactly while it is
\* blocked on it, and the mutex the scheduler will relock for it is known.
\* A thread queued after it has gone would swallow later signals.
CondQueues ==
    \A c \in CondPtrs :
        /\ \A t \in ThreadIds :
              Times(conds[c].waiting \o conds[c].waking, t)
                  = IF BlockedOn(t, "Condition", c) THEN 1 ELSE 0
        /\ (\E t \in ThreadIds : BlockedOn(t, "Condition", c)) =>
              /\ conds[c].curr_mutex # NoMutex
              /\ Exists(mutexes, conds[c].curr_mutex)

\* timed_out names only threads whose timed wait has run out and has not
\* returned yet: a stale entry would make a later wait answer ETIMEDOUT, or
\* fail an assertion of the scheduler or of pthread_cond_wait.
TimedOutFresh ==
    \A c \in CondPtrs : \A t \in conds[c].timed_out :
        /\ pending[t].fn = "cond_timedwait"
        /\ pending[t].obj = c
        /\ blocked_by[t].kind \in {"Mutex", "NotBlocked"}

\* The queue and the timed-out set of a condition variable are those of the
\* threads that wait for it now.
CondWaitersExact == CondQueues /\ TimedOutFresh

(***************************************************************************)
(* Semaphores                                                              *)
(***************************************************************************)
\* Tokens are neither lost nor made up: those posted are in the value, were
\* taken by a wait that returned 0, or were granted to a thread that the
\* scheduler has just switched to.  The waiting set is who is blocked.
SemTokens ==
    \A s \in SemPtrs :
        /\ sems[s].waiting = {t \in ThreadIds : BlockedOn(t, "Semaphore", s)}
        /\ sems[s].value + passed[s]
             + Cardinality({t \in ThreadIds :
                              /\ pending[t] = CallTo("sem_wait", s, NoMutex)
                              /\ blocked_by[t] = NotBlocked})
             = posted[s]

(***************************************************************************)
(* The scheduler                                                           *)
(***************************************************************************)
\* "There should always be (threads.len() - 1) contexts in existence"
\* (Thread::guest_context): the registers of every thread but the current
\* one are stored, a coroutine is stored for every other thread that has not
\* finished, and run() has the current one's in hand.  These are the unwraps
\* and the assertions of switch_thread.
ContextInv ==
    /\ \A t \in ThreadIds :
          /\ guest_context[t] <=> t < nthreads /\ t # current_thread
          /\ host_context[t] <=> active[t] /\ t # current_thread
    /\ old_context <=> active[current_thread]

\* The thread that executes is one the scheduler may run: yield_thread
\* asserts on both sides of a switch that it is not blocked.
CurrentRunnable ==
    phase = "guest" => /\ active[current_thread]
                       /\ blocked_by[current_thread] = NotBlocked
                       /\ suspend_count[current_thread] = 0

\* A finished thread has a return value (which the scheduler unwraps for a
\* thread that joins it) and is in no call; nobody else finishes.
FinishedThreads ==
    \A t \in LiveThreads :
        active[t] # has_return[t] /\ (has_return[t] => pending[t] = NoCall)

\* No host assertion fails for a guest that does not destroy what it uses:
\* only ending the main routine, joining the main thread, using two mutexes
\* with one condition variable at once, or having every thread blocked stops
\* the emulator.
NoHostPanic ==
    panic \in {"none", "main_exit", "join_main", "cond_mutex", "deadlock"}

\* Whether the scheduler could switch to t now.
Eligible(t) ==
    LET b == blocked_by[t]
    IN  /\ active[t]
        /\ suspend_count[t] = 0
        /\ \/ b.kind = "NotBlocked"
           \/ b.deadline = "passed"
           \/ b.kind = "Mutex" /\ ~mutex_is_locked(mutexes, b.obj)
           \/ b.kind = "Semaphore" /\ (sems[b.obj].open => sems[b.obj].value > 0)
           \/ b.kind = "Condition" /\ CondReady(t)
           \/ b.kind = "Joining" /\ ~active[b.obj]

\* "No active threads, program has deadlocked!" is never a false alarm: no
\* thread could go on, now or when some deadline comes.
NoFalseDeadlock ==
    panic = "deadlock" =>
        \A t \in ThreadIds :
            /\ ~Eligible(t)
            /\ active[t] /\ suspend_count[t] = 0
                   => blocked_by[t].deadline = "none"

(***************************************************************************)
(* Liveness                                                                *)
(***************************************************************************)
\* Round robin starves nobody: no thread that could run stays waiting for
\* ever while the others do, whatever they call.
EligibleRuns ==
    \A t \in ThreadIds :
        []<>(~Eligible(t) \/ current_thread = t \/ ~Alive)

\* A sleep or a timed wait ends, unless its thread is suspended: the clock
\* is looked at even when all the threads are blocked, and a timed wait gives
\* up its place in the queue even when its mutex is taken.
TimedBlockEnds ==
    \A t \in ThreadIds :
        (blocked_by[t].deadline # "none")
            ~> \/ blocked_by[t].deadline = "none"
               \/ suspend_count[t] > 0
               \/ ~Alive

\* When all the threads are blocked for good the emulator says so instead of
\* hanging.
DeadlockReported ==
    (\A t \in ThreadIds :
        /\ ~Eligible(t)
        /\ active[t] /\ suspend_count[t] = 0
               => blocked_by[t].deadline = "none") ~> ~Alive

=============================================================================
