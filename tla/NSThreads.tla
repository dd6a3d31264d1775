----------------------------- MODULE NSThreads -----------------------------
(***************************************************************************)
(* NSThread (src/src/frameworks/foundation/ns_thread.rs): objects that     *)
(* start a pthread, the map from pthreads to their objects, and the        *)
(* references that keep a thread and its target alive while it runs.       *)
(*                                                                         *)
(* Workers are the pthreads other than the main one; some are made by      *)
(* pthread_create() and know no NSThread until they ask for one.  The      *)
(* guest keeps references to threads and targets of its own and gives them *)
(* up whenever it likes.                                                   *)
(*                                                                         *)
(* Bounds: Threads for NSThread objects, Workers for pthreads, Targets for *)
(* their targets.  History: guest and guestTargets are the references the  *)
(* guest owns, started the objects that were started, wasted the           *)
(* references that objects deallocated without being started took along.   *)
(***************************************************************************)
EXTENDS Naturals, FiniteSetsExt, TLC

CONSTANTS
    Threads, Workers, Targets,
    Main,           \* the main pthread
    nil, NoObject

MainAssumption == Main \notin Workers /\ nil \notin Targets /\ NoObject \notin Threads

Pthreads == Workers \cup {Main}

VARIABLES
    ns_threads,     \* State::ns_threads, from pthreads to objects
    refs,           \* the reference count of each NSThread, 0 if not alive
    target_refs,    \* the reference count of each target
    host,           \* NSThreadHostObject
    worker,         \* what each pthread does, and for which NSThread
    main_threads,   \* the objects that mainThread answered
    guest, guestTargets, started, wasted

vars == <<ns_threads, refs, target_refs, host, worker, main_threads,
          guest, guestTargets, started, wasted>>

-----------------------------------------------------------------------------
Phases == {"none", "created", "main", "foreign", "ended"}

HostObject == [target : Targets \cup {nil}, owned : BOOLEAN,
               executing : BOOLEAN, finished : BOOLEAN, cancelled : BOOLEAN,
               is_main_thread : BOOLEAN]

Fresh == [target |-> nil, owned |-> FALSE, executing |-> FALSE,
          finished |-> FALSE, cancelled |-> FALSE, is_main_thread |-> FALSE]

Idle == [phase |-> "none", thread |-> NoObject]

Unused == {t \in Threads : refs[t] = 0 /\ t \notin started}
Running == {p \in Workers : worker[p].phase \in {"created", "main"}}

TypeOK ==
    /\ ns_threads \in [Pthreads -> Threads \cup {NoObject}]
    /\ refs \in [Threads -> 0..3]
    /\ target_refs \in [Targets -> 0..(1 + Cardinality(Threads))]
    /\ host \in [Threads -> HostObject]
    /\ worker \in [Workers -> [phase : Phases, thread : Threads \cup {NoObject}]]
    /\ main_threads \subseteq Threads /\ guest \subseteq Threads
    /\ guestTargets \subseteq Targets /\ started \subseteq Threads
    /\ wasted \in [Targets -> 0..Cardinality(Threads)]

Init ==
    /\ ns_threads = [p \in Pthreads |-> NoObject]
    /\ refs = [t \in Threads |-> 0]
    /\ target_refs = [x \in Targets |-> 1]
    /\ host = [t \in Threads |-> Fresh]
    /\ worker = [p \in Workers |-> Idle]
    /\ main_threads = {} /\ guest = {} /\ guestTargets = Targets
    /\ started = {} /\ wasted = [x \in Targets |-> 0]

-----------------------------------------------------------------------------
(* alloc and initWithTarget:selector:object: by the guest.  A target that  *)
(* the guest still holds is retained.                                      *)
initWithTarget(t, x) ==
    /\ t \in Unused /\ x \in guestTargets
    /\ refs' = [refs EXCEPT ![t] = 1]
    /\ host' = [host EXCEPT ![t] = [Fresh EXCEPT !.target = x]]
    /\ target_refs' = [target_refs EXCEPT ![x] = @ + 1]
    /\ guest' = guest \cup {t}
    /\ UNCHANGED <<ns_threads, worker, main_threads, guestTargets, started, wasted>>

(* start, on a new pthread: the object is retained for the worker and is   *)
(* in the map before the pthread first runs.                               *)
StartOn(t, p) ==
    /\ worker[p].phase = "none"
    /\ worker' = [worker EXCEPT ![p] = [phase |-> "created", thread |-> t]]
    /\ ns_threads' = [ns_threads EXCEPT ![p] = t]
    /\ started' = started \cup {t}

\* Fault: the object is not retained for its worker.
start_unretained(t, p) ==
    /\ t \in guest \ (started \cup main_threads)
    /\ host[t].target # nil
    /\ StartOn(t, p)
    /\ UNCHANGED <<refs, target_refs, host, main_threads, guest, guestTargets, wasted>>

start(t, p) ==
    /\ t \in guest \ (started \cup main_threads)
    /\ host[t].target # nil
    /\ StartOn(t, p)
    /\ refs' = [refs EXCEPT ![t] = @ + 1]
    /\ UNCHANGED <<target_refs, host, main_threads, guest, guestTargets, wasted>>

(* detachNewThreadSelector:toTarget:withObject: the object belongs to its  *)
(* worker, which gives up the reference of alloc as well as that of start. *)
detach_new_thread(t, x, p) ==
    /\ t \in Unused /\ x \in guestTargets
    /\ StartOn(t, p)
    /\ refs' = [refs EXCEPT ![t] = 2]
    /\ host' = [host EXCEPT ![t] = [Fresh EXCEPT !.target = x, !.owned = TRUE]]
    /\ target_refs' = [target_refs EXCEPT ![x] = @ + 1]
    /\ UNCHANGED <<main_threads, guest, guestTargets, wasted>>

(* The worker enters the helper and sends main to its object. *)
InvocationHelper(p) ==
    /\ worker[p].phase = "created"
    /\ worker' = [worker EXCEPT ![p].phase = "main"]
    /\ host' = [host EXCEPT ![worker[p].thread].executing = TRUE]
    /\ UNCHANGED <<ns_threads, refs, target_refs, main_threads,
                   guest, guestTargets, started, wasted>>

\* Fault: only the reference of start is given up.
ReleasedByHelper_ofStart(t) == 1

(* main returns: the target is released, the map forgets the pthread, and  *)
(* the references of start and, if it is owned, of alloc are given up.     *)
ReleasedByHelper(t) == IF host[t].owned THEN 2 ELSE 1

\* Fault: the map keeps the pthread.
HelperReturns_remembered(p) ==
    /\ worker[p].phase = "main"
    /\ LET t == worker[p].thread
       IN  /\ host' = [host EXCEPT ![t].finished = TRUE, ![t].executing = FALSE]
           /\ target_refs' = [target_refs EXCEPT ![host[t].target] = @ - 1]
           /\ refs' = [refs EXCEPT ![t] = @ - ReleasedByHelper(t)]
    /\ worker' = [worker EXCEPT ![p] = [phase |-> "ended", thread |-> NoObject]]
    /\ UNCHANGED <<ns_threads, main_threads, guest, guestTargets, started, wasted>>

HelperReturns(p) ==
    /\ worker[p].phase = "main"
    /\ LET t == worker[p].thread
       IN  /\ host' = [host EXCEPT ![t].finished = TRUE, ![t].executing = FALSE]
           /\ target_refs' = [target_refs EXCEPT ![host[t].target] = @ - 1]
           /\ refs' = [refs EXCEPT ![t] = @ - ReleasedByHelper(t)]
    /\ ns_threads' = [ns_threads EXCEPT ![p] = NoObject]
    /\ worker' = [worker EXCEPT ![p] = [phase |-> "ended", thread |-> NoObject]]
    /\ UNCHANGED <<main_threads, guest, guestTargets, started, wasted>>

-----------------------------------------------------------------------------
(* currentThread: an object is made for a pthread that has none; the one   *)
(* of the main pthread is marked.                                          *)
MayAsk(p) == IF p = Main THEN TRUE ELSE worker[p].phase \in {"foreign", "main"}

currentThread(p, t) ==
    /\ MayAsk(p) /\ ns_threads[p] = NoObject
    /\ t \in Unused
    /\ ns_threads' = [ns_threads EXCEPT ![p] = t]
    /\ refs' = [refs EXCEPT ![t] = 1]
    /\ host' = [host EXCEPT ![t] = [Fresh EXCEPT !.is_main_thread = (p = Main)]]
    /\ UNCHANGED <<target_refs, worker, main_threads, guest, guestTargets, started, wasted>>

(* mainThread: the object in the map that is marked, else a new one that   *)
(* is marked and not put into the map.                                     *)
MarkedMain ==
    {t \in Threads : \E p \in Pthreads : ns_threads[p] = t /\ host[t].is_main_thread}

mainThread(t) ==
    /\ IF MarkedMain # {}
       THEN /\ t \in MarkedMain
            /\ UNCHANGED <<refs, host>>
       ELSE /\ t \in Unused \ main_threads
            /\ refs' = [refs EXCEPT ![t] = 1]
            /\ host' = [host EXCEPT ![t] = [Fresh EXCEPT !.is_main_thread = TRUE]]
    /\ main_threads' = main_threads \cup {t}
    /\ UNCHANGED <<ns_threads, target_refs, worker, guest, guestTargets, started, wasted>>

cancel(t) ==
    /\ t \in guest
    /\ host' = [host EXCEPT ![t].cancelled = TRUE]
    /\ UNCHANGED <<ns_threads, refs, target_refs, worker, main_threads,
                   guest, guestTargets, started, wasted>>

(* The guest gives up its reference to a thread.  dealloc releases neither *)
(* target nor object: those of a thread never started stay retained.       *)
GuestReleases(t) ==
    /\ t \in guest
    /\ guest' = guest \ {t}
    /\ refs' = [refs EXCEPT ![t] = @ - 1]
    /\ wasted' = IF t \in started THEN wasted
                 ELSE [wasted EXCEPT ![host[t].target] = @ + 1]
    /\ started' = started \cup {t}
    /\ UNCHANGED <<ns_threads, target_refs, host, worker, main_threads, guestTargets>>

GuestReleasesTarget(x) ==
    /\ x \in guestTargets
    /\ guestTargets' = guestTargets \ {x}
    /\ target_refs' = [target_refs EXCEPT ![x] = @ - 1]
    /\ UNCHANGED <<ns_threads, refs, host, worker, main_threads, guest, started, wasted>>

(* pthread_create() by the guest itself, and the end of such a thread. *)
ForeignStarts(p) ==
    /\ worker[p].phase = "none"
    /\ worker' = [worker EXCEPT ![p] = [phase |-> "foreign", thread |-> NoObject]]
    /\ UNCHANGED <<ns_threads, refs, target_refs, host, main_threads,
                   guest, guestTargets, started, wasted>>

ForeignEnds(p) ==
    /\ worker[p].phase = "foreign"
    /\ worker' = [worker EXCEPT ![p] = [phase |-> "ended", thread |-> NoObject]]
    /\ UNCHANGED <<ns_threads, refs, target_refs, host, main_threads,
                   guest, guestTargets, started, wasted>>

Next ==
    \/ \E t \in Threads :
         \/ \E x \in Targets :
              \/ initWithTarget(t, x)
              \/ \E p \in Workers : detach_new_thread(t, x, p)
         \/ \E p \in Workers : start(t, p)
         \/ \E p \in Pthreads : currentThread(p, t)
         \/ mainThread(t) \/ cancel(t) \/ GuestReleases(t)
    \/ \E x \in Targets : GuestReleasesTarget(x)
    \/ \E p \in Workers :
         \/ InvocationHelper(p) \/ HelperReturns(p)
         \/ ForeignStarts(p) \/ ForeignEnds(p)

Spec == Init /\ [][Next]_vars

-----------------------------------------------------------------------------
(* As long as a worker has not left the helper, its NSThread and the target *)
(* it calls are alive, whatever references the guest gave up meanwhile.     *)
AliveWhileRunning ==
    \A p \in Running :
        LET t == worker[p].thread
        IN  refs[t] > 0 /\ target_refs[host[t].target] > 0

(* currentThread on a worker answers the object that started it, and no     *)
(* pthread is ever answered an object that is not alive.                    *)
CurrentIsOwn ==
    /\ \A p \in Running : ns_threads[p] = worker[p].thread
    /\ \A p \in Pthreads : ns_threads[p] # NoObject => refs[ns_threads[p]] > 0

(* No reference is lost or given up twice: a target is retained by the      *)
(* guest, by each thread that has yet to run, and by those that were        *)
(* deallocated before they could.  When worker and guest are done with a    *)
(* thread it is gone.                                                       *)
Holders(x) == {t \in Threads : host[t].target = x /\ refs[t] > 0 /\ ~host[t].finished}

ReferencesBalanced ==
    /\ \A x \in Targets :
        target_refs[x] = Cardinality(Holders(x)) + wasted[x]
                            + (IF x \in guestTargets THEN 1 ELSE 0)
    /\ \A t \in Threads : host[t].target # nil =>
        refs[t] = Cardinality({p \in Running : worker[p].thread = t})
                  + (IF t \in guest \/ \E p \in Running :
                            worker[p].thread = t /\ host[t].owned THEN 1 ELSE 0)

=============================================================================
