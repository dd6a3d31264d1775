------------------------------ MODULE MCObjects -----------------------------
(***************************************************************************)
(* Objective-C: reference counts, weak variables and autorelease pools,    *)
(* message dispatch with +initialize, the notification centre, key-value   *)
(* observing and NSThread. A behaviour is that of an app that uses one of  *)
(* them (app, chosen in the initial state) and leaves the others as they   *)
(* were initialised, so that TLC explores the sum of their state spaces. A *)
(* component that needs two sets of bounds is there twice.                 *)
(***************************************************************************)
EXTENDS Integers, TLC

VARIABLES app,         \* the component that the app of this behaviour uses
    \* ObjcRefs, two threads
    rc, weak_refs, slot, managed, pool_stacks, pool_objects, kvc, assoc, frames,
    owned,
    \* ObjcRefs, one thread
    wr_rc, wr_weak_refs, wr_slot, wr_managed, wr_pool_stacks, wr_pool_objects,
    wr_kvc, wr_assoc, wr_frames, wr_owned,
    \* ObjcRefs, weak variables that are read
    wl_rc, wl_weak_refs, wl_slot, wl_managed, wl_pool_stacks, wl_pool_objects,
    wl_kvc, wl_assoc, wl_frames, wl_owned,
    \* MessageDispatch, +initialize
    initialized_classes, DISPATCH_DEPTH, stack, calls,
    \* MessageDispatch, recursion
    rl_initialized_classes, rl_DISPATCH_DEPTH, rl_stack, rl_calls,
    \* Notifications
    observers, added, retained, nc_owned, posts, gone,
    \* KeyValueObserving, two threads
    value, KVO_OBSERVERS, PENDING_KVO_OLD_VALUES, changes,
    \* KeyValueObserving, one thread
    oa_value, oa_KVO_OBSERVERS, oa_PENDING_KVO_OLD_VALUES, oa_changes,
    \* NSThreads
    ns_threads, refs, target_refs, host, worker, main_threads, guest, guestTargets,
    started, wasted,
    \* Views, whose layers are those of the views
    objc, held,
    \* Views, and layers of the guest
    vl_objc, vl_held

Super == ("Root" :> "none") @@ ("Child" :> "Root") @@ ("Sibling" :> "Root") @@ ("Leaf" :> "Child")

\* Two threads share two objects, which are kept by counts, a pool, KVC and
\* associations.
RefsOfTwo == INSTANCE ObjcRefs WITH
    Objects <- {"o1", "o2"}, Pools <- {"p1"}, Slots <- {}, Threads <- {"t1", "t2"},
    MaxRefs <- 2, MaxFrames <- 3, LoadDying <- FALSE, Nil <- "nil"

\* One thread with two pools, two weak variables and two objects, whose addresses
\* are used again.
WeakRefs == INSTANCE ObjcRefs WITH
    Objects <- {"o1", "o2"}, Pools <- {"p1", "p2"}, Slots <- {"s1", "s2"},
    Threads <- {"t1"}, MaxRefs <- 1, MaxFrames <- 3, LoadDying <- FALSE,
    Nil <- "nil", rc <- wr_rc, weak_refs <- wr_weak_refs, slot <- wr_slot,
    managed <- wr_managed, pool_stacks <- wr_pool_stacks,
    pool_objects <- wr_pool_objects, kvc <- wr_kvc, assoc <- wr_assoc,
    frames <- wr_frames, owned <- wr_owned

\* One thread with a weak variable, whose loads retain.
WeakLoads == INSTANCE ObjcRefs WITH
    Objects <- {"o1", "o2"}, Pools <- {"p1"}, Slots <- {"s1"}, Threads <- {"t1"},
    MaxRefs <- 2, MaxFrames <- 2, LoadDying <- FALSE, Nil <- "nil", rc <- wl_rc,
    weak_refs <- wl_weak_refs, slot <- wl_slot, managed <- wl_managed,
    pool_stacks <- wl_pool_stacks, pool_objects <- wl_pool_objects, kvc <- wl_kvc,
    assoc <- wl_assoc, frames <- wl_frames, owned <- wl_owned

\* The root implements +initialize, two classes inherit it and one overrides it;
\* nothing comes near the limit.
Initializing == INSTANCE MessageDispatch WITH
    Classes <- {"Root", "Child", "Sibling", "Leaf"}, NoClass <- "none",
    Super <- Super, ThreadIds <- {"t1", "t2"}, Implementing <- {"Root", "Sibling"},
    MAX_DEPTH <- 12, MaxNesting <- 2

\* Two threads reach the limit together; nothing is dispatched for the root, which
\* has no +initialize.
Recursing == INSTANCE MessageDispatch WITH
    Classes <- {"Root", "Child", "Sibling", "Leaf"}, NoClass <- "none",
    Super <- Super, ThreadIds <- {"t1", "t2"}, Implementing <- {"Child"},
    MAX_DEPTH <- 3, MaxNesting <- 3, initialized_classes <- rl_initialized_classes,
    DISPATCH_DEPTH <- rl_DISPATCH_DEPTH, stack <- rl_stack, calls <- rl_calls

\* Two observers; posts within posts.
Centre == INSTANCE Notifications WITH
    Observers <- {"a", "b"}, Objects <- {"p"}, Names <- {"x"}, MaxAdded <- 3,
    MaxDepth <- 2, owned <- nc_owned

\* An observer that comes and goes while two threads change the key.
Observing == INSTANCE KeyValueObserving WITH
    Threads <- {"t1", "t2"}, Observers <- {"a"}, MaxValue <- 2, MaxDepth <- 2,
    RegisterInChange <- TRUE

\* Observers that stay while one thread changes the key, three deep.
ObservingAlone == INSTANCE KeyValueObserving WITH
    Threads <- {"t1"}, Observers <- {"a", "b"}, MaxValue <- 3, MaxDepth <- 3,
    RegisterInChange <- FALSE, value <- oa_value,
    KVO_OBSERVERS <- oa_KVO_OBSERVERS,
    PENDING_KVO_OLD_VALUES <- oa_PENDING_KVO_OLD_VALUES, changes <- oa_changes

\* Two NSThread objects and two pthreads beside the main one, which the guest may
\* also use itself.
ThreadObjects == INSTANCE NSThreads WITH
    Threads <- {"t1", "t2"}, Workers <- {"w1", "w2"}, Targets <- {"x1", "x2"},
    Main <- "main", nil <- "nil", NoObject <- "none"

\* Three views, in any order and any depth; the guest may keep the layer of a view
\* that is gone.
Hierarchy == INSTANCE Views WITH
    Views <- {"v1", "v2", "v3"}, Layers <- {"l1", "l2", "l3"}, Plain <- FALSE,
    MaxHeld <- 1, nil <- "nil"

\* Two views and three layers, of which those that back no view are layers that the
\* guest may put into those of the views and into one another.
Layered == INSTANCE Views WITH
    Views <- {"v1", "v2"}, Layers <- {"l1", "l2", "l3"}, Plain <- TRUE,
    MaxHeld <- 1, nil <- "nil", objc <- vl_objc, held <- vl_held

rt == <<rc, weak_refs, slot, managed, pool_stacks, pool_objects, kvc, assoc,
    frames, owned>>
wr == <<wr_rc, wr_weak_refs, wr_slot, wr_managed, wr_pool_stacks, wr_pool_objects,
    wr_kvc, wr_assoc, wr_frames, wr_owned>>
wl == <<wl_rc, wl_weak_refs, wl_slot, wl_managed, wl_pool_stacks, wl_pool_objects,
    wl_kvc, wl_assoc, wl_frames, wl_owned>>
ic == <<initialized_classes, DISPATCH_DEPTH, stack, calls>>
rl == <<rl_initialized_classes, rl_DISPATCH_DEPTH, rl_stack, rl_calls>>
nc == <<observers, added, retained, nc_owned, posts, gone>>
ko == <<value, KVO_OBSERVERS, PENDING_KVO_OLD_VALUES, changes>>
oa == <<oa_value, oa_KVO_OBSERVERS, oa_PENDING_KVO_OLD_VALUES, oa_changes>>
nt == <<ns_threads, refs, target_refs, host, worker, main_threads, guest,
    guestTargets, started, wasted>>
vh == <<objc, held>>
vl == <<vl_objc, vl_held>>

ASSUME BoundsAssumption ==
    /\ WeakRefs!RefsAssumption
    /\ Recursing!DispatchAssumption
    /\ ThreadObjects!MainAssumption
    /\ Observing!KvoAssumption /\ ObservingAlone!KvoAssumption

vars == <<app, rt, wr, wl, ic, rl, nc, ko, oa, nt, vh, vl>>

Init ==
    /\ app \in {"references", "weak references", "weak loads", "initialize",
                 "recursion limit", "notifications", "observing",
                 "observing alone", "NSThread", "views", "views and layers"}
    /\ RefsOfTwo!Init
    /\ WeakRefs!Init
    /\ WeakLoads!Init
    /\ Initializing!Init
    /\ Recursing!Init
    /\ Centre!Init
    /\ Observing!Init
    /\ ObservingAlone!Init
    /\ ThreadObjects!Init
    /\ Hierarchy!Init
    /\ Layered!Init

Next ==
    /\ UNCHANGED app
    /\ \/ app = "references" /\ RefsOfTwo!Next /\ UNCHANGED <<wr, wl, ic, rl, nc, ko, oa, nt, vh, vl>>
       \/ app = "weak references" /\ WeakRefs!Next /\ UNCHANGED <<rt, wl, ic, rl, nc, ko, oa, nt, vh, vl>>
       \/ app = "weak loads" /\ WeakLoads!Next /\ UNCHANGED <<rt, wr, ic, rl, nc, ko, oa, nt, vh, vl>>
       \/ app = "initialize" /\ Initializing!Next /\ UNCHANGED <<rt, wr, wl, rl, nc, ko, oa, nt, vh, vl>>
       \/ app = "recursion limit" /\ Recursing!Next /\ UNCHANGED <<rt, wr, wl, ic, nc, ko, oa, nt, vh, vl>>
       \/ app = "notifications" /\ Centre!Next /\ UNCHANGED <<rt, wr, wl, ic, rl, ko, oa, nt, vh, vl>>
       \/ app = "observing" /\ Observing!Next /\ UNCHANGED <<rt, wr, wl, ic, rl, nc, oa, nt, vh, vl>>
       \/ app = "observing alone" /\ ObservingAlone!Next /\ UNCHANGED <<rt, wr, wl, ic, rl, nc, ko, nt, vh, vl>>
       \/ app = "NSThread" /\ ThreadObjects!Next /\ UNCHANGED <<rt, wr, wl, ic, rl, nc, ko, oa, vh, vl>>
       \/ app = "views" /\ Hierarchy!Next /\ UNCHANGED <<rt, wr, wl, ic, rl, nc, ko, oa, nt, vl>>
       \/ app = "views and layers" /\ Layered!Next /\ UNCHANGED <<rt, wr, wl, ic, rl, nc, ko, oa, nt, vh>>

Spec == Init /\ [][Next]_vars

\* The count of an object is at least the references that its owners, pools,
\* associations and KVC values hold, so it is not deallocated under one of them.
HoldersCounted == app = "references" => RefsOfTwo!HoldersCounted

\* An object is sent dealloc once, whatever its dealloc and the other thread do with
\* it meanwhile.
DeallocOnce == app = "references" => RefsOfTwo!DeallocOnce

\* A variable is listed under an object exactly once if it is a weak variable that
\* refers to it, and not at all otherwise: the ones zeroed when the object goes are
\* those that would dangle.
WeakTableExact == app = "weak references" => WeakRefs!WeakTableExact

\* A pool is on one stack at most, once, and alive there; one that is alive and on
\* none is waiting in a drain.
PoolsStacked == app = "weak references" => WeakRefs!PoolsStacked

\* What is loaded from a weak variable is held like any other reference.
LoadsCounted == app = "weak loads" => WeakLoads!HoldersCounted

\* +initialize is sent to a class at most once, whichever threads message it first.
OncePerClass == app = "initialize" => Initializing!OncePerClass

\* +initialize has been sent to a class when a method of it runs.
SentBeforeMessage == app = "initialize" => Initializing!SentBeforeMessage

\* No class has been sent +initialize while a superclass that has one was not.
SuperclassesFirst == app = "initialize" => Initializing!SuperclassesFirst

\* The depth is the number of methods that run, on all threads, also after messages
\* were refused.
DepthCounted == app = "recursion limit" => Recursing!DepthCounted

\* Each object is retained as many times as registrations name it.
ObjectsRetained == app = "notifications" => Centre!ObjectsRetained

\* An observer that removed itself from everything has no registration left.
RemovedIsGone == app = "notifications" => Centre!RemovedIsGone

\* A post calls no registration twice, also one under no name.
NoneTwice == app = "notifications" => Centre!NoneTwice

\* There are no more old values kept than changes under way.
KeptForOpen == app = "observing" => Observing!KeptForOpen

\* An observer is told the value that the change it is told of began with.
OldIsOwn == app = "observing alone" => ObservingAlone!OldIsOwn

\* The object, the target and the argument of a thread are alive while its helper
\* may use them.
AliveWhileRunning == app = "NSThread" => ThreadObjects!AliveWhileRunning

\* The map of current threads leads from a pthread to an object of that pthread.
CurrentIsOwn == app = "NSThread" => ThreadObjects!CurrentIsOwn

\* The references to threads and targets are those of the guest, of the threads that
\* have yet to run and of the helpers that do: none is lost or given up twice.
ReferencesBalanced == app = "NSThread" => ThreadObjects!ReferencesBalanced

\* The links between views, and between layers, go both ways, once each, and lead to
\* what exists.
ViewTreesSound == app = "views" => Hierarchy!TreesSound

\* Views and layers are retained by the guest, by the view a layer backs and by what
\* they are part of, once each.
ViewCountsExact == app = "views" => Hierarchy!CountsExact

\* The sublayers of the layer of a view are the layers of its subviews, in their
\* order.
LayersFollow == app = "views" => Hierarchy!LayersFollow

\* The same links, with layers of the guest between those of views.
LayerTreesSound == app = "views and layers" => Layered!TreesSound

\* The same counts, with layers of the guest between those of views.
LayerCountsExact == app = "views and layers" => Layered!CountsExact

\* The layers of subviews are among the sublayers, with layers of the guest between
\* them.
LayersAmong == app = "views and layers" => Layered!LayersFollow


\* The tables beside the objects, of weak variables and of pools, name what is there
\* and nothing else.
WeakAndPools ==
    /\ app = "weak references" => WeakRefs!TypeOK
    /\ app = "weak loads" => WeakLoads!TypeOK
    /\ WeakTableExact
    /\ PoolsStacked
    /\ LoadsCounted

\* +initialize comes once, first, and superclasses before subclasses, and the depth
\* of messages is counted on all ways out.
Dispatched ==
    /\ app = "initialize" => Initializing!TypeOK
    /\ app = "recursion limit" => Recursing!TypeOK
    /\ OncePerClass
    /\ SentBeforeMessage
    /\ SuperclassesFirst
    /\ DepthCounted

\* Registrations with the notification centre retain, end and are called as they
\* should, with posts within posts; old values are kept for the changes under way
\* and told with the change they belong to.
ObservationSound ==
    /\ app = "notifications" => Centre!TypeOK
    /\ app = "observing" => Observing!TypeOK
    /\ app = "observing alone" => ObservingAlone!TypeOK
    /\ ObjectsRetained
    /\ RemovedIsGone
    /\ NoneTwice
    /\ KeptForOpen
    /\ OldIsOwn

\* NSThread objects, with their targets, live as long as their threads need them,
\* and no longer.
ThreadObjectsSound ==
    /\ app = "NSThread" => ThreadObjects!TypeOK
    /\ AliveWhileRunning
    /\ CurrentIsOwn
    /\ ReferencesBalanced

\* The tree of views and that of layers agree with each other and with the reference
\* counts, whatever is inserted, moved, exchanged, replaced, removed and
\* deallocated.
ViewsSound ==
    /\ app = "views" => Hierarchy!TypeOK
    /\ app = "views and layers" => Layered!TypeOK
    /\ ViewTreesSound
    /\ ViewCountsExact
    /\ LayersFollow
    /\ LayerTreesSound
    /\ LayerCountsExact
    /\ LayersAmong
=============================================================================
