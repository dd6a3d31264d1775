------------------------------ MODULE ObjcRefs ------------------------------
(***************************************************************************)
(* Reference counts of Objective-C objects (src/src/objc/objects.rs), the  *)
(* zeroing weak references of ARC (src/src/objc/weak.rs), autorelease      *)
(* pools (ns_autorelease_pool.rs), values stored through KVC (ns_object.rs)*)
(* and associated objects (src/src/objc.rs).                               *)
(*                                                                         *)
(* The guest owns references (history variable owned) and is careful: it   *)
(* releases what it owns and uses an object it owns or is deallocating.    *)
(* Releasing the last reference sends dealloc, which runs guest code: the  *)
(* rest of every host function that was on its way is a frame, and any     *)
(* thread may run between two steps.                                       *)
(***************************************************************************)
EXTENDS Integers, SequencesExt, FiniteSetsExt

CONSTANTS Objects,      \* addresses of objects, reused after dealloc
          Pools,        \* addresses of autorelease pools
          Slots,        \* guest memory that holds __weak variables
          Threads,
          MaxRefs,      \* bound on the reference count
          MaxFrames,    \* bound on nested host calls
          LoadDying,    \* may weak variables be read while dealloc runs?
          Nil

RefsAssumption ==
    /\ Nil \notin Objects \cup Pools
    /\ Objects \cap Pools = {}
    /\ MaxRefs \in Nat \ {0}
    /\ MaxFrames \in Nat \ {0}
    /\ LoadDying \in BOOLEAN

VARIABLES
    rc,           \* objects: Absent, None (refcount: None) or the count
    weak_refs,    \* ObjC.weak_refs, per object how often its list has each slot
    slot,         \* what a weak slot contains
    managed,      \* slots between objc_initWeak and objc_destroyWeak
    pool_stacks,  \* State.pool_stacks
    pool_objects, \* NSAutoreleasePoolHostObject.objects
    kvc,          \* DYNAMIC_KVC_STORAGE, one key per object
    assoc,        \* ObjC.associated_objects, one key per object
    frames,       \* per thread the unfinished host functions, innermost first
    owned         \* references the guest owns

weakVars == <<weak_refs, slot, managed>>
poolVars == <<pool_stacks, pool_objects>>
tabVars  == <<kvc, assoc>>
vars == <<rc, weakVars, poolVars, tabVars, frames, owned>>

NoSlots == [s \in Slots |-> 0]

Absent == -1
None   == 0
NoAssoc == [val |-> Nil, retained |-> FALSE]

Dealloc(o)     == [kind |-> "dealloc", obj |-> o, pools |-> <<>>, todo |-> <<>>]
KvcLoop(o, vs) == [kind |-> "kvc", obj |-> o, pools |-> <<>>, todo |-> vs]
Drain(ps, vs)  == [kind |-> "drain", obj |-> Nil, pools |-> ps, todo |-> vs]
GuestCode == [kind |-> "guest", obj |-> Nil, pools |-> <<>>, todo |-> <<>>]
SetAssoc(o, v) == [kind |-> "assoc", obj |-> o, pools |-> <<>>, todo |-> <<v>>]

\* What thread t is in the middle of.
Top(t) == IF frames[t] = <<>> THEN GuestCode ELSE Head(frames[t])

Init ==
    /\ rc = [x \in Objects \cup Pools |-> Absent]
    /\ weak_refs = [o \in Objects |-> NoSlots]
    /\ slot = [s \in Slots |-> Nil]
    /\ managed = [s \in Slots |-> FALSE]
    /\ pool_stacks = [t \in Threads |-> <<>>]
    /\ pool_objects = [p \in Pools |-> <<>>]
    /\ kvc = [o \in Objects |-> Nil]
    /\ assoc = [o \in Objects |-> NoAssoc]
    /\ frames = [t \in Threads |-> <<>>]
    /\ owned = [o \in Objects |-> 0]

(***************************************************************************)
(* What the guest may do: run on t, outside host functions or in a dealloc *)
(* method, and use the objects it owns or the one it deallocates.          *)
(***************************************************************************)
GuestRuns(t) == Top(t).kind \in {"guest", "dealloc"}

Usable(t, o) == owned[o] > 0 \/ Top(t) = Dealloc(o)

\* ObjC::increment_refcount: nothing happens to an object being deallocated.
increment_refcount(x) == IF rc[x] > None THEN [rc EXCEPT ![x] = @ + 1] ELSE rc


\* -[NSObject release] with ObjC::decrement_refcount: the last reference is
\* given up before dealloc is sent; rest is what t does afterwards.
SendRelease(t, x, rest) ==
    /\ rc' = IF rc[x] > None THEN [rc EXCEPT ![x] = @ - 1] ELSE rc
    /\ frames' = [frames EXCEPT ![t] = IF rc[x] = 1 THEN <<Dealloc(x)>> \o rest
                                                    ELSE rest]

alloc_object(t, o) ==
    /\ GuestRuns(t)
    /\ rc[o] = Absent
    /\ rc' = [rc EXCEPT ![o] = 1]
    /\ owned' = [owned EXCEPT ![o] = @ + 1]
    /\ UNCHANGED <<weakVars, poolVars, tabVars, frames>>

objc_retain(t, o) ==
    /\ GuestRuns(t) /\ owned[o] > 0 /\ rc[o] < MaxRefs
    /\ rc' = increment_refcount(o)
    /\ owned' = [owned EXCEPT ![o] = @ + 1]
    /\ UNCHANGED <<weakVars, poolVars, tabVars, frames>>

objc_release(t, o) ==
    /\ GuestRuns(t) /\ owned[o] > 0 /\ Len(frames[t]) < MaxFrames
    /\ owned' = [owned EXCEPT ![o] = @ - 1]
    /\ SendRelease(t, o, frames[t])
    /\ UNCHANGED <<weakVars, poolVars, tabVars>>

(***************************************************************************)
(* Autorelease pools                                                       *)
(***************************************************************************)
\* +[NSAutoreleasePool addObject:]: without a pool the reference leaks.
addObject(t, o) ==
    pool_objects' = IF pool_stacks[t] = <<>> THEN pool_objects
                    ELSE [pool_objects EXCEPT ![Last(pool_stacks[t])] = Append(@, o)]

objc_autorelease(t, o) ==
    /\ GuestRuns(t) /\ owned[o] > 0
    /\ owned' = [owned EXCEPT ![o] = @ - 1]
    /\ addObject(t, o)
    /\ UNCHANGED <<rc, weakVars, pool_stacks, tabVars, frames>>

\* Fault: the pool's reference is not counted.
objc_retainAutorelease_plain(t, o) ==
    /\ GuestRuns(t) /\ owned[o] > 0 /\ rc[o] < MaxRefs
    /\ addObject(t, o)
    /\ UNCHANGED <<rc, weakVars, pool_stacks, tabVars, frames, owned>>

objc_retainAutorelease(t, o) ==
    /\ GuestRuns(t) /\ owned[o] > 0 /\ rc[o] < MaxRefs
    /\ rc' = increment_refcount(o)
    /\ addObject(t, o)
    /\ UNCHANGED <<weakVars, pool_stacks, tabVars, frames, owned>>

\* alloc and init of a pool.
NewPool(t, p) ==
    /\ GuestRuns(t)
    /\ rc[p] = Absent
    /\ rc' = [rc EXCEPT ![p] = 1]
    /\ pool_stacks' = [pool_stacks EXCEPT ![t] = Append(@, p)]
    /\ UNCHANGED <<weakVars, pool_objects, tabVars, frames, owned>>

\* Fault: the pools above the drained one are dropped but stay on the stack.
drain_uncut(t, p) ==
    /\ GuestRuns(t) /\ Len(frames[t]) < MaxFrames
    /\ \E u \in Threads :
          /\ Contains(pool_stacks[u], p)
          /\ LET st == pool_stacks[u]
                 i  == CHOOSE k \in DOMAIN st : st[k] = p
             IN  /\ pool_stacks' = [pool_stacks EXCEPT ![u] = SelectSeq(st, LAMBDA q : q # p)]
                 /\ frames' = [frames EXCEPT ![t] =
                      <<Drain(Reverse(SubSeq(st, i, Len(st))), <<>>)>> \o @]
          /\ rc' = [rc EXCEPT ![p] = None]
    /\ UNCHANGED <<weakVars, pool_objects, tabVars, owned>>

\* -[NSAutoreleasePool drain] and dealloc, on the stack of the thread u that
\* created the pool: everything from the pool upwards is cut off the stack at
\* once and then dropped from the top down. (The branches for a pool that is on
\* no stack are for guests that drain a pool twice.)
drain(t, p) ==
    /\ GuestRuns(t) /\ Len(frames[t]) < MaxFrames
    /\ \E u \in Threads :
          /\ Contains(pool_stacks[u], p)
          /\ LET st == pool_stacks[u]
                 i  == CHOOSE k \in DOMAIN st : st[k] = p
             IN  /\ pool_stacks' = [pool_stacks EXCEPT ![u] = SubSeq(st, 1, i - 1)]
                 /\ frames' = [frames EXCEPT ![t] =
                      <<Drain(Reverse(SubSeq(st, i, Len(st))), <<>>)>> \o @]
          /\ rc' = [rc EXCEPT ![p] = None]
    /\ UNCHANGED <<weakVars, pool_objects, tabVars, owned>>

DrainStep(t) ==
    /\ Top(t).kind = "drain"
    /\ LET f == Top(t) rest == Tail(frames[t]) IN
       \/ /\ f.todo # <<>>
          /\ SendRelease(t, Head(f.todo), <<Drain(f.pools, Tail(f.todo))>> \o rest)
          /\ UNCHANGED pool_objects
       \/ /\ f.todo = <<>> /\ f.pools # <<>>
          /\ LET p == Head(f.pools) IN
             /\ frames' = [frames EXCEPT ![t] =
                             <<Drain(Tail(f.pools), pool_objects[p])>> \o rest]
             /\ pool_objects' = [pool_objects EXCEPT ![p] = <<>>]
             /\ rc' = [rc EXCEPT ![p] = Absent]
       \/ /\ f.todo = <<>> /\ f.pools = <<>>
          /\ frames' = [frames EXCEPT ![t] = rest]
          /\ UNCHANGED <<rc, pool_objects>>
    /\ UNCHANGED <<weakVars, pool_stacks, tabVars, owned>>

(***************************************************************************)
(* dealloc                                                                 *)
(***************************************************************************)
\* The guest's dealloc method calls super: the KVC values are taken out first.
NSObject_dealloc(t) ==
    /\ Top(t).kind = "dealloc"
    /\ LET o == Top(t).obj IN
       /\ kvc' = [kvc EXCEPT ![o] = Nil]
       /\ frames' = [frames EXCEPT ![t] =
            <<KvcLoop(o, IF kvc[o] = Nil THEN <<>> ELSE <<kvc[o]>>)>> \o Tail(@)]
    /\ UNCHANGED <<rc, weakVars, poolVars, assoc, owned>>

KvcStep(t) ==
    /\ Top(t).kind = "kvc"
    /\ Top(t).todo # <<>>
    /\ LET f == Top(t) IN
       SendRelease(t, Head(f.todo), <<KvcLoop(f.obj, Tail(f.todo))>> \o Tail(frames[t]))
    /\ UNCHANGED <<weakVars, poolVars, tabVars, owned>>

zero_weak_references_for(o) ==
    /\ slot' = [s \in Slots |-> IF weak_refs[o][s] > 0 /\ slot[s] = o
                                THEN Nil ELSE slot[s]]
    /\ weak_refs' = [weak_refs EXCEPT ![o] = NoSlots]
    /\ UNCHANGED managed

dealloc_object(t) ==
    /\ Top(t).kind = "kvc"
    /\ Top(t).todo = <<>>
    /\ LET o == Top(t).obj IN
       /\ zero_weak_references_for(o)
       /\ rc' = [rc EXCEPT ![o] = Absent]
    /\ frames' = [frames EXCEPT ![t] = Tail(@)]
    /\ UNCHANGED <<poolVars, tabVars, owned>>

(***************************************************************************)
(* Weak references                                                         *)
(***************************************************************************)
register_weak(wr, o, s) ==
    IF o = Nil THEN wr ELSE [wr EXCEPT ![o][s] = @ + 1]

unregister_weak(wr, o, s) ==
    IF o = Nil THEN wr ELSE [wr EXCEPT ![o][s] = 0]

objc_initWeak(t, s, o) ==
    /\ GuestRuns(t) /\ ~managed[s]
    /\ IF o = Nil THEN TRUE ELSE Usable(t, o)
    /\ slot' = [slot EXCEPT ![s] = o]
    /\ weak_refs' = register_weak(weak_refs, o, s)
    /\ managed' = [managed EXCEPT ![s] = TRUE]
    /\ UNCHANGED <<rc, poolVars, tabVars, frames, owned>>

\* Fault: the registration with the previous object stays.
objc_storeWeak_keep(t, s, o) ==
    /\ GuestRuns(t) /\ managed[s]
    /\ IF o = Nil THEN TRUE ELSE Usable(t, o)
    /\ slot' = [slot EXCEPT ![s] = o]
    /\ weak_refs' = register_weak(weak_refs, o, s)
    /\ UNCHANGED <<managed, rc, poolVars, tabVars, frames, owned>>

objc_storeWeak(t, s, o) ==
    /\ GuestRuns(t) /\ managed[s]
    /\ IF o = Nil THEN TRUE ELSE Usable(t, o)
    /\ slot' = [slot EXCEPT ![s] = o]
    /\ weak_refs' = register_weak(unregister_weak(weak_refs, slot[s], s), o, s)
    /\ UNCHANGED <<managed, rc, poolVars, tabVars, frames, owned>>

objc_destroyWeak(t, s) ==
    /\ GuestRuns(t) /\ managed[s]
    /\ weak_refs' = unregister_weak(weak_refs, slot[s], s)
    /\ slot' = [slot EXCEPT ![s] = Nil]
    /\ managed' = [managed EXCEPT ![s] = FALSE]
    /\ UNCHANGED <<rc, poolVars, tabVars, frames, owned>>

objc_copyWeak(t, to, from) ==
    /\ GuestRuns(t) /\ managed[from] /\ ~managed[to]
    /\ slot' = [slot EXCEPT ![to] = slot[from]]
    /\ weak_refs' = register_weak(weak_refs, slot[from], to)
    /\ managed' = [managed EXCEPT ![to] = TRUE]
    /\ UNCHANGED <<rc, poolVars, tabVars, frames, owned>>

objc_moveWeak(t, to, from) ==
    /\ GuestRuns(t) /\ managed[from] /\ ~managed[to]
    /\ weak_refs' = register_weak(unregister_weak(weak_refs, slot[from], from),
                                  slot[from], to)
    /\ slot' = [slot EXCEPT ![to] = slot[from], ![from] = Nil]
    /\ managed' = [managed EXCEPT ![to] = TRUE, ![from] = FALSE]
    /\ UNCHANGED <<rc, poolVars, tabVars, frames, owned>>

\* With LoadDying the guest reads the slot whatever becomes of its object.
WeakReadable(t, s) ==
    /\ GuestRuns(t) /\ managed[s] /\ slot[s] # Nil
    /\ rc[slot[s]] < MaxRefs
    /\ LoadDying \/ rc[slot[s]] # None

objc_loadWeakRetained(t, s) ==
    /\ WeakReadable(t, s)
    /\ rc' = increment_refcount(slot[s])
    /\ owned' = [owned EXCEPT ![slot[s]] = @ + 1]
    /\ UNCHANGED <<weakVars, poolVars, tabVars, frames>>

objc_loadWeak(t, s) ==
    /\ WeakReadable(t, s)
    /\ rc' = increment_refcount(slot[s])
    /\ addObject(t, slot[s])
    /\ UNCHANGED <<weakVars, pool_stacks, tabVars, frames, owned>>

(***************************************************************************)
(* Values an object keeps alive                                            *)
(***************************************************************************)
\* -[NSObject setValue:forUndefinedKey:]: the new value is retained, the two
\* are swapped, the old one is released.
setValue_forUndefinedKey(t, o, v) ==
    /\ GuestRuns(t) /\ Len(frames[t]) < MaxFrames
    /\ Usable(t, o)
    /\ IF v = Nil THEN TRUE ELSE owned[v] > 0 /\ rc[v] < MaxRefs
    /\ kvc' = [kvc EXCEPT ![o] = v]
    /\ LET old == kvc[o]
           rc1 == IF v = Nil THEN rc ELSE increment_refcount(v)
           last == old # Nil /\ rc1[old] = 1
       IN  /\ rc' = IF old # Nil /\ rc1[old] > None
                    THEN [rc1 EXCEPT ![old] = @ - 1] ELSE rc1
           /\ frames' = IF last THEN [frames EXCEPT ![t] = <<Dealloc(old)>> \o @]
                                ELSE frames
    /\ UNCHANGED <<weakVars, poolVars, assoc, owned>>

\* objc_setAssociatedObject up to and including the release of the old value;
\* the rest is SetAssociation. With v = Nil it is also
\* objc_removeAssociatedObjects. The guest keeps v while it is inside.
objc_setAssociatedObject(t, o, v) ==
    /\ GuestRuns(t) /\ Len(frames[t]) + 1 < MaxFrames
    /\ owned[o] > 0
    /\ IF v = Nil THEN TRUE ELSE owned[v] > 0
    /\ assoc' = [assoc EXCEPT ![o] = NoAssoc]
    /\ owned' = IF v = Nil THEN owned ELSE [owned EXCEPT ![v] = @ - 1]
    /\ LET rest == IF v = Nil THEN frames[t] ELSE <<SetAssoc(o, v)>> \o frames[t] IN
       IF assoc[o].retained THEN SendRelease(t, assoc[o].val, rest)
       ELSE frames' = [frames EXCEPT ![t] = rest] /\ UNCHANGED rc
    /\ UNCHANGED <<weakVars, poolVars, kvc>>

\* The rest: the new value is retained (RETAIN and COPY) or not (ASSIGN) and
\* inserted, whatever the table contains by now.
SetAssociation(t) ==
    /\ Top(t).kind = "assoc"
    /\ LET o == Top(t).obj  v == Top(t).todo[1] IN
       /\ owned' = [owned EXCEPT ![v] = @ + 1]
       /\ \/ /\ rc[v] < MaxRefs
             /\ rc' = increment_refcount(v)
             /\ assoc' = [assoc EXCEPT ![o] = [val |-> v, retained |-> TRUE]]
          \/ /\ UNCHANGED rc
             /\ assoc' = [assoc EXCEPT ![o] = [val |-> v, retained |-> FALSE]]
    /\ frames' = [frames EXCEPT ![t] = Tail(@)]
    /\ UNCHANGED <<weakVars, poolVars, kvc>>

ObjectCall(t, o) ==
    \/ alloc_object(t, o) \/ objc_retain(t, o) \/ objc_release(t, o)
    \/ objc_autorelease(t, o) \/ objc_retainAutorelease(t, o)
    \/ \E v \in Objects \cup {Nil} :
          \/ setValue_forUndefinedKey(t, o, v)
          \/ objc_setAssociatedObject(t, o, v)

WeakCall(t, s) ==
    \/ \E o \in Objects \cup {Nil} : objc_initWeak(t, s, o) \/ objc_storeWeak(t, s, o)
    \/ objc_destroyWeak(t, s) \/ objc_loadWeakRetained(t, s) \/ objc_loadWeak(t, s)
    \/ \E from \in Slots : objc_copyWeak(t, s, from) \/ objc_moveWeak(t, s, from)

PoolCall(t, p) == NewPool(t, p) \/ drain(t, p)

HostStep(t) ==
    \/ DrainStep(t) \/ NSObject_dealloc(t) \/ KvcStep(t) \/ dealloc_object(t)
    \/ SetAssociation(t)

Next == \E t \in Threads :
    \/ \E o \in Objects : ObjectCall(t, o)
    \/ \E s \in Slots : WeakCall(t, s)
    \/ \E p \in Pools : PoolCall(t, p)
    \/ HostStep(t)

Spec == Init /\ [][Next]_vars

(***************************************************************************)
(* Properties                                                              *)
(***************************************************************************)
TypeOK ==
    /\ rc \in [Objects \cup Pools -> Absent .. MaxRefs]
    /\ weak_refs \in [Objects -> [Slots -> Nat]]
    /\ slot \in [Slots -> Objects \cup {Nil}]
    /\ managed \in [Slots -> BOOLEAN]
    /\ pool_stacks \in [Threads -> Seq(Pools)]
    /\ pool_objects \in [Pools -> Seq(Objects)]
    /\ kvc \in [Objects -> Objects \cup {Nil}]
    /\ assoc \in [Objects -> [val : Objects \cup {Nil}, retained : BOOLEAN]]
    /\ owned \in [Objects -> Nat]

\* The members of the sets P[k], told apart by k: its cardinality is a sum.
Tagged(P) == UNION {{k} \X P[k] : k \in DOMAIN P}

Places(seq, x) == {i \in DOMAIN seq : seq[i] = x}

\* Where the frames fs have x still to release, a pool p still to drop, and a call
\* of dealloc for o.
Todo(fs, x)  == Tagged([i \in DOMAIN fs |-> Places(fs[i].todo, x)])
Drops(fs, p) == Tagged([i \in DOMAIN fs |-> Places(fs[i].pools, p)])
Dying(fs, o) == {i \in DOMAIN fs : fs[i].kind \in {"dealloc", "kvc"} /\ fs[i].obj = o}

\* References to o that something will release later.
InPools(o)  == Cardinality(Tagged([p \in Pools |-> Places(pool_objects[p], o)]))
InFrames(o) == Cardinality(Tagged([t \in Threads |-> Todo(frames[t], o)]))
InTables(o) == Cardinality({x \in Objects : kvc[x] = o})
             + Cardinality({x \in Objects : assoc[x].val = o /\ assoc[x].retained})

\* The calls of dealloc for o, and the places of p on the stacks and in drains.
Deallocs(o) == Cardinality(Tagged([t \in Threads |-> Dying(frames[t], o)]))
Stacked(p)  == Cardinality(Tagged([t \in Threads |-> Places(pool_stacks[t], p)]))
Dropped(p)  == Cardinality(Tagged([t \in Threads |-> Drops(frames[t], p)]))

\* Every reference that the guest, a pool, a half-done drain or dealloc, a KVC
\* value or an association still holds is covered by the reference count, so
\* no object is deallocated under its holder, however dealloc methods, drains
\* and threads interleave.
HoldersCounted == \A o \in Objects :
    LET n == owned[o] + InPools(o) + InFrames(o) + InTables(o)
    IN  n > 0 => rc[o] >= n

\* The side table of weak references agrees with guest memory: a slot is listed
\* under an object exactly once if it is a weak variable that refers to it and
\* not at all otherwise, and no object is listed after it is gone. This is what
\* lets dealloc_object zero every slot and no reused memory.
WeakTableExact == \A o \in Objects, s \in Slots :
    /\ weak_refs[o][s] = IF managed[s] /\ slot[s] = o THEN 1 ELSE 0
    /\ weak_refs[o][s] > 0 => rc[o] # Absent

\* An object whose count is gone is being deallocated by exactly one call of
\* one thread, and every such call has an object: dealloc is sent once.
DeallocOnce == \A o \in Objects : Deallocs(o) = IF rc[o] = None THEN 1 ELSE 0

\* A pool on a stack is alive, on one stack, once; a pool that is alive and on
\* no stack is waiting in a drain.
PoolsStacked == \A p \in Pools :
    /\ Stacked(p) = 1 => rc[p] = 1
    /\ Stacked(p) <= 1
    /\ rc[p] # Absent /\ Stacked(p) = 0 => Dropped(p) > 0

\* What src/src/objc/weak.rs says: objc_loadWeakRetained returns the object
\* "retained (or `nil` if the referent has already been deallocated)". So a
\* reference obtained from it is to an object that is there.
LoadedRefsLive == \A o \in Objects : owned[o] > 0 => rc[o] # Absent
=============================================================================
