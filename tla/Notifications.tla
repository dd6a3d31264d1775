---------------------------- MODULE Notifications ----------------------------
(***************************************************************************)
(* NSNotificationCenter                                                    *)
(* (src/src/frameworks/foundation/ns_notification_center.rs): observers by *)
(* name, an observer of any name under the empty one; a post takes a copy  *)
(* of the observers and calls them in turn, guest code that may add,       *)
(* remove, release and post in its turn.                                   *)
(***************************************************************************)
EXTENDS Naturals, SequencesExt, FiniteSetsExt, TLC

CONSTANTS Observers, Objects, Names,
          MaxAdded,     \* bound: registrations made
          MaxDepth      \* bound: posts within posts

VARIABLES observers,    \* name -> sequence of registrations
          added,        \* number of registrations made
          retained,     \* object -> retains made for registrations
          owned,        \* observers the guest holds a reference to
          posts,        \* the posts in progress, innermost last
          gone          \* history: removed for all names and not added since
vars == <<observers, added, retained, owned, posts, gone>>

AnyName == ""       \* the key of observers of every name
nil == "nil"
Registration(k, o, obj) == [k |-> k, observer |-> o, object |-> obj]
Registered(o) == \E n \in DOMAIN observers : \E r \in ToSet(observers[n]) : r.observer = o

\* A post: what of the copy is still to be called, and the observer now called, that
\* is retained for the call (one that is a freed object by then included).
Post(rest, obj) == [rest |-> rest, object |-> obj, current |-> nil]

Init ==
    /\ observers = [n \in Names \cup {AnyName} |-> <<>>]
    /\ added = 0
    /\ retained = [obj \in Objects |-> 0]
    /\ owned = Observers
    /\ posts = <<>>
    /\ gone = {}

(***************************************************************************)
(* Registering                                                             *)
(***************************************************************************)
addObserver(o, n, obj) ==
    /\ o \in owned /\ added < MaxAdded
    /\ added' = added + 1
    /\ observers' = [observers EXCEPT ![n] = Append(@, Registration(added + 1, o, obj))]
    /\ retained' = [p \in Objects |-> retained[p] + (IF p = obj THEN 1 ELSE 0)]
    /\ gone' = gone \ {o}
    /\ UNCHANGED <<owned, posts>>

\* Fault: the first entry goes instead of the last.
swap_remove_first(s, i) == Tail([s EXCEPT ![i] = Last(s)])

\* Vec::swap_remove: the last entry takes the place of entry i.
swap_remove(s, i) == Front([s EXCEPT ![i] = Last(s)])

Matches(r, o, obj) == r.observer = o /\ obj \in {nil, r.object}

\* Fault: the entry that took the place is passed over.
RECURSIVE remove_observers_skip(_, _, _, _)
remove_observers_skip(s, i, o, obj) ==
    IF i > Len(s) THEN s
    ELSE IF Matches(s[i], o, obj) THEN remove_observers_skip(swap_remove(s, i), i + 1, o, obj)
    ELSE remove_observers_skip(s, i + 1, o, obj)

\* The list s without the registrations of o (for obj), from entry i on.
RECURSIVE remove_observers_internal(_, _, _, _)
remove_observers_internal(s, i, o, obj) ==
    IF i > Len(s) THEN s
    ELSE IF Matches(s[i], o, obj) THEN remove_observers_internal(swap_remove(s, i), i, o, obj)
    ELSE remove_observers_internal(s, i + 1, o, obj)

\* Fault: what is released is the object that was asked for.
Released_asked(ns, o, obj, p) ==
    Cardinality({r \in UNION {ToSet(observers[n]) : n \in ns} : Matches(r, o, obj) /\ obj = p})

\* The retains of p that go with the registrations of o (for obj) under the names ns.
Released(ns, o, obj, p) ==
    Cardinality({r \in UNION {ToSet(observers[n]) : n \in ns} :
                    Matches(r, o, obj) /\ r.object = p})

\* For one name, or for all of them.
removeObserver(o, ns, obj) ==
    /\ o \in owned
    /\ observers' = [n \in DOMAIN observers |->
          IF n \in ns THEN remove_observers_internal(observers[n], 1, o, obj)
          ELSE observers[n]]
    /\ retained' = [p \in Objects |-> retained[p] - Released(ns, o, obj, p)]
    /\ gone' = IF ns = DOMAIN observers /\ obj = nil THEN gone \cup {o} ELSE gone
    /\ UNCHANGED <<added, owned, posts>>

\* External: guest code drops its reference to an observer that it has removed.
ReleaseObserver(o) ==
    /\ o \in owned /\ ~Registered(o)
    /\ owned' = owned \ {o}
    /\ UNCHANGED <<observers, added, retained, posts, gone>>

(***************************************************************************)
(* Posting                                                                 *)
(***************************************************************************)
\* Fault: the observers of every name are always added.
Matching_twice(n) == observers[n] \o observers[AnyName]

\* The copy: the observers of the name, then those of every name.
Matching(n) == observers[n] \o (IF n = AnyName THEN <<>> ELSE observers[AnyName])

postNotification(n, obj) ==
    /\ Len(posts) < MaxDepth
    /\ Matching(n) # <<>>
    /\ posts' = Append(posts, Post(Matching(n), obj))
    /\ UNCHANGED <<observers, added, retained, owned, gone>>

\* The next of the copy: passed over if it observes another object.
Deliver ==
    /\ posts # <<>> /\ Last(posts).current = nil /\ Last(posts).rest # <<>>
    /\ LET p == Last(posts)
           r == Head(p.rest)
       IN  posts' = IF r.object \notin {nil, p.object}
                    THEN [posts EXCEPT ![Len(posts)].rest = Tail(p.rest)]
                    ELSE [posts EXCEPT ![Len(posts)] =
                            [p EXCEPT !.rest = Tail(p.rest), !.current = r.observer]]
    /\ UNCHANGED <<observers, added, retained, owned, gone>>

\* The observer's method returns and it is released.
Delivered ==
    /\ posts # <<>> /\ Last(posts).current # nil
    /\ posts' = [posts EXCEPT ![Len(posts)].current = nil]
    /\ UNCHANGED <<observers, added, retained, owned, gone>>

PostReturns ==
    /\ posts # <<>> /\ Last(posts).current = nil /\ Last(posts).rest = <<>>
    /\ posts' = Front(posts)
    /\ UNCHANGED <<observers, added, retained, owned, gone>>

\* Guest code runs outside of posts and in the observers they call.
GuestRuns == posts # <<>> => Last(posts).current # nil

Next ==
    \/ /\ GuestRuns
       /\ \E o \in Observers, obj \in Objects \cup {nil} :
             \/ \E n \in DOMAIN observers : addObserver(o, n, obj)
             \/ \E ns \in {DOMAIN observers} \cup {{n} : n \in Names} :
                   removeObserver(o, ns, obj)
    \/ GuestRuns /\ \E o \in Observers : ReleaseObserver(o)
    \/ /\ GuestRuns
       /\ \E n \in DOMAIN observers, obj \in Objects \cup {nil} : postNotification(n, obj)
    \/ Deliver \/ Delivered \/ PostReturns

Spec == Init /\ [][Next]_vars

(***************************************************************************)
(* Properties                                                              *)
(***************************************************************************)
TypeOK ==
    /\ \A n \in DOMAIN observers : \A r \in ToSet(observers[n]) :
          r \in [k: 1..added, observer: owned, object: Objects \cup {nil}]
    /\ \A n \in DOMAIN observers : IsInjective(observers[n])
    /\ \A i \in DOMAIN posts : posts[i].current \in Observers \cup {nil}
    /\ owned \subseteq Observers /\ gone \subseteq Observers

\* An object is retained once for every registration that names it, however they were
\* made and removed (retain in addObserver, release of what was removed).
ObjectsRetained ==
    \A p \in Objects : retained[p] =
       Cardinality({r \in UNION {ToSet(observers[n]) : n \in DOMAIN observers} : r.object = p})

\* An observer that was removed for all names is registered nowhere, also if it had
\* been several times (the loop over swap_remove).
RemovedIsGone == \A o \in gone : ~Registered(o)

\* A post calls no registration twice (the merge of the two lists).
NoneTwice ==
    \A i \in DOMAIN posts : \A j, k \in DOMAIN posts[i].rest :
       j # k => posts[i].rest[j] # posts[i].rest[k]

=============================================================================
