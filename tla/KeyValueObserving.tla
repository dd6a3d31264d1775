-------------------------- MODULE KeyValueObserving --------------------------
(***************************************************************************)
(* Key-value observing (src/src/frameworks/foundation/ns_object.rs): one   *)
(* list of observers and one of old values for all objects and threads. A  *)
(* change is announced with willChangeValueForKey:, which keeps the old    *)
(* value if an observer wants it, and reported with didChangeValueForKey:, *)
(* which takes the last one kept for the key and calls the observers.      *)
(***************************************************************************)
EXTENDS Naturals, FiniteSets, SequencesExt, TLC

CONSTANTS Threads, Observers,
          MaxValue,     \* bound: assignments to the one key of the one object
          MaxDepth,     \* bound: changes within changes on a thread
          RegisterInChange  \* whether observers come and go while a change is open

KvoAssumption ==
    IsFiniteSet(Threads) /\ MaxValue \in Nat \ {0} /\ MaxDepth \in Nat
        /\ RegisterInChange \in BOOLEAN

VARIABLES value,
          KVO_OBSERVERS,    \* sequence of [observer, old: wants old values]
          PENDING_KVO_OLD_VALUES,
          changes           \* thread -> its open changes, innermost last
vars == <<value, KVO_OBSERVERS, PENDING_KVO_OLD_VALUES, changes>>

\* No value was kept.
nil == 0

\* was: the value when the change was announced; old: what observers are told; rest:
\* the observers still to be called.
Change(at, was, old, rest) == [at |-> at, was |-> was, old |-> old, rest |-> rest]

Init ==
    /\ value = 1
    /\ KVO_OBSERVERS = <<>> /\ PENDING_KVO_OLD_VALUES = <<>>
    /\ changes = [t \in Threads |-> <<>>]

MayRegister == RegisterInChange \/ \A t \in Threads : changes[t] = <<>>

addObserver(o, old) ==
    /\ MayRegister /\ Len(KVO_OBSERVERS) < Cardinality(Observers)
    /\ KVO_OBSERVERS' = Append(KVO_OBSERVERS, [observer |-> o, old |-> old])
    /\ UNCHANGED <<value, PENDING_KVO_OLD_VALUES, changes>>

\* The list without the entries of o; kept[i] is what the first i leave.
Without(list, o) ==
    LET kept[i \in 0 .. Len(list)] ==
            IF i = 0 THEN <<>>
            ELSE IF list[i].observer = o THEN kept[i - 1] ELSE Append(kept[i - 1], list[i])
    IN  kept[Len(list)]

removeObserver(o) ==
    /\ MayRegister
    /\ KVO_OBSERVERS' = Without(KVO_OBSERVERS, o)
    /\ UNCHANGED <<value, PENDING_KVO_OLD_VALUES, changes>>

\* Guest code runs on t.
GuestRuns(t) ==
    changes[t] # <<>> => Last(changes[t]).at \in {"announced", "called"}

WantsOld == \E e \in ToSet(KVO_OBSERVERS) : e.old

KeepOld(p) == IF WantsOld THEN Append(p, value) ELSE p

\* The key is announced to change; the old value is kept if an observer wants it.
willChangeValueForKey(t) ==
    /\ GuestRuns(t) /\ Len(changes[t]) < MaxDepth
    /\ changes' = [changes EXCEPT ![t] = Append(@, Change("announced", value, nil, <<>>))]
    /\ PENDING_KVO_OLD_VALUES' = KeepOld(PENDING_KVO_OLD_VALUES)
    /\ UNCHANGED <<value, KVO_OBSERVERS>>

\* The guest assigns to the property, between the two calls.
Assign(t) ==
    /\ changes[t] # <<>> /\ Last(changes[t]).at = "announced" /\ value < MaxValue
    /\ value' = value + 1
    /\ UNCHANGED <<KVO_OBSERVERS, PENDING_KVO_OLD_VALUES, changes>>

\* Fault: an old value is taken only if there is someone to tell.
TakeOld_ifObserved(p) == IF KVO_OBSERVERS = <<>> \/ p = <<>> THEN p ELSE Front(p)

\* Fault: the first value kept is taken, not the last.
LastOld_first(p) == IF p = <<>> THEN nil ELSE Head(p)

\* rposition, remove.
LastOld(p) == IF p = <<>> THEN nil ELSE Last(p)
TakeOld(p) == IF p = <<>> THEN p ELSE Front(p)

didChangeValueForKey(t) ==
    /\ changes[t] # <<>> /\ Last(changes[t]).at = "announced"
    /\ PENDING_KVO_OLD_VALUES' = TakeOld(PENDING_KVO_OLD_VALUES)
    /\ changes' = [changes EXCEPT ![t][Len(changes[t])] =
         Change("reporting", @.was, LastOld(PENDING_KVO_OLD_VALUES), KVO_OBSERVERS)]
    /\ UNCHANGED <<value, KVO_OBSERVERS>>

\* deliver_kvo_notification: the next observer of the copy is called.
deliver_kvo_notification(t) ==
    /\ changes[t] # <<>> /\ Last(changes[t]).at = "reporting" /\ Last(changes[t]).rest # <<>>
    /\ changes' = [changes EXCEPT ![t][Len(changes[t])].at = "called"]
    /\ UNCHANGED <<value, KVO_OBSERVERS, PENDING_KVO_OLD_VALUES>>

ObserverReturns(t) ==
    /\ changes[t] # <<>> /\ Last(changes[t]).at = "called"
    /\ LET c == Last(changes[t])
       IN  changes' = [changes EXCEPT ![t][Len(changes[t])] =
                         Change("reporting", c.was, c.old, Tail(c.rest))]
    /\ UNCHANGED <<value, KVO_OBSERVERS, PENDING_KVO_OLD_VALUES>>

didReturns(t) ==
    /\ changes[t] # <<>> /\ Last(changes[t]).at = "reporting" /\ Last(changes[t]).rest = <<>>
    /\ changes' = [changes EXCEPT ![t] = Front(@)]
    /\ UNCHANGED <<value, KVO_OBSERVERS, PENDING_KVO_OLD_VALUES>>

Next ==
    \/ \E t \in Threads :
          \/ willChangeValueForKey(t) \/ Assign(t) \/ didChangeValueForKey(t)
          \/ deliver_kvo_notification(t) \/ ObserverReturns(t) \/ didReturns(t)
    \/ \E t \in Threads : GuestRuns(t) /\ \E o \in Observers :
          removeObserver(o) \/ \E old \in BOOLEAN : addObserver(o, old)

Spec == Init /\ [][Next]_vars

(***************************************************************************)
(* Properties                                                              *)
(***************************************************************************)
TypeOK ==
    /\ value \in 1..MaxValue
    /\ KVO_OBSERVERS \in Seq([observer: Observers, old: BOOLEAN])
    /\ PENDING_KVO_OLD_VALUES \in Seq(1..value)
    /\ \A t \in Threads : \A i \in DOMAIN changes[t] :
          /\ i < Len(changes[t]) => changes[t][i].at \in {"announced", "called"}
          /\ changes[t][i].was \in 1..value /\ changes[t][i].old \in nil..value

Open == {c \in Threads \X (1..MaxDepth) :
           c[2] \in DOMAIN changes[c[1]] /\ changes[c[1]][c[2]].at = "announced"}

\* An old value is kept only for a change that is open, on whatever thread and however
\* they nest; when none is, none is left (the pop in didChangeValueForKey:).
KeptForOpen == Len(PENDING_KVO_OLD_VALUES) <= Cardinality(Open)

\* An observer that asked for the old value is told the value that its change began
\* with (the last value kept is the one of the innermost open change). On one thread
\* with observers that stay; with two threads it is what the comment on
\* PENDING_KVO_OLD_VALUES says, and the code does not do.
OldIsOwn ==
    \A t \in Threads : \A i \in DOMAIN changes[t] :
       LET c == changes[t][i]
       IN  (\E e \in ToSet(c.rest) : e.old) => c.old = c.was
=============================================================================
