----------------------------- MODULE PthreadOnce -----------------------------
(***************************************************************************)
(* pthread_once (src/src/libc/pthread/once.rs). The word of a control says *)
(* whether the routine has been called; it is written before the routine,  *)
(* which is guest code: it may come to the same control again, and other   *)
(* threads run before it returns.                                          *)
(***************************************************************************)
EXTENDS Integers, SequencesExt

CONSTANTS Threads, Controls,
          MaxDepth      \* bound: routines within routines

VARIABLES magic,        \* the controls whose magic is MAGIC_ONCE
          init,         \* the controls whose init is 0xFFFFFFFF
          routines,     \* thread -> the controls whose routine it is in
          begun,        \* history: times the routine of a control was called
          passed        \* history: <<thread, control>> of calls that returned
vars == <<magic, init, routines, begun, passed>>

\* Storage that the guest did not initialise has any contents.
Init ==
    /\ magic \in SUBSET Controls /\ init \in SUBSET (Controls \ magic)
    /\ routines = [t \in Threads |-> <<>>]
    /\ begun = [c \in Controls |-> 0]
    /\ passed = {}

\* Fault: a control without the magic number gets one when the routine is done.
Marked_late(c) == magic

Marked(c) == magic \cup {c}

CallRoutine(t, c) ==
    /\ Len(routines[t]) < MaxDepth
    /\ magic' = Marked(c)
    /\ init' = init \cup {c}
    /\ begun' = [begun EXCEPT ![c] = IF @ = 2 THEN 2 ELSE @ + 1]
    /\ routines' = [routines EXCEPT ![t] = Append(@, c)]
    /\ UNCHANGED passed

pthread_once(t, c) ==
    \/ c \notin magic \cap init /\ CallRoutine(t, c)
    \/ /\ c \in magic \cap init
       /\ passed' = passed \cup {<<t, c>>}
       /\ UNCHANGED <<magic, init, routines, begun>>

RoutineReturns(t) ==
    /\ routines[t] # <<>>
    /\ routines' = [routines EXCEPT ![t] = Front(@)]
    /\ passed' = passed \cup {<<t, Last(routines[t])>>}
    /\ UNCHANGED <<magic, init, begun>>

Next == \E t \in Threads :
    RoutineReturns(t) \/ \E c \in Controls : pthread_once(t, c)

Spec == Init /\ [][Next]_vars

(***************************************************************************)
(* Properties                                                              *)
(***************************************************************************)
\* The routine of a control is called once, whatever was in its memory and
\* whoever comes to it in the meantime, and nobody returns before it is called.
RoutineOnce == \A c \in Controls :
    begun[c] < 2 /\ \A t \in Threads : <<t, c>> \in passed => begun[c] = 1

=============================================================================
