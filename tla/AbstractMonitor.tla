--------------------------- MODULE AbstractMonitor ---------------------------
(***************************************************************************)
(* What a condition with its own lock promises: one thread inside, a       *)
(* waiter gives the lock up and is queued in one step, a notification      *)
(* moves exactly one waiter (or all) to those who want to enter again, and *)
(* a waiter that was notified is never told that its time ran out.         *)
(***************************************************************************)
CONSTANTS Threads, NoOwner

VARIABLES owner,        \* the thread inside, or NoOwner
          entering,     \* the threads that want to enter
          waiting,      \* the threads that wait for a notification
          answer        \* per thread: "none", or how its last wait ended

vars == <<owner, entering, waiting, answer>>

Init ==
    /\ owner = NoOwner
    /\ entering = {} /\ waiting = {}
    /\ answer = [t \in Threads |-> "none"]

Ask(t) ==
    /\ owner # t /\ t \notin entering \cup waiting
    /\ entering' = entering \cup {t}
    /\ UNCHANGED <<owner, waiting, answer>>

Enter(t) ==
    /\ owner = NoOwner /\ t \notin waiting
    /\ owner' = t
    /\ entering' = entering \ {t}
    /\ UNCHANGED <<waiting, answer>>

Exit(t) ==
    /\ owner = t
    /\ owner' = NoOwner
    /\ UNCHANGED <<entering, waiting, answer>>

Wait(t) ==
    /\ owner = t
    /\ owner' = NoOwner
    /\ waiting' = waiting \cup {t}
    /\ answer' = [answer EXCEPT ![t] = "none"]
    /\ UNCHANGED entering

Notify(ts) ==
    /\ ts # {} /\ ts \subseteq waiting
    /\ ts = waiting \/ \E t \in Threads : ts = {t}
    /\ waiting' = waiting \ ts
    /\ entering' = entering \cup ts
    /\ answer' = [t \in Threads |-> IF t \in ts THEN "notified" ELSE answer[t]]
    /\ UNCHANGED owner

\* The waiter may enter in the step in which it stops to wait.
TimeOut(t) ==
    /\ t \in waiting
    /\ waiting' = waiting \ {t}
    /\ answer' = [answer EXCEPT ![t] = "late"]
    /\ \/ entering' = entering \cup {t} /\ UNCHANGED owner
       \/ owner = NoOwner /\ owner' = t /\ UNCHANGED entering

Next ==
    \/ \E t \in Threads : Ask(t) \/ Enter(t) \/ Exit(t) \/ Wait(t) \/ TimeOut(t)
    \/ \E ts \in SUBSET Threads : Notify(ts)

Spec == Init /\ [][Next]_vars
=============================================================================
