---------------------------- MODULE AbstractLock ----------------------------
(***************************************************************************)
(* What a lock with a condition promises, without queues, blocks or        *)
(* scheduling: the lock is given only when it is free and only to a thread *)
(* whose condition holds at that moment, a thread may give up when it has  *)
(* not asked to wait without limit, and the owner alone gives it back.     *)
(***************************************************************************)
CONSTANTS Threads, Conds, AnyCond, NoOwner

VARIABLES owner,        \* the thread that has the lock, or NoOwner
          cond,         \* the condition the lock was left with
          asking,       \* the threads that have asked and have no answer
          want          \* per thread the condition it last asked for

vars == <<owner, cond, asking, want>>

Init ==
    /\ owner = NoOwner
    /\ cond \in Conds
    /\ asking = {}
    /\ want = [t \in Threads |-> AnyCond]

Ask(t, w) ==
    /\ t \notin asking /\ owner # t
    /\ asking' = asking \cup {t}
    /\ want' = [want EXCEPT ![t] = w]
    /\ UNCHANGED <<owner, cond>>

\* The answer may come in the same step as the question.
Grant(t, w) ==
    /\ owner = NoOwner
    /\ w = AnyCond \/ w = cond
    /\ t \in asking => w = want[t]
    /\ owner' = t
    /\ asking' = asking \ {t}
    /\ want' = [want EXCEPT ![t] = w]
    /\ UNCHANGED cond

GiveUp(t) ==
    /\ t \in asking
    /\ asking' = asking \ {t}
    /\ UNCHANGED <<owner, cond, want>>

Release(t, c) ==
    /\ owner = t
    /\ owner' = NoOwner
    /\ cond' = c
    /\ UNCHANGED <<asking, want>>

Next == \E t \in Threads :
    \/ \E w \in Conds \cup {AnyCond} : Ask(t, w) \/ Grant(t, w)
    \/ GiveUp(t)
    \/ \E c \in Conds : Release(t, c)

Spec == Init /\ [][Next]_vars
=============================================================================
