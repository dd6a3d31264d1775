--------------------------- MODULE MessageDispatch ---------------------------
(***************************************************************************)
(* objc_msgSend and the lazy +initialize of classes                        *)
(* (src/src/objc/messages.rs): what a message does before it reaches its   *)
(* method. A guest thread is a stack of messages being dispatched. Every   *)
(* guest thread is a coroutine of one host thread, so the "thread-local"   *)
(* count of nested dispatches is one count for all of them.                *)
(* Methods are abstract: a method may send any message, or return.         *)
(***************************************************************************)
EXTENDS Naturals, FiniteSets, SequencesExt, TLC

CONSTANTS ThreadIds,
          Classes,
          Super,        \* class -> its superclass, or NoClass
          NoClass,
          Implementing, \* the classes that define +initialize themselves
          MAX_DEPTH,
          MaxNesting    \* bound: messages that a thread nests, but for +initialize

DispatchAssumption ==
    /\ NoClass \notin Classes
    /\ Super \in [Classes -> Classes \cup {NoClass}]
    /\ IsFiniteSet(Classes)
    /\ \E height \in [Classes -> 0 .. Cardinality(Classes)] :
          \A c \in Classes : Super[c] # NoClass => height[Super[c]] < height[c]
    /\ Implementing \subseteq Classes
    /\ MAX_DEPTH \in Nat /\ MaxNesting \in Nat

VARIABLES initialized_classes,  \* ObjC
          DISPATCH_DEPTH,       \* the thread_local of the host thread
          stack,                \* per thread: its messages, the latest last
          calls                 \* history: class -> how often +initialize was run for it

vars == <<initialized_classes, DISPATCH_DEPTH, stack, calls>>

\* A class and its superclasses, the root first.
Lineage[c \in Classes] ==
    IF Super[c] = NoClass THEN <<c>> ELSE Append(Lineage[Super[c]], c)

\* class_has_method(metaclass, initialize): it is inherited.
HasInitialize(c) == Range(Lineage[c]) \cap Implementing # {}

\* A message to c (or to an instance of it); todo lists the classes that
\* ensure_class_initialized has still to come back to before the method runs.
Message(c, todo) == [class |-> c, sel |-> "message", todo |-> todo]

Initialize(c) == [class |-> c, sel |-> "initialize", todo |-> <<>>]

Init ==
    /\ initialized_classes = {}
    /\ DISPATCH_DEPTH = 0
    /\ stack = [t \in ThreadIds |-> <<>>]
    /\ calls = [c \in Classes |-> 0]

\* Fault: only the class itself is looked at.
Unmarked_alone(c) == IF c \in initialized_classes THEN <<>> ELSE <<c>>

\* Fault: a subclass is seen to before its superclass.
Unmarked_reversed(c) == SelectSeq(Reverse(Lineage[c]), LAMBDA k : k \notin initialized_classes)

\* The way up of ensure_class_initialized: it stops at the first class that
\* is already marked, and leaves the rest to come back to.
Unmarked(c) ==
    LET line == Lineage[c]
        marked == {i \in 1..Len(line) : line[i] \in initialized_classes}
    IN SubSeq(line, (IF marked = {} THEN 0 ELSE CHOOSE i \in marked : \A j \in marked : j <= i) + 1, Len(line))

\* Fault: a subclass that another thread marked gets +initialize again.
NextDue_unchecked(todo) ==
    LET due == {i \in 1..Len(todo) : HasInitialize(todo[i])}
    IN IF due = {} THEN 0 ELSE CHOOSE i \in due : \A j \in due : i <= j

\* The first class of todo whose +initialize has to be dispatched, or 0.
\* Classes that another thread marked in the meantime are passed over.
NextDue(todo) ==
    LET due == {i \in 1..Len(todo) : todo[i] \notin initialized_classes /\ HasInitialize(todo[i])}
    IN IF due = {} THEN 0 ELSE CHOOSE i \in due : \A j \in due : i <= j

\* initialized_classes once the n first classes of todo were seen to.
MarkedBefore(todo, n) == initialized_classes \cup ToSet(SubSeq(todo, 1, n))

\* The way back down: ensure_class_initialized of thread t, whose stack below
\* this message is rest and whose message to c still has todo to see to, with
\* depth dispatches nested. It runs up to the next +initialize, or to the
\* method of the message. A +initialize too deep is refused like any message.
ensure_class_initialized(t, rest, c, todo, depth) ==
    LET n == NextDue(todo)
    IN IF n = 0 \/ depth + 1 > MAX_DEPTH
       THEN /\ initialized_classes' = MarkedBefore(todo, Len(todo))
            /\ stack' = [stack EXCEPT ![t] = Append(rest, Message(c, <<>>))]
            /\ DISPATCH_DEPTH' = depth
            /\ UNCHANGED calls
       ELSE /\ initialized_classes' = MarkedBefore(todo, n)
            /\ stack' = [stack EXCEPT ![t] =
                            rest \o <<Message(c, SubSeq(todo, n + 1, Len(todo))), Initialize(todo[n])>>]
            /\ DISPATCH_DEPTH' = depth + 1
            /\ calls' = [calls EXCEPT ![todo[n]] = @ + 1]

\* Every thread that has a message on its stack is inside the method of the
\* last one; a thread without is in its start routine.
Nesting(t) == Cardinality({i \in 1..Len(stack[t]) : stack[t][i].sel = "message"})

\* The recursion limit: the message returns nil and nothing else happens.
Refuse == UNCHANGED vars

objc_msgSend(t, c) ==
    /\ Nesting(t) < MaxNesting
    /\ IF DISPATCH_DEPTH + 1 > MAX_DEPTH THEN Refuse
       ELSE ensure_class_initialized(t, stack[t], c, Unmarked(c), DISPATCH_DEPTH + 1)

\* A message to super from the method that runs: no +initialize.
objc_msgSendSuper2(t) ==
    /\ stack[t] # <<>>
    /\ Super[Last(stack[t]).class] # NoClass
    /\ Nesting(t) < MaxNesting
    /\ IF DISPATCH_DEPTH + 1 > MAX_DEPTH THEN Refuse
       ELSE /\ stack' = [stack EXCEPT ![t] = Append(@, Message(Super[Last(@).class], <<>>))]
            /\ DISPATCH_DEPTH' = DISPATCH_DEPTH + 1
            /\ UNCHANGED <<initialized_classes, calls>>

\* Fault: the registers are restored and the depth is not.
MethodReturns_uncounted(t) ==
    /\ stack[t] # <<>>
    /\ stack' = [stack EXCEPT ![t] = Front(@)]
    /\ UNCHANGED <<initialized_classes, DISPATCH_DEPTH, calls>>

\* The method of the last message returns, and the DepthGuard is dropped. After
\* a +initialize the message below goes on with ensure_class_initialized.
MethodReturns(t) ==
    /\ stack[t] # <<>>
    /\ IF Last(stack[t]).sel = "message"
       THEN /\ stack' = [stack EXCEPT ![t] = Front(@)]
            /\ DISPATCH_DEPTH' = DISPATCH_DEPTH - 1
            /\ UNCHANGED <<initialized_classes, calls>>
       ELSE LET message == Last(Front(stack[t]))
            IN ensure_class_initialized(t, Front(Front(stack[t])), message.class,
                                        message.todo, DISPATCH_DEPTH - 1)

Next ==
    \E t \in ThreadIds :
        \/ \E c \in Classes : objc_msgSend(t, c)
        \/ objc_msgSendSuper2(t)
        \/ MethodReturns(t)

Spec == Init /\ [][Next]_vars

-----------------------------------------------------------------------------

TypeOK ==
    /\ initialized_classes \subseteq Classes
    /\ DISPATCH_DEPTH \in 0..MAX_DEPTH
    /\ \A t \in ThreadIds : stack[t] \in Seq([class : Classes, sel : {"message", "initialize"},
                                              todo : Seq(Classes)])
    /\ calls \in [Classes -> Nat]

\* The depth counts exactly the dispatches that are on a stack, over threads
\* that enter and leave methods in any order (DepthGuard): the limit never
\* creeps towards a program that nests nothing.
DepthCounted ==
    DISPATCH_DEPTH = Cardinality(UNION {{t} \X DOMAIN stack[t] : t \in ThreadIds})

\* +initialize is run once for a class at most, however many threads send the
\* first messages to it and to its subclasses at once, and although the method
\* itself sends messages (the test Initialize.m: "exactly once per class").
OncePerClass == \A c \in Classes : calls[c] <= 1

\* A method that runs belongs to a class that was sent +initialize, and so
\* were its superclasses. ("just before the class, or any class that inherits
\* from it, is sent its first message"; a call to super relies on it.)
SentBeforeMessage ==
    \A t \in ThreadIds :
        stack[t] # <<>> =>
            \A c \in ToSet(Lineage[Last(stack[t]).class]) : HasInitialize(c) => calls[c] > 0

\* "Superclasses receive this message before their subclasses": no class is
\* sent +initialize while a superclass that has one has never been sent its.
SuperclassesFirst ==
    \A c \in Classes : calls[c] > 0 =>
        \A s \in ToSet(Lineage[c]) : HasInitialize(s) => calls[s] > 0

=============================================================================
