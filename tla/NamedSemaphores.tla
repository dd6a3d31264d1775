--------------------------- MODULE NamedSemaphores ---------------------------
(***************************************************************************)
(* Named semaphores (src/src/libc/semaphore.rs): a name leads to a host    *)
(* object, and so does the guest address that sem_open gave out for it.    *)
(* All who open a name share one address, and the first sem_close frees it *)
(* for all; sem_unlink forgets the name. The object lives as long as one of*)
(* the tables has it. A freed address may be given out again.              *)
(***************************************************************************)
EXTENDS Integers, FiniteSets

CONSTANTS Threads, Names,
          Addresses,    \* guest addresses of sem_t (u32)
          MaxObjects,   \* bound: SemaphoreHostObjects ever made
          MaxTokens,    \* bound: tokens ever put into an object
          CloseWaited   \* does the guest close a semaphore with waiters?

SemaphoreAssumption ==
    /\ Addresses \subseteq Nat
    /\ MaxObjects \in Nat /\ MaxTokens \in Nat /\ CloseWaited \in BOOLEAN

VARIABLES named_semaphores,     \* name -> object
          open_semaphores,      \* address -> object
          objects,              \* SemaphoreHostObject per object made
          blocked,              \* thread -> the address of ThreadBlock::Semaphore
          put, taken            \* history, per object: tokens put in and taken out
vars == <<named_semaphores, open_semaphores, objects, blocked, put, taken>>

None == -1
Objects == 0 .. MaxObjects - 1
NoObject == [made |-> FALSE, value |-> 0, waiting |-> {}, guest_sem |-> None]

Init ==
    /\ named_semaphores = [n \in Names |-> None]
    /\ open_semaphores = [a \in Addresses |-> None]
    /\ objects = [o \in Objects |-> NoObject]
    /\ blocked = [t \in Threads |-> None]
    /\ put = [o \in Objects |-> 0]
    /\ taken = [o \in Objects |-> 0]

Runs(t) == blocked[t] = None
Fresh(o) == ~objects[o].made /\ \A p \in Objects : p < o => objects[p].made

\* Memory for a sem_t, at an address that is not in use.
AllocHandle(o, object) == \E a \in Addresses :
    /\ open_semaphores[a] = None
    /\ open_semaphores' = [open_semaphores EXCEPT ![a] = o]
    /\ objects' = [objects EXCEPT ![o] = [object EXCEPT !.guest_sem = a]]

\* Fault: opening an existing semaphore sets its value.
Reopened_set(object, value) == [object EXCEPT !.value = value]

Reopened(object, value) == object

\* With O_CREAT, and without O_EXCL where the name exists; the refusals with
\* EEXIST and ENOENT change nothing.
sem_open(t, n, value) ==
    /\ Runs(t)
    /\ LET o == named_semaphores[n] IN
       \/ /\ o # None
          /\ IF objects[o].guest_sem # None
             THEN /\ objects' = [objects EXCEPT ![o] = Reopened(@, value)]
                  /\ UNCHANGED open_semaphores
             ELSE AllocHandle(o, Reopened(objects[o], value))
          /\ UNCHANGED <<named_semaphores, put>>
       \/ /\ o = None
          /\ \E new \in Objects :
                /\ Fresh(new)
                /\ named_semaphores' = [named_semaphores EXCEPT ![n] = new]
                /\ AllocHandle(new, [NoObject EXCEPT !.made = TRUE, !.value = value])
                /\ put' = [put EXCEPT ![new] = value]
    /\ UNCHANGED <<blocked, taken>>

sem_post(t, a) ==
    /\ Runs(t) /\ open_semaphores[a] # None
    /\ LET o == open_semaphores[a] IN
       /\ put[o] < MaxTokens
       /\ objects' = [objects EXCEPT ![o].value = @ + 1]
       /\ put' = [put EXCEPT ![o] = @ + 1]
    /\ UNCHANGED <<named_semaphores, open_semaphores, blocked, taken>>

\* sem_decrement of a semaphore that has a token.
Decrement(o, waiting) ==
    /\ objects' = [objects EXCEPT ![o].value = @ - 1, ![o].waiting = waiting]
    /\ taken' = [taken EXCEPT ![o] = @ + 1]

HasToken(o) == objects[o].value > 0

\* sem_wait and sem_trywait; only sem_wait blocks.
sem_wait(t, a) ==
    /\ Runs(t) /\ open_semaphores[a] # None
    /\ LET o == open_semaphores[a] IN
       \/ /\ HasToken(o)
          /\ Decrement(o, objects[o].waiting)
          /\ UNCHANGED blocked
       \/ /\ ~HasToken(o)
          /\ objects' = [objects EXCEPT ![o].waiting = @ \cup {t}]
          /\ blocked' = [blocked EXCEPT ![t] = a]
          /\ UNCHANGED taken
    /\ UNCHANGED <<named_semaphores, open_semaphores, put>>

\* Fault: the thread stays among the waiting.
Woken_kept(waiting, t) == waiting

Woken(waiting, t) == waiting \ {t}

\* The scheduler finds a token, or no semaphore at the address.
Wake(t) ==
    /\ ~Runs(t)
    /\ LET o == open_semaphores[blocked[t]] IN
       \/ o = None /\ UNCHANGED <<objects, taken>>
       \/ o # None /\ HasToken(o) /\ Decrement(o, Woken(objects[o].waiting, t))
    /\ blocked' = [blocked EXCEPT ![t] = None]
    /\ UNCHANGED <<named_semaphores, open_semaphores, put>>

\* Fault: the object still has the address that was freed.
Closed_stale(object) == object

Closed(object) == [object EXCEPT !.guest_sem = None]

sem_close(t, a) ==
    /\ Runs(t) /\ open_semaphores[a] # None
    /\ CloseWaited \/ \A u \in Threads : blocked[u] # a
    /\ open_semaphores' = [open_semaphores EXCEPT ![a] = None]
    /\ objects' = [objects EXCEPT ![open_semaphores[a]] = Closed(@)]
    /\ UNCHANGED <<named_semaphores, blocked, put, taken>>

sem_unlink(t, n) ==
    /\ Runs(t)
    /\ named_semaphores' = [named_semaphores EXCEPT ![n] = None]
    /\ UNCHANGED <<open_semaphores, objects, blocked, put, taken>>

Next == \E t \in Threads :
    \/ \E n \in Names : sem_unlink(t, n) \/ \E value \in 0 .. 1 : sem_open(t, n, value)
    \/ \E a \in Addresses : sem_post(t, a) \/ sem_wait(t, a) \/ sem_close(t, a)
    \/ Wake(t)

Spec == Init /\ [][Next]_vars

(***************************************************************************)
(* Properties                                                              *)
(***************************************************************************)
TypeOK ==
    /\ named_semaphores \in [Names -> Objects \cup {None}]
    /\ open_semaphores \in [Addresses -> Objects \cup {None}]
    /\ blocked \in [Threads -> Addresses \cup {None}]
    /\ objects \in [Objects -> [made : BOOLEAN, value : Nat, waiting : SUBSET Threads,
                                guest_sem : Addresses \cup {None}]]

\* An object knows the one address it is open at, however often its name is
\* opened, closed by anybody and opened again elsewhere, and no address of a
\* semaphore is freed memory.
HandlesExact ==
    /\ \A o \in Objects, a \in Addresses :
          open_semaphores[a] = o <=> objects[o].guest_sem = a
    /\ \A n, m \in Names :
          n # m /\ named_semaphores[n] # None => named_semaphores[n] # named_semaphores[m]

\* Tokens are neither made nor lost when a name is closed and opened again: a
\* wait that succeeds has taken a token that was put into the same object.
TokensKept == \A o \in Objects :
    objects[o].value = put[o] - taken[o] /\ taken[o] <= put[o]

\* "When there are threads blocked waiting on the semaphore [...] we report the
\* negative count" (src/src/libc/semaphore.rs, sem_getvalue): the count is of
\* the threads that are blocked on it.
WaitersReported == \A o \in Objects : objects[o].guest_sem # None =>
    objects[o].waiting = {t \in Threads : blocked[t] = objects[o].guest_sem}
=============================================================================
