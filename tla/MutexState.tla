----------------------------- MODULE MutexState -----------------------------
(***************************************************************************)
(* The host-side mutexes of src/src/environment/mutex.rs.                  *)
(*                                                                         *)
(* MutexState maps a MutexId to a Mutex {type_, waiting_count, locked}.    *)
(* Here a Mutex is a record; locked: Option<(ThreadId, NonZeroU32)> is the *)
(* pair of fields locked_by and lock_count (NoThread and 0 for None), and  *)
(* an identifier that is not a key of the HashMap has type "absent".       *)
(* The operators below are the effect of each method on the whole map; the *)
(* modules that extend this one say which thread calls them and when.      *)
(***************************************************************************)
EXTENDS Integers, TLAPS

CONSTANTS MaxThreads,   \* bound on the threads the guest ever creates
          MaxMutexes,   \* bound on the mutexes ever initialised
          MaxDepth      \* bound on the lock count of a recursive mutex

ASSUME BoundsAssumption ==
    /\ MaxThreads \in Nat \ {0}
    /\ MaxMutexes \in Nat \ {0}
    /\ MaxDepth \in Nat \ {0}

ThreadIds == 0 .. MaxThreads - 1
MutexIds  == 0 .. MaxMutexes - 1
NoThread  == -1
NoMutex   == -1

VARIABLES mutexes,      \* MutexState.mutexes
          mutex_count   \* MutexState.mutex_count, the next MutexId

mutexVars == <<mutexes, mutex_count>>

MutexTypes == {"NORMAL", "ERRORCHECK", "RECURSIVE"}

Mutex == [type          : MutexTypes \cup {"absent"},
          waiting_count : Nat,
          locked_by     : ThreadIds \cup {NoThread},
          lock_count    : Nat]

\* Both halves of locked are there or neither, and the count is a NonZeroU32.
MutexMapOK(ms) ==
    /\ ms \in [MutexIds -> Mutex]
    /\ \A id \in MutexIds :
          ms[id].locked_by = NoThread <=> ms[id].lock_count = 0

MutexTypeOK ==
    /\ MutexMapOK(mutexes)
    /\ mutex_count \in 0 .. MaxMutexes

(***************************************************************************)
(* Observers                                                               *)
(***************************************************************************)
Exists(ms, id) == ms[id].type # "absent"

mutex_is_locked(ms, id) == ms[id].locked_by # NoThread

mutex_is_recursive(ms, id) == ms[id].type = "RECURSIVE"

mutex_is_locked_by(ms, id, t) == ms[id].locked_by = t

(***************************************************************************)
(* Methods, as functions from the map before to the map after              *)
(***************************************************************************)
Free(type) == [type |-> type, waiting_count |-> 0,
               locked_by |-> NoThread, lock_count |-> 0]

init_mutex(ms, id, type) == [ms EXCEPT ![id] = Free(type)]

\* destroy_mutex answers EBUSY for a locked mutex and for one with waiters.
destroy_refused(ms, id) == \/ mutex_is_locked(ms, id)
                           \/ ms[id].waiting_count # 0

destroy_mutex(ms, id) == [ms EXCEPT ![id] = Free("absent")]

\* The uncontended case of lock_mutex.
take(ms, id, t) ==
    [ms EXCEPT ![id].locked_by = t, ![id].lock_count = 1]

\* lock_mutex by the thread that already holds a recursive mutex.
relevel(ms, id) == [ms EXCEPT ![id].lock_count = @ + 1]

\* lock_mutex of a mutex held by another thread, before it blocks.
add_waiter(ms, id) == [ms EXCEPT ![id].waiting_count = @ + 1]

\* Fault: the waiter is still counted once it has the mutex.
relock_counted(ms, id, t) ==
    [ms EXCEPT ![id].locked_by = t, ![id].lock_count = 1]

\* relock_unblocked_mutex_for_thread, called by the scheduler only.
relock(ms, id, t) ==
    [ms EXCEPT ![id].locked_by = t, ![id].lock_count = 1,
               ![id].waiting_count = IF @ > 0 THEN @ - 1 ELSE @]

\* Fault: any thread may unlock a mutex of any type.
unlock_refused_never(ms, id, t) == ~mutex_is_locked(ms, id)

\* unlock_mutex: a NORMAL mutex may be unlocked by any thread, the other
\* types answer EPERM to a thread that does not hold them.
unlock_refused(ms, id, t) ==
    \/ ~mutex_is_locked(ms, id)
    \/ ms[id].locked_by # t /\ ms[id].type # "NORMAL"

\* Fault: the lock count survives the unlock.
unlock_mutex_half(ms, id) == [ms EXCEPT ![id].locked_by = NoThread]

unlock_mutex(ms, id) ==
    IF ms[id].lock_count = 1
    THEN [ms EXCEPT ![id].locked_by = NoThread, ![id].lock_count = 0]
    ELSE [ms EXCEPT ![id].lock_count = @ - 1]

MutexInit ==
    /\ mutexes = [id \in MutexIds |-> Free("absent")]
    /\ mutex_count = 0

(***************************************************************************)
(* What the methods write: one mutex, made of its parts, and no other.     *)
(***************************************************************************)
\* ms2 is ms with another mutex at id.
Edit(ms, ms2, id) ==
    MutexMapOK(ms2) /\ \A j \in MutexIds \ {id} : ms2[j] = ms[j]

Written(ms, ms2, id, m) == Edit(ms, ms2, id) /\ ms2[id] = m

\* A mutex has both halves of locked or neither.
WellFormed(m) == m \in Mutex /\ (m.locked_by = NoThread <=> m.lock_count = 0)

LEMMA NoneIsNobody == NoThread \notin ThreadIds /\ NoMutex \notin MutexIds
BY BoundsAssumption DEF NoThread, ThreadIds, NoMutex, MutexIds

\* A method that writes one well-formed mutex.
LEMMA EditOne ==
    ASSUME NEW ms, MutexMapOK(ms), NEW id \in MutexIds, NEW m, WellFormed(m)
    PROVE  Edit(ms, [ms EXCEPT ![id] = m], id) /\ [ms EXCEPT ![id] = m][id] = m
BY DEF MutexMapOK, Edit, WellFormed

\* The parts of a mutex, and what makes a well-formed one.
Made(y, w, b, n) == [type |-> y, waiting_count |-> w, locked_by |-> b, lock_count |-> n]

LEMMA MutexParts ==
    ASSUME NEW ms, MutexMapOK(ms), NEW id \in MutexIds
    PROVE  /\ ms[id].type \in MutexTypes \cup {"absent"}
           /\ ms[id].waiting_count \in Nat
           /\ ms[id].locked_by \in ThreadIds \cup {NoThread}
           /\ ms[id].lock_count \in Nat
           /\ ms[id].locked_by = NoThread <=> ms[id].lock_count = 0
           /\ ms[id] = Made(ms[id].type, ms[id].waiting_count, ms[id].locked_by,
                            ms[id].lock_count)
BY DEF MutexMapOK, Mutex, Made

LEMMA MadeChanged ==
    ASSUME NEW y, NEW w, NEW b, NEW n, NEW v
    PROVE  /\ [Made(y, w, b, n) EXCEPT !.locked_by = v] = Made(y, w, v, n)
           /\ [Made(y, w, b, n) EXCEPT !.lock_count = v] = Made(y, w, b, v)
           /\ [Made(y, w, b, n) EXCEPT !.waiting_count = v] = Made(y, v, b, n)
           /\ Made(y, w, b, n).lock_count = n /\ Made(y, w, b, n).waiting_count = w
           /\ Made(y, w, b, n).locked_by = b /\ Made(y, w, b, n).type = y
BY DEF Made

LEMMA MakeMutex ==
    ASSUME NEW y \in MutexTypes \cup {"absent"}, NEW w \in Nat,
           NEW b \in ThreadIds \cup {NoThread}, NEW n \in Nat,
           b = NoThread <=> n = 0
    PROVE  WellFormed(Made(y, w, b, n))
BY DEF WellFormed, Mutex, Made

\* A method that writes one well-formed mutex, made of its parts.
LEMMA EditParts ==
    ASSUME NEW ms, MutexMapOK(ms), NEW id \in MutexIds,
           NEW y \in MutexTypes \cup {"absent"}, NEW w \in Nat,
           NEW b \in ThreadIds \cup {NoThread}, NEW n \in Nat,
           b = NoThread <=> n = 0
    PROVE  Written(ms, [ms EXCEPT ![id] = Made(y, w, b, n)], id, Made(y, w, b, n))
<1> DEFINE m == Made(y, w, b, n)
<1>1. WellFormed(m)
  BY MakeMutex
<1> HIDE DEF m
<1>2. Written(ms, [ms EXCEPT ![id] = m], id, m)
  BY <1>1, EditOne DEF Written
<1>3. QED
  BY <1>2 DEF m

LEMMA LockMethods ==
    ASSUME NEW ms, MutexMapOK(ms), NEW id \in MutexIds, NEW t \in ThreadIds
    PROVE  LET m == ms[id] IN
           /\ Written(ms, take(ms, id, t), id, Made(m.type, m.waiting_count, t, 1))
           /\ mutex_is_locked(ms, id) =>
                Written(ms, relevel(ms, id), id,
                    Made(m.type, m.waiting_count, m.locked_by, m.lock_count + 1))
           /\ Written(ms, add_waiter(ms, id), id,
                  Made(m.type, m.waiting_count + 1, m.locked_by, m.lock_count))
           /\ Written(ms, relock(ms, id, t), id,
                  Made(m.type, IF m.waiting_count > 0 THEN m.waiting_count - 1 ELSE 0,
                       t, 1))
           /\ mutex_is_locked(ms, id) /\ m.lock_count = 1 =>
                Written(ms, unlock_mutex(ms, id), id,
                    Made(m.type, m.waiting_count, NoThread, 0))
           /\ mutex_is_locked(ms, id) /\ m.lock_count # 1 =>
                Written(ms, unlock_mutex(ms, id), id,
                    Made(m.type, m.waiting_count, m.locked_by, m.lock_count - 1))
<1> DEFINE y == ms[id].type
           w == ms[id].waiting_count
           b == ms[id].locked_by
           n == ms[id].lock_count
           less == IF w > 0 THEN w - 1 ELSE 0
<1>1. /\ y \in MutexTypes \cup {"absent"} /\ w \in Nat
      /\ b \in ThreadIds \cup {NoThread} /\ n \in Nat
      /\ (b = NoThread <=> n = 0)
      /\ ms[id] = Made(y, w, b, n)
      /\ NoThread \notin ThreadIds
  BY MutexParts, NoneIsNobody
<1>2. /\ take(ms, id, t) = [ms EXCEPT ![id] = Made(y, w, t, 1)]
      /\ relevel(ms, id) = [ms EXCEPT ![id] = Made(y, w, b, n + 1)]
      /\ add_waiter(ms, id) = [ms EXCEPT ![id] = Made(y, w + 1, b, n)]
      /\ relock(ms, id, t) = [ms EXCEPT ![id] = Made(y, less, t, 1)]
      /\ n = 1 => unlock_mutex(ms, id) = [ms EXCEPT ![id] = Made(y, w, NoThread, 0)]
      /\ n # 1 => unlock_mutex(ms, id) = [ms EXCEPT ![id] = Made(y, w, b, n - 1)]
  <2> DEFINE m == Made(y, w, b, n)
  <2>0. ms[id] = m /\ DOMAIN ms = MutexIds /\ m.lock_count = n /\ m.waiting_count = w
    BY <1>1, MadeChanged DEF MutexMapOK
  <2> HIDE DEF y, w, b, n
  <2>t. [[m EXCEPT !.locked_by = t] EXCEPT !.lock_count = 1] = Made(y, w, t, 1)
    <3>1. [m EXCEPT !.locked_by = t] = Made(y, w, t, n)
      BY MadeChanged
    <3>2. [Made(y, w, t, n) EXCEPT !.lock_count = 1] = Made(y, w, t, 1)
      BY MadeChanged
    <3>3. QED
      BY <3>1, <3>2
  <2>u. [[m EXCEPT !.locked_by = NoThread] EXCEPT !.lock_count = 0]
          = Made(y, w, NoThread, 0)
    <3>1. [m EXCEPT !.locked_by = NoThread] = Made(y, w, NoThread, n)
      BY MadeChanged
    <3>2. [Made(y, w, NoThread, n) EXCEPT !.lock_count = 0] = Made(y, w, NoThread, 0)
      BY MadeChanged
    <3>3. QED
      BY <3>1, <3>2
  <2>c. \A v : [m EXCEPT !.lock_count = v] = Made(y, w, b, v)
    BY MadeChanged
  <2>w. \A v : /\ [m EXCEPT !.waiting_count = v] = Made(y, v, b, n)
               /\ [Made(y, w, t, 1) EXCEPT !.waiting_count = v] = Made(y, v, t, 1)
    BY MadeChanged
  <2>r. Made(y, w, t, 1).waiting_count = w
    BY MadeChanged
  <2> HIDE DEF m
  <2>1. take(ms, id, t) = [ms EXCEPT ![id] = Made(y, w, t, 1)]
    <3>1. take(ms, id, t)
            = [ms EXCEPT ![id] = [[m EXCEPT !.locked_by = t] EXCEPT !.lock_count = 1]]
      BY <2>0 DEF take
    <3>2. QED
      BY <3>1, <2>t
  <2>2. relevel(ms, id) = [ms EXCEPT ![id] = Made(y, w, b, n + 1)]
    <3>1. relevel(ms, id) = [ms EXCEPT ![id] = [m EXCEPT !.lock_count = n + 1]]
      BY <2>0 DEF relevel
    <3>2. QED
      BY <3>1, <2>c
  <2>3. add_waiter(ms, id) = [ms EXCEPT ![id] = Made(y, w + 1, b, n)]
    <3>1. add_waiter(ms, id) = [ms EXCEPT ![id] = [m EXCEPT !.waiting_count = w + 1]]
      BY <2>0 DEF add_waiter
    <3>2. QED
      BY <3>1, <2>w
  <2>4. relock(ms, id, t) = [ms EXCEPT ![id] = Made(y, less, t, 1)]
    <3>1. (IF w > 0 THEN w - 1 ELSE w) = less
      BY <1>1
    <3>2. relock(ms, id, t)
            = [ms EXCEPT ![id] = [[[m EXCEPT !.locked_by = t] EXCEPT !.lock_count = 1]
                  EXCEPT !.waiting_count = IF w > 0 THEN w - 1 ELSE w]]
      BY <2>0, <2>t, <2>r DEF relock
    <3>3. QED
      BY <3>1, <3>2, <2>t, <2>w
  <2>5. n = 1 => unlock_mutex(ms, id) = [ms EXCEPT ![id] = Made(y, w, NoThread, 0)]
    <3>1. n = 1 => unlock_mutex(ms, id)
            = [ms EXCEPT ![id] =
                  [[m EXCEPT !.locked_by = NoThread] EXCEPT !.lock_count = 0]]
      BY <2>0 DEF unlock_mutex
    <3>2. QED
      BY <3>1, <2>u
  <2>6. n # 1 => unlock_mutex(ms, id) = [ms EXCEPT ![id] = Made(y, w, b, n - 1)]
    <3>1. n # 1 => unlock_mutex(ms, id)
                     = [ms EXCEPT ![id] = [m EXCEPT !.lock_count = n - 1]]
      BY <2>0 DEF unlock_mutex
    <3>2. QED
      BY <3>1, <2>c
  <2>7. QED
    BY <2>1, <2>2, <2>3, <2>4, <2>5, <2>6 DEF y, w, b, n
<1>3. less \in Nat /\ w + 1 \in Nat /\ n + 1 \in Nat /\ n + 1 # 0
      /\ (n # 0 => n - 1 \in Nat /\ (b = NoThread <=> n + 1 = 0))
      /\ (n # 0 /\ n # 1 => (b = NoThread <=> n - 1 = 0))
      /\ (NoThread = NoThread <=> 0 = 0) /\ 0 \in Nat
      /\ 1 \in Nat /\ (t = NoThread <=> 1 = 0)
  BY <1>1
<1>4. mutex_is_locked(ms, id) <=> n # 0
  BY <1>1 DEF mutex_is_locked
<1> HIDE DEF y, w, b, n, less
<1>5. Written(ms, take(ms, id, t), id, Made(y, w, t, 1))
  <2>1. Written(ms, [ms EXCEPT ![id] = Made(y, w, t, 1)], id, Made(y, w, t, 1))
    BY <1>1, EditParts
  <2>2. QED
    BY <1>2, <2>1
<1>6. n # 0 => Written(ms, relevel(ms, id), id, Made(y, w, b, n + 1))
  <2>1. n # 0 => Written(ms, [ms EXCEPT ![id] = Made(y, w, b, n + 1)], id,
                         Made(y, w, b, n + 1))
    BY <1>1, <1>3, EditParts, Zenon
  <2>2. QED
    BY <1>2, <2>1
<1>7. Written(ms, add_waiter(ms, id), id, Made(y, w + 1, b, n))
  <2>1. Written(ms, [ms EXCEPT ![id] = Made(y, w + 1, b, n)], id, Made(y, w + 1, b, n))
    BY <1>1, <1>3, EditParts
  <2>2. QED
    BY <1>2, <2>1
<1>8. Written(ms, relock(ms, id, t), id, Made(y, less, t, 1))
  <2>1. Written(ms, [ms EXCEPT ![id] = Made(y, less, t, 1)], id, Made(y, less, t, 1))
    BY <1>1, <1>3, EditParts, Zenon
  <2>2. QED
    BY <1>2, <2>1
<1>9. n = 1 => Written(ms, unlock_mutex(ms, id), id, Made(y, w, NoThread, 0))
  <2>1. Written(ms, [ms EXCEPT ![id] = Made(y, w, NoThread, 0)], id,
                Made(y, w, NoThread, 0))
    BY <1>1, <1>3, EditParts, Zenon
  <2>2. QED
    BY <1>2, <2>1
<1>10. n # 0 /\ n # 1 =>
          Written(ms, unlock_mutex(ms, id), id, Made(y, w, b, n - 1))
  <2>1. n # 0 /\ n # 1 => Written(ms, [ms EXCEPT ![id] = Made(y, w, b, n - 1)], id,
                                 Made(y, w, b, n - 1))
    BY <1>1, <1>3, EditParts
  <2>2. QED
    BY <1>2, <2>1
<1>11. QED
  BY <1>4, <1>5, <1>6, <1>7, <1>8, <1>9, <1>10 DEF y, w, b, n, less

LEMMA LifeMethods ==
    ASSUME NEW ms, MutexMapOK(ms), NEW id \in MutexIds,
           NEW type \in MutexTypes \cup {"absent"}
    PROVE  /\ Written(ms, init_mutex(ms, id, type), id, Made(type, 0, NoThread, 0))
           /\ Written(ms, destroy_mutex(ms, id), id, Made("absent", 0, NoThread, 0))
<1>1. /\ init_mutex(ms, id, type) = [ms EXCEPT ![id] = Made(type, 0, NoThread, 0)]
      /\ destroy_mutex(ms, id) = [ms EXCEPT ![id] = Made("absent", 0, NoThread, 0)]
  BY DEF init_mutex, destroy_mutex, Free, Made
<1>2. /\ NoThread \in ThreadIds \cup {NoThread} /\ 0 \in Nat
      /\ (NoThread = NoThread <=> 0 = 0) /\ "absent" \in MutexTypes \cup {"absent"}
  OBVIOUS
<1>3. \A y \in MutexTypes \cup {"absent"} :
          Written(ms, [ms EXCEPT ![id] = Made(y, 0, NoThread, 0)], id,
                  Made(y, 0, NoThread, 0))
  BY <1>2, EditParts, Zenon
<1>4. QED
  BY <1>1, <1>2, <1>3
=============================================================================
