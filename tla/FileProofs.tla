----------------------------- MODULE FileProofs ------------------------------
(***************************************************************************)
(* FileDescriptors implements AbstractFdTable, and what hangs on a         *)
(* descriptor (its entry in the table of sockets, the handle of a pipe) is *)
(* there exactly while the descriptor is open.  The lemmas speak of any    *)
(* table of slots, since pipe() fills two slots in one call.               *)
(*                                                                         *)
(* At the end: the streams of stdio.rs, an instance of FileStreams, whose  *)
(* descriptors are theirs alone and which deliver each byte once.          *)
(***************************************************************************)
EXTENDS FileDescriptors, FiniteSetTheorems, SequenceTheorems, WellFoundedInduction, TLAPS

(***************************************************************************)
(* Tables of slots                                                         *)
(***************************************************************************)
Table == Seq(Slot \cup {Closed})

OpenIn(table) == {i \in DOMAIN table : table[i] # Closed}

EndsIn(table, p, kind) ==
    {i \in OpenIn(table) : table[i].kind = kind /\ table[i].ref = p}

\* A set of numbers has a least one.
LEMMA Least ==
    ASSUME NEW T \in SUBSET Nat, T # {}
    PROVE  Min(T) \in T /\ \A y \in T : Min(T) <= y
<1> DEFINE R == OpToRel(<, Nat)
<1>1. \A x, y \in Nat : <<y, x>> \in R <=> y < x
  BY DEF OpToRel
<1>2. IsWellFoundedOn(R, Nat)
  BY NatLessThanWellFounded
<1> HIDE DEF R
<1>3. PICK x \in T : \A y \in T : ~ (<<y, x>> \in R)
  BY <1>2, WFMin
<1>4. \A y \in T : x <= y
  <2> SUFFICES ASSUME NEW y \in T PROVE x <= y
    OBVIOUS
  <2>1. x \in Nat /\ y \in Nat /\ ~ (y < x)
    BY <1>1, <1>3
  <2>2. QED
    BY <2>1
<1>5. QED
  BY <1>4 DEF Min

LEMMA MinIs ==
    ASSUME NEW T \in SUBSET Nat, NEW x \in T, \A y \in T : x <= y
    PROVE  Min(T) = x
<1>1. /\ Min(T) \in Nat /\ x \in Nat
      /\ Min(T) <= x /\ x <= Min(T)
  BY Least
<1>2. QED
  BY <1>1

LEMMA MaxOfTwo ==
    ASSUME NEW a \in Nat, NEW b \in Nat
    PROVE  Max({a, b}) = IF a >= b THEN a ELSE b
<1> DEFINE m == IF a >= b THEN a ELSE b
<1>1. m \in {a, b} /\ m \in Nat /\ \A y \in {a, b} : m >= y
  OBVIOUS
<1>2. ASSUME NEW x \in {a, b}, \A y \in {a, b} : x >= y PROVE x = m
  <2>1. x >= m /\ m >= x /\ x \in Nat
    BY <1>1, <1>2
  <2> HIDE DEF m
  <2>2. QED
    BY <1>1, <2>1
<1> HIDE DEF m
<1>3. Max({a, b}) = m
  BY <1>1, <1>2 DEF Max
<1>4. QED
  BY <1>3 DEF m

\* FirstEmpty is an empty place of the table, and all before it are taken.
LEMMA FirstEmptyFound ==
    ASSUME NEW table \in Table, NEW from \in Nat \ {0}
    PROVE  LET i == FirstEmpty(table, from)
           IN  /\ i \in Nat /\ i >= from /\ i \notin OpenIn(table)
               /\ \A j \in from .. i - 1 : j \in OpenIn(table)
<1> DEFINE empty == {i \in DOMAIN table : i >= from /\ table[i] = Closed}
<1>1. DOMAIN table = 1 .. Len(table) /\ Len(table) \in Nat
  BY DEF Table
<1>2. CASE empty # {}
  <2>1. empty \in SUBSET Nat
    BY <1>1
  <2> DEFINE i == Min(empty)
  <2>2. i \in empty /\ \A y \in empty : i <= y
    BY <1>2, <2>1, Least
  <2>3. FirstEmpty(table, from) = i
    BY <1>2 DEF FirstEmpty
  <2> HIDE DEF i
  <2>4. i \in DOMAIN table /\ i >= from /\ table[i] = Closed
    BY <2>2
  <2>5. ASSUME NEW j \in from .. i - 1 PROVE j \in OpenIn(table)
    <3>1. j \in DOMAIN table /\ j >= from /\ ~ (i <= j)
      BY <1>1, <2>4
    <3>2. j \notin empty
      BY <2>2, <3>1
    <3>3. QED
      BY <3>1, <3>2 DEF OpenIn
  <2>6. QED
    BY <1>1, <2>3, <2>4, <2>5 DEF OpenIn
<1>3. CASE empty = {}
  <2> DEFINE n == Len(table) + 1
             i == IF from >= n THEN from ELSE n
  <2>1. n \in Nat /\ i \in Nat /\ i >= from /\ i >= n
    BY <1>1
  <2>2. FirstEmpty(table, from) = i
    <3>1. Max({from, n}) = i
      BY <2>1, MaxOfTwo
    <3>2. QED
      BY <1>3, <3>1 DEF FirstEmpty
  <2>3. ASSUME NEW j \in from .. i - 1 PROVE j \in OpenIn(table)
    <3>1. j \in DOMAIN table /\ j >= from
      BY <1>1
    <3>2. QED
      BY <1>3, <3>1 DEF OpenIn
  <2>4. i \notin OpenIn(table)
    BY <1>1 DEF OpenIn
  <2>5. QED
    BY <2>1, <2>2, <2>3, <2>4
<1>4. QED
  BY <1>2, <1>3

\* WithSlot fills slot i and no other.
LEMMA SlotFilled ==
    ASSUME SlotAssumption, NEW table \in Table, NEW i \in Nat \ {0}, NEW obj \in Slot
    PROVE  LET new == WithSlot(table, i, obj)
           IN  /\ new \in Table /\ Len(new) = IF i >= Len(table) THEN i ELSE Len(table)
               /\ OpenIn(new) = OpenIn(table) \cup {i} /\ new[i] = obj
               /\ \A j \in OpenIn(table) \ {i} : new[j] = table[j]
<1> DEFINE n == IF i >= Len(table) THEN i ELSE Len(table)
           new == WithSlot(table, i, obj)
<1>1. /\ DOMAIN table = 1 .. Len(table) /\ Len(table) \in Nat
      /\ \A j \in 1 .. Len(table) : table[j] \in Slot \cup {Closed}
  BY DEF Table
<1>2. n \in Nat /\ i \in 1 .. n /\ Len(table) <= n
  BY <1>1
<1>3. Max({i, Len(table)}) = n
  BY <1>1, MaxOfTwo
<1> HIDE DEF n
<1>4. new = [j \in 1 .. n |->
                IF j = i THEN obj ELSE IF j <= Len(table) THEN table[j] ELSE Closed]
  BY <1>3 DEF WithSlot
<1> HIDE DEF new
<1>5. new \in Table /\ Len(new) = n /\ DOMAIN new = 1 .. n
  <2>1. \A j \in 1 .. n : new[j] \in Slot \cup {Closed}
    BY <1>1, <1>4
  <2>2. new \in [1 .. n -> Slot \cup {Closed}]
    BY <1>4, <2>1
  <2>3. QED
    BY <1>2, <2>2 DEF Table
<1>6. new[i] = obj /\ obj # Closed
  BY <1>2, <1>4 DEF SlotAssumption
<1>7. \A j \in 1 .. n : j # i =>
          new[j] = IF j \in DOMAIN table THEN table[j] ELSE Closed
  BY <1>1, <1>4
<1>8. OpenIn(new) = OpenIn(table) \cup {i}
  BY <1>1, <1>2, <1>5, <1>6, <1>7 DEF OpenIn
<1>9. \A j \in OpenIn(table) \ {i} : new[j] = table[j]
  BY <1>1, <1>2, <1>7 DEF OpenIn
<1>10. QED
  BY <1>5, <1>6, <1>8, <1>9 DEF new, n

\* The same of a table that is named.
LEMMA SlotFilledAs ==
    ASSUME SlotAssumption, NEW table, NEW i, NEW obj, NEW new,
           table \in Table /\ i \in Nat \ {0} /\ obj \in Slot,
           new = WithSlot(table, i, obj)
    PROVE  /\ new \in Table /\ Len(new) = IF i >= Len(table) THEN i ELSE Len(table)
           /\ OpenIn(new) = OpenIn(table) \cup {i} /\ new[i] = obj
           /\ \A j \in OpenIn(table) \ {i} : new[j] = table[j]
  BY SlotFilled

(***************************************************************************)
(* A table with its sockets and pipes                                      *)
(***************************************************************************)
RefOK(obj) ==
    /\ obj.kind \in Seekable => obj.ref \in Cursors
    /\ obj.kind \in PipeEnds => obj.ref \in Pipes
    /\ obj.kind = "socket" => obj.ref = NoRef

TableOK(table, socks, bufs) ==
    /\ table \in Table
    /\ \A i \in OpenIn(table) : RefOK(table[i])
    /\ socks = {i \in OpenIn(table) : table[i].kind = "socket"}
    /\ bufs \in [Pipes -> Buffer]
    /\ \A p \in Pipes :
          /\ IsFiniteSet(EndsIn(table, p, "read")) /\ IsFiniteSet(EndsIn(table, p, "write"))
          /\ bufs[p].read_handles = Cardinality(EndsIn(table, p, "read"))
          /\ bufs[p].write_handles = Cardinality(EndsIn(table, p, "write"))

FdInv == TypeOK /\ TableOK(files, sockets, pipes)

\* Slot i, which was empty, holds obj.
LEMMA EndsFilled ==
    ASSUME SlotAssumption, NEW table \in Table, NEW i \in Nat \ {0}, i \notin OpenIn(table),
           NEW obj \in Slot, NEW p, NEW kind
    PROVE  LET old == EndsIn(table, p, kind)
               new == EndsIn(WithSlot(table, i, obj), p, kind)
           IN  IF obj.kind = kind /\ obj.ref = p
               THEN new = old \cup {i} /\ i \notin old
               ELSE new = old
<1>1. /\ OpenIn(WithSlot(table, i, obj)) = OpenIn(table) \cup {i}
      /\ WithSlot(table, i, obj)[i] = obj
      /\ \A j \in OpenIn(table) : WithSlot(table, i, obj)[j] = table[j]
  BY SlotFilled
<1>2. QED
  BY <1>1 DEF EndsIn

\* A file or a socket gets slot i.
LEMMA FilePut ==
    ASSUME SlotAssumption, NEW table, NEW socks, NEW bufs, TableOK(table, socks, bufs),
           NEW i \in Nat \ {0}, i \notin OpenIn(table), NEW obj \in Slot, RefOK(obj),
           obj.kind \notin PipeEnds
    PROVE  TableOK(WithSlot(table, i, obj),
                   IF obj.kind = "socket" THEN socks \cup {i} ELSE socks, bufs)
<1> DEFINE new == WithSlot(table, i, obj)
<1>0. table \in Table
  BY DEF TableOK
<1>1. /\ new \in Table /\ OpenIn(new) = OpenIn(table) \cup {i} /\ new[i] = obj
      /\ \A j \in OpenIn(table) : new[j] = table[j]
  BY <1>0, SlotFilled
<1>2. ASSUME NEW p, NEW kind \in PipeEnds PROVE EndsIn(new, p, kind) = EndsIn(table, p, kind)
  BY <1>0, EndsFilled
<1> HIDE DEF new
<1>3. \A p : /\ EndsIn(new, p, "read") = EndsIn(table, p, "read")
             /\ EndsIn(new, p, "write") = EndsIn(table, p, "write")
  BY <1>2 DEF PipeEnds
<1>4. \A j \in OpenIn(new) : RefOK(new[j])
  BY <1>1 DEF TableOK
<1>5. (IF obj.kind = "socket" THEN socks \cup {i} ELSE socks)
         = {j \in OpenIn(new) : new[j].kind = "socket"}
  BY <1>1 DEF TableOK
<1>6. TableOK(new, IF obj.kind = "socket" THEN socks \cup {i} ELSE socks, bufs)
  BY <1>1, <1>3, <1>4, <1>5 DEF TableOK
<1>7. QED
  BY <1>6 DEF new

\* An end of pipe obj.ref gets slot i, and the pipe one more handle of its kind.
LEMMA EndPut ==
    ASSUME SlotAssumption, NEW table, NEW socks, NEW bufs, TableOK(table, socks, bufs),
           NEW i \in Nat \ {0}, i \notin OpenIn(table), NEW obj \in Slot, RefOK(obj),
           obj.kind \in PipeEnds, NEW bufs2 \in [Pipes -> Buffer],
           \A p \in Pipes \ {obj.ref} : bufs2[p] = bufs[p],
           bufs2[obj.ref].read_handles =
               bufs[obj.ref].read_handles + (IF obj.kind = "read" THEN 1 ELSE 0),
           bufs2[obj.ref].write_handles =
               bufs[obj.ref].write_handles + (IF obj.kind = "write" THEN 1 ELSE 0)
    PROVE  TableOK(WithSlot(table, i, obj), socks, bufs2)
<1> DEFINE new == WithSlot(table, i, obj)
<1>0. table \in Table /\ obj.ref \in Pipes
  BY DEF TableOK, RefOK
<1>1. /\ new \in Table /\ OpenIn(new) = OpenIn(table) \cup {i} /\ new[i] = obj
      /\ \A j \in OpenIn(table) : new[j] = table[j]
  BY <1>0, SlotFilled
<1>2. ASSUME NEW p, NEW kind
      PROVE  IF obj.kind = kind /\ obj.ref = p
             THEN /\ EndsIn(new, p, kind) = EndsIn(table, p, kind) \cup {i}
                  /\ i \notin EndsIn(table, p, kind)
             ELSE EndsIn(new, p, kind) = EndsIn(table, p, kind)
  BY <1>0, EndsFilled
<1> HIDE DEF new
<1>3. ASSUME NEW p \in Pipes, NEW kind \in PipeEnds
      PROVE  /\ IsFiniteSet(EndsIn(new, p, kind))
             /\ Cardinality(EndsIn(new, p, kind)) = Cardinality(EndsIn(table, p, kind))
                    + (IF obj.kind = kind /\ obj.ref = p THEN 1 ELSE 0)
  <2>1. IsFiniteSet(EndsIn(table, p, kind))
    BY DEF TableOK, PipeEnds
  <2>2. Cardinality(EndsIn(table, p, kind)) \in Nat
    BY <2>1, FS_CardinalityType
  <2>3. CASE obj.kind = kind /\ obj.ref = p
    BY <1>2, <2>1, <2>2, <2>3, FS_AddElement
  <2>4. CASE ~ (obj.kind = kind /\ obj.ref = p)
    BY <1>2, <2>1, <2>2, <2>4
  <2>5. QED
    BY <2>3, <2>4
<1>4. \A j \in OpenIn(new) : RefOK(new[j])
  BY <1>1 DEF TableOK
<1>5. socks = {j \in OpenIn(new) : new[j].kind = "socket"}
  BY <1>1 DEF TableOK, PipeEnds
<1>6. ASSUME NEW p \in Pipes
      PROVE  /\ IsFiniteSet(EndsIn(new, p, "read")) /\ IsFiniteSet(EndsIn(new, p, "write"))
             /\ bufs2[p].read_handles = Cardinality(EndsIn(new, p, "read"))
             /\ bufs2[p].write_handles = Cardinality(EndsIn(new, p, "write"))
  <2>1. /\ bufs[p].read_handles = Cardinality(EndsIn(table, p, "read"))
        /\ bufs[p].write_handles = Cardinality(EndsIn(table, p, "write"))
        /\ Cardinality(EndsIn(table, p, "read")) \in Nat
        /\ Cardinality(EndsIn(table, p, "write")) \in Nat
    BY FS_CardinalityType DEF TableOK
  <2>2. "read" \in PipeEnds /\ "write" \in PipeEnds
    BY DEF PipeEnds
  <2>3. /\ IsFiniteSet(EndsIn(new, p, "read")) /\ IsFiniteSet(EndsIn(new, p, "write"))
        /\ Cardinality(EndsIn(new, p, "read")) = Cardinality(EndsIn(table, p, "read"))
               + (IF obj.kind = "read" /\ obj.ref = p THEN 1 ELSE 0)
        /\ Cardinality(EndsIn(new, p, "write")) = Cardinality(EndsIn(table, p, "write"))
               + (IF obj.kind = "write" /\ obj.ref = p THEN 1 ELSE 0)
    BY <1>3, <2>2
  <2>4. QED
    BY <2>1, <2>3
<1>7. TableOK(new, socks, bufs2)
  BY <1>1, <1>4, <1>5, <1>6 DEF TableOK
<1>8. QED
  BY <1>7 DEF new

\* From bufs to bufs2, the pipe of obj has one handle less of obj's kind.
HandleLess(bufs, bufs2, obj) ==
    /\ \A p \in Pipes : p # obj.ref => bufs2[p] = bufs[p]
    /\ obj.kind \notin PipeEnds => bufs2 = bufs
    /\ obj.kind \in PipeEnds =>
          /\ bufs2[obj.ref].read_handles =
                 bufs[obj.ref].read_handles - (IF obj.kind = "read" THEN 1 ELSE 0)
          /\ bufs2[obj.ref].write_handles =
                 bufs[obj.ref].write_handles - (IF obj.kind = "write" THEN 1 ELSE 0)

\* Slot fd, which was open, is emptied.
LEMMA SlotEmptied ==
    ASSUME NEW table, NEW socks, NEW bufs, TableOK(table, socks, bufs),
           NEW fd \in OpenIn(table), NEW new \in Table,
           OpenIn(new) = OpenIn(table) \ {fd},
           \A j \in OpenIn(new) : new[j] = table[j],
           NEW bufs2 \in [Pipes -> Buffer], HandleLess(bufs, bufs2, table[fd])
    PROVE  TableOK(new, socks \ {fd}, bufs2)
<1>3. \A j \in OpenIn(new) : RefOK(new[j])
  BY DEF TableOK
<1>4. socks \ {fd} = {j \in OpenIn(new) : new[j].kind = "socket"}
  BY DEF TableOK
<1>5. ASSUME NEW p, NEW kind
      PROVE  EndsIn(new, p, kind) = EndsIn(table, p, kind) \ {fd}
  BY DEF EndsIn
<1>6. ASSUME NEW p \in Pipes, NEW kind \in PipeEnds
      PROVE  /\ IsFiniteSet(EndsIn(new, p, kind))
             /\ Cardinality(EndsIn(new, p, kind)) = Cardinality(EndsIn(table, p, kind))
                    - (IF table[fd].kind = kind /\ table[fd].ref = p THEN 1 ELSE 0)
  <2>1. IsFiniteSet(EndsIn(table, p, kind))
    BY DEF TableOK, PipeEnds
  <2>2. Cardinality(EndsIn(table, p, kind)) \in Nat
    BY <2>1, FS_CardinalityType
  <2>3. CASE table[fd].kind = kind /\ table[fd].ref = p
    <3>1. fd \in EndsIn(table, p, kind)
      BY <2>3 DEF EndsIn
    <3>2. QED
      BY <1>5, <2>1, <2>2, <2>3, <3>1, FS_RemoveElement
  <2>4. CASE ~ (table[fd].kind = kind /\ table[fd].ref = p)
    <3>1. fd \notin EndsIn(table, p, kind)
      BY <2>4 DEF EndsIn
    <3>2. EndsIn(new, p, kind) = EndsIn(table, p, kind)
      BY <1>5, <3>1
    <3>3. QED
      BY <2>1, <2>2, <2>4, <3>2
  <2>5. QED
    BY <2>3, <2>4
<1>7. ASSUME NEW p \in Pipes
      PROVE  /\ IsFiniteSet(EndsIn(new, p, "read")) /\ IsFiniteSet(EndsIn(new, p, "write"))
             /\ bufs2[p].read_handles = Cardinality(EndsIn(new, p, "read"))
             /\ bufs2[p].write_handles = Cardinality(EndsIn(new, p, "write"))
  <2>1. /\ bufs[p].read_handles = Cardinality(EndsIn(table, p, "read"))
        /\ bufs[p].write_handles = Cardinality(EndsIn(table, p, "write"))
        /\ Cardinality(EndsIn(table, p, "read")) \in Nat
        /\ Cardinality(EndsIn(table, p, "write")) \in Nat
    BY FS_CardinalityType DEF TableOK
  <2>2. "read" \in PipeEnds /\ "write" \in PipeEnds
    BY DEF PipeEnds
  <2>3. /\ IsFiniteSet(EndsIn(new, p, "read")) /\ IsFiniteSet(EndsIn(new, p, "write"))
        /\ Cardinality(EndsIn(new, p, "read")) = Cardinality(EndsIn(table, p, "read"))
               - (IF table[fd].kind = "read" /\ table[fd].ref = p THEN 1 ELSE 0)
        /\ Cardinality(EndsIn(new, p, "write")) = Cardinality(EndsIn(table, p, "write"))
               - (IF table[fd].kind = "write" /\ table[fd].ref = p THEN 1 ELSE 0)
    BY <1>6, <2>2
  <2>4. CASE table[fd].kind \in PipeEnds /\ table[fd].ref = p
    BY <2>1, <2>3, <2>4 DEF HandleLess
  <2>5. CASE ~ (table[fd].kind \in PipeEnds /\ table[fd].ref = p)
    <3>1. bufs2[p] = bufs[p] /\ ~ (table[fd].kind = "read" /\ table[fd].ref = p)
          /\ ~ (table[fd].kind = "write" /\ table[fd].ref = p)
      BY <2>2, <2>5 DEF HandleLess
    <3>2. QED
      BY <2>1, <2>3, <3>1
  <2>6. QED
    BY <2>4, <2>5
<1>8. QED
  BY <1>3, <1>4, <1>7 DEF TableOK

\* Neither the kind of a slot nor what it refers to changes, nor how many handles a
\* pipe has.
LEMMA SlotsKept ==
    ASSUME NEW table, NEW socks, NEW bufs, TableOK(table, socks, bufs),
           NEW new \in Table, NEW bufs2 \in [Pipes -> Buffer],
           OpenIn(new) = OpenIn(table),
           \A i \in OpenIn(table) : new[i].kind = table[i].kind /\ new[i].ref = table[i].ref,
           \A p \in Pipes : /\ bufs2[p].read_handles = bufs[p].read_handles
                            /\ bufs2[p].write_handles = bufs[p].write_handles
    PROVE  TableOK(new, socks, bufs2)
<1>1. \A p, kind : EndsIn(new, p, kind) = EndsIn(table, p, kind)
  BY DEF EndsIn
<1>2. \A i \in OpenIn(new) : RefOK(new[i])
  BY DEF TableOK, RefOK
<1>3. socks = {i \in OpenIn(new) : new[i].kind = "socket"}
  BY DEF TableOK
<1>4. QED
  BY <1>1, <1>2, <1>3 DEF TableOK

(***************************************************************************)
(* Steps of FileDescriptors                                                *)
(***************************************************************************)
\* The slots of AbstractFdTable that are free from `from` on.
FreeFrom(table, from) == {fd \in (1 .. MaxFiles) \ OpenIn(table) : fd >= from}

LEMMA LowestFree ==
    ASSUME NEW table \in Table, NEW from \in Nat \ {0}, MaxFiles \in Nat,
           FirstEmpty(table, from) <= MaxFiles
    PROVE  /\ FreeFrom(table, from) # {}
           /\ Min(FreeFrom(table, from)) = FirstEmpty(table, from)
<1> DEFINE i == FirstEmpty(table, from)
           S == FreeFrom(table, from)
<1>1. /\ i \in Nat /\ i >= from /\ i \notin OpenIn(table) /\ i <= MaxFiles
      /\ \A j \in from .. i - 1 : j \in OpenIn(table)
  BY FirstEmptyFound
<1> HIDE DEF i
<1>2. i \in S
  BY <1>1 DEF FreeFrom
<1>3. ASSUME NEW y \in S PROVE i <= y
  <2>1. y \in Nat /\ y >= from /\ y \notin OpenIn(table)
    BY DEF FreeFrom
  <2>2. y \notin from .. i - 1
    BY <1>1, <2>1
  <2>3. QED
    BY <1>1, <2>1, <2>2
<1>4. S \in SUBSET Nat
  BY DEF FreeFrom
<1> HIDE DEF S
<1>5. Min(S) = i
  BY <1>2, <1>3, <1>4, MinIs
<1>6. QED
  BY <1>2, <1>5 DEF S, i

\* The descriptors of an allocation are those that POSIX names.
LEMMA AllocateSeen ==
    ASSUME BoundsAssumption, files \in Table, NEW from \in 1 .. MaxFiles,
           FirstEmpty(files, from) <= MaxFiles,
           OpenSlots' = OpenSlots \cup {FirstEmpty(files, from)}, asked' = from
    PROVE  FdTable!Next
<1>1. FdTable!Free(from) = FreeFrom(files, from)
  BY DEF FdTable!Free, FreeFrom, OpenSlots, OpenIn
<1>2. /\ FreeFrom(files, from) # {}
      /\ Min(FreeFrom(files, from)) = FirstEmpty(files, from)
  <2>1. from \in Nat \ {0} /\ MaxFiles \in Nat
    BY DEF BoundsAssumption
  <2>2. QED
    BY <2>1, LowestFree
<1>3. FdTable!Allocate(from)
  BY <1>1, <1>2 DEF FdTable!Allocate, FdTable!Min, Min
<1>4. QED
  BY <1>3 DEF FdTable!Next

LEMMA AllocatePairSeen ==
    ASSUME BoundsAssumption, SlotAssumption, files \in Table, NEW obj \in Slot,
           NEW a, a = FirstEmpty(files, 1), a <= MaxFiles,
           NEW table, table = WithSlot(files, a, obj),
           NEW b, b = FirstEmpty(table, 1), b <= MaxFiles,
           OpenSlots' = OpenSlots \cup {a, b}, asked' = 1
    PROVE  FdTable!Next
<1>0. 1 \in Nat \ {0} /\ MaxFiles \in Nat /\ MaxFiles >= 1
  BY DEF BoundsAssumption
<1>1. a \in Nat /\ a >= 1 /\ a \notin OpenIn(files)
  BY <1>0, FirstEmptyFound
<1>2. table \in Table /\ OpenIn(table) = OpenIn(files) \cup {a}
  BY <1>1, SlotFilled
<1>3. /\ FreeFrom(files, 1) # {} /\ Min(FreeFrom(files, 1)) = a
      /\ FreeFrom(table, 1) # {} /\ Min(FreeFrom(table, 1)) = b
  BY <1>0, <1>2, LowestFree
<1>4. FdTable!Free(0) = FreeFrom(files, 1)
  BY DEF FdTable!Free, FreeFrom, OpenSlots, OpenIn
<1>5. FreeFrom(files, 1) \ {a} = FreeFrom(table, 1)
  BY <1>2 DEF FreeFrom
<1>6. Min(1 .. MaxFiles) = 1
  <2>1. 1 .. MaxFiles \in SUBSET Nat /\ 1 \in 1 .. MaxFiles /\ \A y \in 1 .. MaxFiles : 1 <= y
    BY <1>0
  <2>2. QED
    BY <2>1, MinIs
<1>7. FdTable!AllocatePair
  <2>1. /\ FdTable!Min(FdTable!Free(0)) = a
        /\ FdTable!Min(FdTable!Free(0) \ {a}) = b
        /\ FdTable!Min(1 .. MaxFiles) = 1
    BY <1>3, <1>4, <1>5, <1>6 DEF FdTable!Min, Min
  <2>2. FdTable!Free(0) # {} /\ FdTable!Free(0) \ {a} # {}
    BY <1>3, <1>4, <1>5
  <2>3. QED
    BY <2>1, <2>2 DEF FdTable!AllocatePair
<1>8. QED
  BY <1>7 DEF FdTable!Next

\* What a step does to what AbstractFdTable sees.
Seen == FdTable!Next \/ UNCHANGED <<OpenSlots, asked>>

\* One slot is filled, the first empty one from `from` on.
LEMMA PutSeen ==
    ASSUME BoundsAssumption, SlotAssumption, FdInv, NEW from \in 1 .. MaxFiles,
           NEW i, i = FirstEmpty(files, from), i <= MaxFiles, NEW obj \in Slot,
           files' = WithSlot(files, i, obj), asked' = from
    PROVE  /\ i \in 1 .. MaxFiles /\ i \notin OpenIn(files)
           /\ files' \in Table /\ Len(files') <= MaxFiles
           /\ FdTable!Next
<1>1. files \in Table /\ Len(files) <= MaxFiles /\ MaxFiles \in Nat /\ from \in Nat \ {0}
  BY DEF FdInv, TypeOK, Table, BoundsAssumption
<1>2. i \in Nat /\ i >= from /\ i \notin OpenIn(files)
  BY <1>1, FirstEmptyFound
<1>3. files \in Table /\ i \in Nat \ {0} /\ obj \in Slot
  BY <1>1, <1>2
<1>4. /\ files' \in Table /\ Len(files') = IF i >= Len(files) THEN i ELSE Len(files)
      /\ OpenIn(files') = OpenIn(files) \cup {i}
  BY <1>3, SlotFilledAs
<1>5. OpenSlots' = OpenSlots \cup {i}
  BY <1>4 DEF OpenSlots, OpenIn
<1>6. FdTable!Next
  BY <1>1, <1>5, AllocateSeen
<1>7. QED
  BY <1>1, <1>2, <1>3, <1>4, <1>6

\* A call that opens and closes nothing.
LEMMA OtherSeen ==
    ASSUME asked' = 0, OpenSlots' = OpenSlots
    PROVE  Seen
BY DEF Seen, FdTable!Next, FdTable!OtherCall

LEMMA PlainSlot ==
    ASSUME NEW kind \in Seekable \cup PipeEnds \cup {"socket"},
           NEW ref \in Cursors \cup Pipes \cup {NoRef}
    PROVE  /\ Plain(kind, ref) \in Slot
           /\ Plain(kind, ref).kind = kind /\ Plain(kind, ref).ref = ref
BY DEF Plain, Slot

LEMMA OpenKept ==
    ASSUME BoundsAssumption, SlotAssumption, FdInv,
           NEW kind \in Seekable, NEW w \in BOOLEAN, NEW n \in BOOLEAN, open(kind, w, n)
    PROVE  FdInv' /\ Seen
<1>1. PICK c \in FreeCursors :
          /\ find_or_create_fd([Plain(kind, c) EXCEPT !.writable = w,
                                   !.needs_flush = w, !.nonblock = n])
          /\ position' = [position EXCEPT ![c] = 0]
          /\ unsynced' = unsynced \ {c}
  BY DEF open
<1>2. c \in Cursors
  BY DEF FreeCursors
<1> DEFINE obj == [Plain(kind, c) EXCEPT !.writable = w, !.needs_flush = w, !.nonblock = n]
           i == FirstEmpty(files, 1)
<1>3. obj \in Slot /\ obj.kind = kind /\ obj.ref = c
  BY <1>2 DEF Plain, Slot
<1>4. RefOK(obj) /\ obj.kind \notin PipeEnds /\ obj.kind # "socket"
  BY <1>2, <1>3 DEF RefOK, Seekable, PipeEnds
<1>5. /\ i <= MaxFiles /\ files' = WithSlot(files, i, obj) /\ asked' = 1
      /\ UNCHANGED <<sockets, pipes>>
  BY <1>1 DEF find_or_create_fd, open
<1> HIDE DEF obj, i
<1>6. 1 \in 1 .. MaxFiles
  BY DEF BoundsAssumption
<1>7. /\ i \in 1 .. MaxFiles /\ i \notin OpenIn(files)
      /\ files' \in Table /\ Len(files') <= MaxFiles /\ FdTable!Next
  BY <1>3, <1>5, <1>6, PutSeen DEF i
<1>8. TableOK(files', sockets', pipes')
  <2>1. i \in Nat \ {0} /\ i \notin OpenIn(files) /\ TableOK(files, sockets, pipes)
    BY <1>7 DEF BoundsAssumption, FdInv
  <2>2. TableOK(WithSlot(files, i, obj),
                IF obj.kind = "socket" THEN sockets \cup {i} ELSE sockets, pipes)
    BY <1>3, <1>4, <2>1, FilePut
  <2>3. QED
    BY <1>4, <1>5, <2>2
<1>9. TypeOK'
  BY <1>1, <1>2, <1>5, <1>6, <1>7, <1>8 DEF FdInv, TypeOK, Table, BoundsAssumption
<1>10. QED
  BY <1>7, <1>8, <1>9 DEF FdInv, Seen

LEMMA SocketKept ==
    ASSUME BoundsAssumption, SlotAssumption, FdInv, socket
    PROVE  FdInv' /\ Seen
<1> DEFINE obj == Plain("socket", NoRef)
           i == FirstEmpty(files, 1)
<1>1. obj \in Slot /\ obj.kind = "socket" /\ obj.ref = NoRef
  BY PlainSlot
<1>2. RefOK(obj) /\ obj.kind \notin PipeEnds
  BY <1>1 DEF RefOK, Seekable, PipeEnds
<1>3. /\ i <= MaxFiles /\ files' = WithSlot(files, i, obj) /\ asked' = 1
      /\ sockets' = sockets \cup {i} /\ UNCHANGED <<position, unsynced, pipes>>
  BY DEF find_or_create_fd, socket
<1> HIDE DEF obj, i
<1>4. 1 \in 1 .. MaxFiles
  BY DEF BoundsAssumption
<1>5. /\ i \in 1 .. MaxFiles /\ i \notin OpenIn(files)
      /\ files' \in Table /\ Len(files') <= MaxFiles /\ FdTable!Next
  BY <1>1, <1>3, <1>4, PutSeen DEF i
<1>6. TableOK(files', sockets', pipes')
  <2>1. i \in Nat \ {0} /\ i \notin OpenIn(files) /\ TableOK(files, sockets, pipes)
    BY <1>5 DEF BoundsAssumption, FdInv
  <2>2. TableOK(WithSlot(files, i, obj),
                IF obj.kind = "socket" THEN sockets \cup {i} ELSE sockets, pipes)
    BY <1>1, <1>2, <2>1, FilePut
  <2>3. QED
    BY <1>1, <1>3, <2>2
<1>7. TypeOK'
  BY <1>3, <1>4, <1>5 DEF FdInv, TypeOK, Table, BoundsAssumption
<1>8. QED
  BY <1>5, <1>6, <1>7 DEF FdInv, Seen

LEMMA PipeKept ==
    ASSUME BoundsAssumption, SlotAssumption, FdInv, pipe
    PROVE  FdInv' /\ Seen
<1>1. PICK p \in FreePipes :
         LET withRead == WithSlot(files, FirstEmpty(files, 1), Plain("read", p))
             withBoth == WithSlot(withRead, FirstEmpty(withRead, 1), Plain("write", p))
         IN  /\ Len(withBoth) <= MaxFiles
             /\ files' = withBoth
             /\ asked' = 1
             /\ pipes' = [pipes EXCEPT ![p] =
                   [bytes |-> 0, read_handles |-> 1, write_handles |-> 1]]
  BY DEF pipe
<1> DEFINE r == Plain("read", p)
           w == Plain("write", p)
           a == FirstEmpty(files, 1)
           table == WithSlot(files, a, r)
           b == FirstEmpty(table, 1)
           both == WithSlot(table, b, w)
           half == [pipes EXCEPT ![p] = [bytes |-> 0, read_handles |-> 1, write_handles |-> 0]]
<1>2. /\ Len(both) <= MaxFiles /\ files' = both /\ asked' = 1
      /\ pipes' = [pipes EXCEPT ![p] =
                      [bytes |-> 0, read_handles |-> 1, write_handles |-> 1]]
      /\ UNCHANGED <<sockets, position, unsynced>>
  BY <1>1 DEF pipe
<1>3. /\ p \in Pipes /\ \A k : EndsIn(files, p, k) = {}
      /\ pipes \in [Pipes -> Buffer] /\ TableOK(files, sockets, pipes)
      /\ files \in Table /\ Len(files) <= MaxFiles /\ MaxFiles \in Nat /\ MaxFiles >= 1
  BY DEF FreePipes, EndsIn, OpenIn, OpenSlots, FdInv, TypeOK, Table, BoundsAssumption
<1>4. /\ r \in Slot /\ r.kind = "read" /\ r.ref = p /\ RefOK(r) /\ r.kind \in PipeEnds
      /\ w \in Slot /\ w.kind = "write" /\ w.ref = p /\ RefOK(w) /\ w.kind \in PipeEnds
  <2>1. p \in Cursors \cup Pipes \cup {NoRef} /\ "read" \in PipeEnds /\ "write" \in PipeEnds
    BY <1>3 DEF PipeEnds
  <2>2. /\ r \in Slot /\ r.kind = "read" /\ r.ref = p
        /\ w \in Slot /\ w.kind = "write" /\ w.ref = p
    BY <2>1, PlainSlot
  <2> HIDE DEF r, w
  <2>3. QED
    BY <1>3, <2>1, <2>2 DEF RefOK, Seekable
<1> HIDE DEF r, w
<1>5. a \in Nat \ {0} /\ a \notin OpenIn(files)
  <2>1. 1 \in Nat \ {0}
    OBVIOUS
  <2>2. a \in Nat /\ a >= 1 /\ a \notin OpenIn(files)
    BY <1>3, <2>1, FirstEmptyFound
  <2>3. QED
    BY <2>2
<1> HIDE DEF a
<1>t. table = WithSlot(files, a, r)
  OBVIOUS
<1> HIDE DEF table
<1>6. /\ table \in Table /\ Len(table) >= a /\ Len(table) \in Nat
      /\ OpenIn(table) = OpenIn(files) \cup {a}
  <2>1. /\ table \in Table /\ Len(table) = IF a >= Len(files) THEN a ELSE Len(files)
        /\ OpenIn(table) = OpenIn(files) \cup {a}
    <3>1. files \in Table /\ a \in Nat \ {0} /\ r \in Slot
      BY <1>3, <1>4, <1>5
    <3>2. QED
      BY <1>t, <3>1, SlotFilledAs
  <2>2. Len(files) \in Nat
    BY <1>3 DEF Table
  <2>3. QED
    BY <1>5, <2>1, <2>2
<1>7. b \in Nat \ {0} /\ b \notin OpenIn(table)
  <2>1. 1 \in Nat \ {0}
    OBVIOUS
  <2>2. b \in Nat /\ b >= 1 /\ b \notin OpenIn(table)
    BY <1>6, <2>1, FirstEmptyFound
  <2>3. QED
    BY <2>2
<1> HIDE DEF b
<1>u. both = WithSlot(table, b, w)
  OBVIOUS
<1> HIDE DEF both
<1>8. /\ both \in Table /\ Len(both) >= b /\ Len(both) >= Len(table) /\ Len(both) \in Nat
      /\ OpenIn(both) = OpenIn(table) \cup {b}
  <2>1. /\ both \in Table /\ Len(both) = IF b >= Len(table) THEN b ELSE Len(table)
        /\ OpenIn(both) = OpenIn(table) \cup {b}
    <3>1. table \in Table /\ b \in Nat \ {0} /\ w \in Slot
      BY <1>4, <1>6, <1>7
    <3>2. QED
      BY <1>u, <3>1, SlotFilledAs
  <2>2. QED
    BY <1>6, <1>7, <2>1
<1>9. a <= MaxFiles /\ b <= MaxFiles
  BY <1>2, <1>3, <1>5, <1>6, <1>7, <1>8
<1>10. FdTable!Next
  <2>1. OpenSlots' = OpenSlots \cup {a, b}
    BY <1>2, <1>6, <1>8 DEF OpenSlots, OpenIn
  <2>2. QED
    BY <1>2, <1>3, <1>4, <1>9, <2>1, AllocatePairSeen DEF a, b, table
<1>11. pipes[p].read_handles = 0 /\ pipes[p].write_handles = 0
  BY <1>3, FS_EmptySet DEF TableOK
<1>12. TableOK(table, sockets, half)
  <2>1. /\ half \in [Pipes -> Buffer] /\ \A q \in Pipes \ {p} : half[q] = pipes[q]
        /\ half[p].read_handles = 1 /\ half[p].write_handles = 0
    BY <1>3 DEF Buffer, BoundsAssumption
  <2> HIDE DEF half
  <2>2. /\ half[r.ref].read_handles =
               pipes[r.ref].read_handles + (IF r.kind = "read" THEN 1 ELSE 0)
        /\ half[r.ref].write_handles =
               pipes[r.ref].write_handles + (IF r.kind = "write" THEN 1 ELSE 0)
    BY <1>4, <1>11, <2>1
  <2>3. QED
    BY <1>3, <1>4, <1>5, <2>1, <2>2, EndPut DEF table
<1>13. TableOK(files', sockets', pipes')
  <2>1. /\ pipes' \in [Pipes -> Buffer] /\ \A q \in Pipes \ {p} : pipes'[q] = half[q]
        /\ pipes'[p].read_handles = 1 /\ pipes'[p].write_handles = 1
        /\ half[p].read_handles = 1 /\ half[p].write_handles = 0
    BY <1>2, <1>3 DEF Buffer, BoundsAssumption
  <2> HIDE DEF half
  <2>2. /\ pipes'[w.ref].read_handles =
               half[w.ref].read_handles + (IF w.kind = "read" THEN 1 ELSE 0)
        /\ pipes'[w.ref].write_handles =
               half[w.ref].write_handles + (IF w.kind = "write" THEN 1 ELSE 0)
    BY <1>4, <2>1
  <2>3. TableOK(both, sockets, pipes')
    BY <1>4, <1>7, <1>12, <2>1, <2>2, EndPut DEF both
  <2>4. QED
    BY <1>2, <2>3
<1>14. TypeOK'
  BY <1>2, <1>3, <1>8, <1>13 DEF FdInv, TypeOK, Table, TableOK
<1>15. QED
  BY <1>10, <1>13, <1>14 DEF FdInv, Seen

\* An open slot has a kind and refers to what that kind refers to.
LEMMA OpenSlot ==
    ASSUME BoundsAssumption, FdInv, NEW fd \in OpenSlots
    PROVE  /\ fd \in OpenIn(files) /\ fd \in DOMAIN files /\ fd \in 1 .. MaxFiles
           /\ files[fd] \in Slot /\ RefOK(files[fd])
<1>1. fd \in OpenIn(files) /\ fd \in DOMAIN files /\ files[fd] # Closed
  BY DEF OpenSlots, OpenIn
<1>2. DOMAIN files = 1 .. Len(files) /\ files[fd] \in Slot \cup {Closed}
      /\ Len(files) \in Nat /\ Len(files) <= MaxFiles /\ MaxFiles \in Nat
  BY <1>1 DEF FdInv, TypeOK, BoundsAssumption
<1>3. RefOK(files[fd])
  BY <1>1 DEF FdInv, TableOK
<1>4. QED
  BY <1>1, <1>2, <1>3

LEMMA DuplicateKept ==
    ASSUME BoundsAssumption, SlotAssumption, FdInv, NEW fd \in 1 .. MaxFiles,
           NEW min_fd \in 0 .. (Base + MaxFiles - 1), F_DUPFD(fd, min_fd)
    PROVE  FdInv' /\ Seen
<1> DEFINE from == fd_to_file_idx(min_fd)
           i == FirstEmpty(files, from)
<1>1. PICK ref \in Cursors \cup Pipes :
          /\ try_clone(files[fd], ref)
          /\ asked' = from /\ i <= MaxFiles
          /\ files' = WithSlot(files, i, [files[fd] EXCEPT !.ref = ref, !.needs_flush = FALSE])
  BY DEF F_DUPFD
<1> DEFINE old == files[fd]
           obj == [old EXCEPT !.ref = ref, !.needs_flush = FALSE]
<1>2. UNCHANGED sockets /\ fd \in OpenSlots
  BY DEF F_DUPFD
<1>3. old \in Slot /\ RefOK(old)
  BY <1>2, OpenSlot
<1> HIDE DEF old
<1>4. obj \in Slot /\ obj.kind = old.kind /\ obj.ref = ref
  BY <1>3 DEF Slot
<1>5. from \in 1 .. MaxFiles
  BY DEF fd_to_file_idx, BoundsAssumption
<1>6. try_clone(old, ref) /\ asked' = from /\ i <= MaxFiles /\ files' = WithSlot(files, i, obj)
  BY <1>1 DEF old
<1> HIDE DEF obj, from
<1>7. /\ i \in 1 .. MaxFiles /\ i \notin OpenIn(files)
      /\ files' \in Table /\ Len(files') <= MaxFiles /\ FdTable!Next
  BY <1>4, <1>5, <1>6, PutSeen
<1> HIDE DEF i
<1>8. /\ i \in Nat \ {0} /\ i \notin OpenIn(files) /\ TableOK(files, sockets, pipes)
      /\ position \in [Cursors -> 0 .. MaxPosition] /\ pipes \in [Pipes -> Buffer]
      /\ unsynced \subseteq Cursors
  BY <1>7 DEF BoundsAssumption, FdInv, TypeOK
<1>9. CASE old.kind \in {"file", "bundle"}
  <2>1. ref \in Cursors /\ UNCHANGED pipes /\ unsynced' \subseteq unsynced
        /\ position' \in [Cursors -> 0 .. MaxPosition]
    <3>1. CASE old.kind = "file"
      BY <1>3, <1>6, <1>8, <3>1 DEF try_clone, RefOK, Seekable
    <3>2. CASE old.kind = "bundle"
      <4>1. /\ ref \in FreeCursors /\ unsynced' = unsynced \ {ref} /\ UNCHANGED pipes
            /\ position' = [position EXCEPT ![ref] = position[old.ref]]
        BY <1>6, <3>2 DEF try_clone
      <4>2. old.ref \in Cursors /\ ref \in Cursors
        BY <1>3, <3>2, <4>1 DEF RefOK, Seekable, FreeCursors
      <4>3. QED
        BY <1>8, <4>1, <4>2
    <3>3. QED
      BY <1>9, <3>1, <3>2
  <2>2. RefOK(obj) /\ obj.kind \notin PipeEnds /\ obj.kind # "socket"
    BY <1>4, <1>9, <2>1 DEF RefOK, Seekable, PipeEnds
  <2>3. TableOK(WithSlot(files, i, obj),
                IF obj.kind = "socket" THEN sockets \cup {i} ELSE sockets, pipes)
    BY <1>4, <1>8, <2>2, FilePut
  <2>4. TableOK(files', sockets', pipes')
    BY <1>2, <1>6, <2>1, <2>2, <2>3
  <2>5. TypeOK'
    BY <1>2, <1>5, <1>6, <1>7, <1>8, <2>1 DEF FdInv, TypeOK, Table
  <2>6. QED
    BY <1>7, <2>4, <2>5 DEF FdInv, Seen
<1>10. CASE old.kind \in PipeEnds
  <2>1. /\ ref = old.ref /\ ref \in Pipes /\ UNCHANGED <<position, unsynced>>
        /\ pipes' = IF old.kind = "read"
                    THEN [pipes EXCEPT ![ref].read_handles = @ + 1]
                    ELSE [pipes EXCEPT ![ref].write_handles = @ + 1]
    <3>1. CASE old.kind = "read"
      BY <1>3, <1>6, <3>1 DEF try_clone, RefOK, PipeEnds
    <3>2. CASE old.kind = "write"
      BY <1>3, <1>6, <3>2 DEF try_clone, RefOK, PipeEnds
    <3>3. QED
      BY <1>10, <3>1, <3>2 DEF PipeEnds
  <2>2. RefOK(obj) /\ obj.kind \in PipeEnds
    BY <1>4, <1>10, <2>1 DEF RefOK, Seekable, PipeEnds
  <2>3. /\ pipes' \in [Pipes -> Buffer] /\ \A q \in Pipes \ {ref} : pipes'[q] = pipes[q]
        /\ pipes'[ref].read_handles =
               pipes[ref].read_handles + (IF old.kind = "read" THEN 1 ELSE 0)
        /\ pipes'[ref].write_handles =
               pipes[ref].write_handles + (IF old.kind = "write" THEN 1 ELSE 0)
    <3>1. pipes[ref] \in Buffer
      BY <1>8, <2>1
    <3>2. CASE old.kind = "read"
      BY <1>8, <2>1, <3>1, <3>2 DEF Buffer
    <3>3. CASE old.kind = "write"
      BY <1>8, <2>1, <3>1, <3>3 DEF Buffer
    <3>4. QED
      BY <1>10, <3>2, <3>3 DEF PipeEnds
  <2>4. TableOK(WithSlot(files, i, obj), sockets, pipes')
    BY <1>4, <1>8, <2>2, <2>3, EndPut
  <2>5. TableOK(files', sockets', pipes')
    BY <1>2, <1>6, <2>4
  <2>6. TypeOK'
    BY <1>2, <1>5, <1>6, <1>7, <1>8, <2>1, <2>3 DEF FdInv, TypeOK, Table
  <2>7. QED
    BY <1>7, <2>5, <2>6 DEF FdInv, Seen
<1>11. old.kind \in {"file", "bundle"} \/ old.kind \in PipeEnds
  BY <1>6 DEF try_clone, PipeEnds
<1>12. QED
  BY <1>9, <1>10, <1>11

LEMMA FlagsKept ==
    ASSUME BoundsAssumption, SlotAssumption, FdInv, NEW fd \in 1 .. MaxFiles,
           NEW n \in BOOLEAN, F_SETFL(fd, n)
    PROVE  FdInv' /\ Seen
<1>1. /\ files' = [files EXCEPT ![fd].nonblock = n] /\ asked' = 0
      /\ fd \in OpenSlots /\ UNCHANGED <<sockets, position, unsynced, pipes>>
  BY DEF F_SETFL
<1>2. fd \in DOMAIN files /\ files[fd] \in Slot /\ files \in Table
  BY <1>1, OpenSlot DEF FdInv, TableOK
<1> DEFINE obj == [files[fd] EXCEPT !.nonblock = n]
<1>3. obj \in Slot /\ obj # Closed /\ obj.kind = files[fd].kind /\ obj.ref = files[fd].ref
  BY <1>2 DEF Slot, SlotAssumption
<1>4. files' = [files EXCEPT ![fd] = obj]
  BY <1>1
<1> HIDE DEF obj
<1>5. /\ files' \in Table /\ Len(files') = Len(files) /\ DOMAIN files' = DOMAIN files
      /\ files'[fd] = obj /\ \A j \in DOMAIN files \ {fd} : files'[j] = files[j]
  BY <1>2, <1>3, <1>4 DEF Table
<1>6. OpenSlots' = OpenSlots /\ OpenIn(files') = OpenIn(files) /\ fd \in OpenIn(files)
  BY <1>1, <1>3, <1>5 DEF OpenSlots, OpenIn
<1>7. TableOK(files, sockets, pipes) /\ pipes \in [Pipes -> Buffer]
  BY DEF FdInv, TypeOK
<1>8. TableOK(files', sockets, pipes)
  <2>1. \A i \in OpenIn(files) :
            files'[i].kind = files[i].kind /\ files'[i].ref = files[i].ref
    BY <1>3, <1>5 DEF OpenIn
  <2>2. QED
    BY <1>5, <1>6, <1>7, <2>1, SlotsKept
<1>9. TypeOK'
  BY <1>1, <1>5 DEF FdInv, TypeOK, Table, BoundsAssumption
<1>10. QED
  BY <1>1, <1>6, <1>8, <1>9, OtherSeen DEF FdInv

\* Bytes go through the files and pipes that are open.
LEMMA TransferKept ==
    ASSUME BoundsAssumption, SlotAssumption, FdInv, NEW fd \in 1 .. MaxFiles,
           \/ read(fd) \/ write(fd) \/ fsync(fd)
           \/ \E to \in 0 .. MaxPosition : lseek(fd, to)
    PROVE  FdInv' /\ Seen
<1>1. fd \in OpenSlots /\ asked' = 0 /\ UNCHANGED <<files, sockets>>
  BY DEF read, write, fsync, lseek
<1>2. files[fd] \in Slot /\ RefOK(files[fd])
  BY <1>1, OpenSlot
<1>3. /\ position \in [Cursors -> 0 .. MaxPosition] /\ unsynced \subseteq Cursors
      /\ pipes \in [Pipes -> Buffer] /\ TableOK(files, sockets, pipes)
      /\ MaxPosition \in Nat /\ MaxBytes \in Nat
  BY DEF FdInv, TypeOK, BoundsAssumption
<1>4. /\ files[fd].kind \in Seekable => files[fd].ref \in Cursors
      /\ files[fd].kind \in PipeEnds =>
            /\ files[fd].ref \in Pipes
            /\ pipes[files[fd].ref] \in Buffer
  BY <1>2, <1>3 DEF RefOK
<1>5. position' \in [Cursors -> 0 .. MaxPosition]
  <2>1. ASSUME NEW c \in Cursors, NEW v \in 0 .. MaxPosition,
               position' = [position EXCEPT ![c] = v]
        PROVE  position' \in [Cursors -> 0 .. MaxPosition]
    BY <1>3, <2>1
  <2>2. ASSUME files[fd].kind \in Seekable, position[files[fd].ref] < MaxPosition,
               position' = [position EXCEPT ![files[fd].ref] = @ + 1]
        PROVE  position' \in [Cursors -> 0 .. MaxPosition]
    <3>1. position[files[fd].ref] + 1 \in 0 .. MaxPosition
      BY <1>3, <1>4, <2>2
    <3>2. QED
      BY <1>4, <2>1, <2>2, <3>1
  <2>3. CASE UNCHANGED position
    BY <1>3, <2>3
  <2>4. "file" \in Seekable
    BY DEF Seekable
  <2>5. QED
    BY <1>4, <2>1, <2>2, <2>3, <2>4 DEF read, write, fsync, lseek
<1>6. unsynced' \subseteq Cursors
  BY <1>3, <1>4 DEF read, write, fsync, lseek, Seekable
<1>7. /\ pipes' \in [Pipes -> Buffer]
      /\ \A p \in Pipes : /\ pipes'[p].read_handles = pipes[p].read_handles
                          /\ pipes'[p].write_handles = pipes[p].write_handles
  <2>1. ASSUME NEW p \in Pipes, NEW n \in 0 .. MaxBytes,
               pipes' = [pipes EXCEPT ![p].bytes = n]
        PROVE  <1>7!:
    <3>1. [pipes[p] EXCEPT !.bytes = n] \in Buffer
      BY <1>3 DEF Buffer
    <3>2. QED
      BY <1>3, <2>1, <3>1 DEF Buffer
  <2>2. CASE UNCHANGED pipes
    BY <1>3, <2>2
  <2>3. ASSUME files[fd].kind = "read", pipes[files[fd].ref].bytes > 0,
               pipes' = [pipes EXCEPT ![files[fd].ref].bytes = @ - 1]
        PROVE  <1>7!:
    <3>1. pipes[files[fd].ref].bytes - 1 \in 0 .. MaxBytes /\ files[fd].ref \in Pipes
      BY <1>3, <1>4, <2>3 DEF Buffer, PipeEnds
    <3>2. QED
      BY <2>1, <2>3, <3>1
  <2>4. ASSUME files[fd].kind = "write", pipes[files[fd].ref].bytes < MaxBytes,
               pipes' = [pipes EXCEPT ![files[fd].ref].bytes = @ + 1]
        PROVE  <1>7!:
    <3>1. pipes[files[fd].ref].bytes + 1 \in 0 .. MaxBytes /\ files[fd].ref \in Pipes
      BY <1>3, <1>4, <2>4 DEF Buffer, PipeEnds
    <3>2. QED
      BY <2>1, <2>4, <3>1
  <2>5. QED
    BY <2>2, <2>3, <2>4 DEF read, write, fsync, lseek
<1>8. TableOK(files', sockets', pipes')
  <2>1. files \in Table
    BY <1>3 DEF TableOK
  <2>2. TableOK(files, sockets, pipes')
    BY <1>3, <1>7, <2>1, SlotsKept
  <2>3. QED
    BY <1>1, <2>2
<1>9. TypeOK'
  BY <1>1, <1>5, <1>6, <1>7 DEF FdInv, TypeOK, BoundsAssumption
<1>10. OpenSlots' = OpenSlots
  BY <1>1 DEF OpenSlots
<1>11. QED
  BY <1>1, <1>8, <1>9, <1>10, OtherSeen DEF FdInv

LEMMA CloseKept ==
    ASSUME BoundsAssumption, SlotAssumption, FdInv, NEW fd \in 1 .. MaxFiles, close(fd)
    PROVE  FdInv' /\ Seen
<1> DEFINE old == files[fd]
<1>1. /\ fd \in OpenSlots /\ files' = [files EXCEPT ![fd] = Closed]
      /\ close_pipe_endpoint(old) /\ asked' = 0 /\ UNCHANGED position
      /\ sockets' = IF old.kind = "socket" THEN sockets \ {fd} ELSE sockets
      /\ unsynced' \subseteq unsynced
  BY DEF close
<1>2. old \in Slot /\ RefOK(old) /\ fd \in OpenIn(files)
  BY <1>1, OpenSlot
<1>3. /\ TableOK(files, sockets, pipes) /\ pipes \in [Pipes -> Buffer]
      /\ files \in Table
  BY DEF FdInv, TypeOK, TableOK
<1>4. pipes' \in [Pipes -> Buffer] /\ HandleLess(pipes, pipes', old)
  <2>1. CASE old.kind \in PipeEnds
    <3> DEFINE r == old.ref
    <3>1. /\ r \in Pipes /\ pipes[r] \in Buffer
          /\ pipes[r].read_handles \in Nat /\ pipes[r].write_handles \in Nat
      BY <1>2, <1>3, <2>1 DEF RefOK, Buffer
    <3>2. /\ old.kind = "read" => pipes[r].read_handles > 0
          /\ old.kind = "write" => pipes[r].write_handles > 0
      <4>1. ASSUME NEW kind \in PipeEnds, old.kind = kind
            PROVE  Cardinality(EndsIn(files, r, kind)) > 0
        <5>1. fd \in EndsIn(files, r, kind)
          BY <1>2, <4>1 DEF EndsIn
        <5>2. IsFiniteSet(EndsIn(files, r, kind))
          BY <1>3, <3>1 DEF TableOK, PipeEnds
        <5>3. /\ Cardinality(EndsIn(files, r, kind)) \in Nat
              /\ Cardinality(EndsIn(files, r, kind)) = 0 <=> EndsIn(files, r, kind) = {}
          BY <5>2, FS_CardinalityType, FS_EmptySet
        <5>4. QED
          BY <5>1, <5>3
      <4>2. QED
        BY <1>3, <2>1, <3>1, <4>1 DEF TableOK, PipeEnds
    <3>3. \A n \in Nat : n > 0 => Max({1, n}) - 1 = n - 1
      BY MaxOfTwo
    <3>4. CASE old.kind = "read"
      <4>1. pipes' = [pipes EXCEPT ![r].read_handles = @ - 1]
        <5>1. pipes' = [pipes EXCEPT ![r].read_handles = Max({1, @}) - 1]
          BY <1>1, <3>4 DEF close_pipe_endpoint
        <5>2. Max({1, pipes[r].read_handles}) - 1 = pipes[r].read_handles - 1
          BY <3>1, <3>2, <3>3, <3>4
        <5>3. QED
          BY <5>1, <5>2
      <4>2. QED
        BY <1>3, <2>1, <3>1, <3>2, <3>4, <4>1 DEF Buffer, HandleLess, PipeEnds
    <3>5. CASE old.kind = "write"
      <4>1. pipes' = [pipes EXCEPT ![r].write_handles = @ - 1]
        <5>1. pipes' = [pipes EXCEPT ![r].write_handles = Max({1, @}) - 1]
          BY <1>1, <3>5 DEF close_pipe_endpoint
        <5>2. Max({1, pipes[r].write_handles}) - 1 = pipes[r].write_handles - 1
          BY <3>1, <3>2, <3>3, <3>5
        <5>3. QED
          BY <5>1, <5>2
      <4>2. QED
        BY <1>3, <2>1, <3>1, <3>2, <3>5, <4>1 DEF Buffer, HandleLess, PipeEnds
    <3>6. QED
      BY <2>1, <3>4, <3>5 DEF PipeEnds
  <2>2. CASE old.kind \notin PipeEnds
    <3>1. pipes' = pipes
      BY <1>1, <2>2 DEF close_pipe_endpoint, PipeEnds
    <3>2. QED
      BY <1>3, <2>2, <3>1 DEF HandleLess
  <2>3. QED
    BY <2>1, <2>2
<1>5. /\ TableOK(files', sockets', pipes') /\ OpenIn(files') = OpenIn(files) \ {fd}
      /\ Len(files') = Len(files)
  <2>1. /\ files' \in Table /\ Len(files') = Len(files) /\ DOMAIN files' = DOMAIN files
        /\ files'[fd] = Closed /\ \A j \in DOMAIN files \ {fd} : files'[j] = files[j]
    BY <1>1, <1>2, <1>3 DEF Table, OpenIn
  <2>2. /\ OpenIn(files') = OpenIn(files) \ {fd}
        /\ \A j \in OpenIn(files') : files'[j] = files[j]
    BY <2>1 DEF OpenIn
  <2>3. TableOK(files', sockets \ {fd}, pipes')
    BY <1>2, <1>3, <1>4, <2>1, <2>2, SlotEmptied
  <2>4. sockets' = sockets \ {fd}
    BY <1>1, <1>3 DEF TableOK
  <2>5. QED
    BY <2>1, <2>2, <2>3, <2>4
<1>6. TypeOK'
  BY <1>1, <1>4, <1>5 DEF FdInv, TypeOK, TableOK, Table, BoundsAssumption
<1>7. FdTable!Close(fd)
  <2>1. OpenSlots' = OpenSlots \ {fd}
    BY <1>5 DEF OpenSlots, OpenIn
  <2>2. QED
    BY <1>1, <2>1 DEF FdTable!Close
<1>8. QED
  BY <1>1, <1>5, <1>6, <1>7 DEF FdInv, Seen, FdTable!Next

LEMMA FdStep ==
    ASSUME BoundsAssumption, SlotAssumption, FdInv, [Next]_vars
    PROVE  FdInv' /\ Seen
<1>1. ASSUME NEW kind \in Seekable, NEW w \in BOOLEAN, NEW n \in BOOLEAN, open(kind, w, n)
      PROVE  FdInv' /\ Seen
  BY <1>1, OpenKept
<1>2. CASE socket
  BY <1>2, SocketKept
<1>3. CASE pipe
  BY <1>3, PipeKept
<1>4. ASSUME NEW fd \in 1 .. MaxFiles, NEW min_fd \in 0 .. (Base + MaxFiles - 1),
             F_DUPFD(fd, min_fd)
      PROVE  FdInv' /\ Seen
  BY <1>4, DuplicateKept
<1>5. ASSUME NEW fd \in 1 .. MaxFiles, NEW n \in BOOLEAN, F_SETFL(fd, n)
      PROVE  FdInv' /\ Seen
  BY <1>5, FlagsKept
<1>6. ASSUME NEW fd \in 1 .. MaxFiles,
             \/ read(fd) \/ write(fd) \/ fsync(fd)
             \/ \E to \in 0 .. MaxPosition : lseek(fd, to)
      PROVE  FdInv' /\ Seen
  BY <1>6, TransferKept
<1>7. ASSUME NEW fd \in 1 .. MaxFiles, close(fd) PROVE FdInv' /\ Seen
  BY <1>7, CloseKept
<1>8. CASE UNCHANGED vars
  BY <1>8 DEF vars, FdInv, TypeOK, Seen, OpenSlots
<1>9. QED
  BY <1>1, <1>2, <1>3, <1>4, <1>5, <1>6, <1>7, <1>8 DEF Next

LEMMA FdInit ==
    ASSUME BoundsAssumption, Init
    PROVE  FdInv /\ FdTable!Init
<1>1. files = <<>> /\ sockets = {} /\ asked = 0 /\ DOMAIN files = {} /\ Len(files) = 0
  BY DEF Init
<1>2. OpenIn(files) = {} /\ OpenSlots = {}
  BY <1>1 DEF OpenIn, OpenSlots
<1>3. /\ pipes \in [Pipes -> Buffer]
      /\ \A p \in Pipes : pipes[p].read_handles = 0 /\ pipes[p].write_handles = 0
  BY DEF Init, Buffer, BoundsAssumption
<1>4. files \in Table
  BY <1>1 DEF Table
<1>5. \A p \in Pipes : EndsIn(files, p, "read") = {} /\ EndsIn(files, p, "write") = {}
  BY <1>2 DEF EndsIn
<1>6. TableOK(files, sockets, pipes)
  BY <1>1, <1>2, <1>3, <1>4, <1>5, FS_EmptySet DEF TableOK
<1>7. TypeOK
  BY <1>1, <1>3, <1>4 DEF Init, TypeOK, Table, BoundsAssumption
<1>8. QED
  BY <1>1, <1>2, <1>6, <1>7 DEF FdInv, FdTable!Init

LEMMA FdInvariant ==
    ASSUME BoundsAssumption, SlotAssumption
    PROVE  Spec => []FdInv
<1>1. Init => FdInv
  BY FdInit
<1>2. FdInv /\ [Next]_vars => FdInv'
  BY FdStep
<1>3. QED
  BY <1>1, <1>2, PTL DEF Spec

\* open, socket, pipe and F_DUPFD hand out the lowest descriptor that is free at or
\* above the minimum that was asked for, pipe the two lowest; close frees its
\* descriptor and nothing else does: the vector of slots, which grows and has holes,
\* is the table of AbstractFdTable.
THEOREM FdTableImplemented ==
    ASSUME BoundsAssumption, SlotAssumption
    PROVE  Spec => Implements
<1>1. Init => FdInv /\ FdTable!Init
  BY FdInit
<1>2. FdInv /\ [Next]_vars => FdInv' /\ [FdTable!Next]_(FdTable!vars)
  BY FdStep DEF Seen, FdTable!vars
<1>3. QED
  BY <1>1, <1>2, PTL DEF Spec, Implements, FdTable!Spec

\* PipeBuffer counts the descriptors that are open on each end of a pipe, through
\* pipe, F_DUPFD and close in any order: read answers end of file, and write EPIPE,
\* exactly when nothing is open on the other end.
THEOREM PipeHandlesCounted ==
    ASSUME BoundsAssumption, SlotAssumption
    PROVE  Spec => []HandlesCounted
<1>1. FdInv => HandlesCounted
  <2> SUFFICES ASSUME FdInv, NEW p \in Pipes
               PROVE  /\ pipes[p].read_handles = Cardinality(EndsOf(p, "read"))
                      /\ pipes[p].write_handles = Cardinality(EndsOf(p, "write"))
    BY DEF HandlesCounted
  <2>1. \A kind : EndsOf(p, kind) = EndsIn(files, p, kind)
    BY DEF EndsOf, EndsIn, OpenSlots, OpenIn
  <2>2. QED
    BY <2>1 DEF FdInv, TableOK
<1>2. QED
  BY <1>1, FdInvariant, PTL

\* The socket table has an entry for exactly the descriptors that are sockets: one
\* that is closed and handed out again for a file is not taken for a socket.
THEOREM SocketTableExact ==
    ASSUME BoundsAssumption, SlotAssumption
    PROVE  Spec => []NoStaleSocket
<1>1. FdInv => NoStaleSocket
  BY DEF FdInv, TableOK, NoStaleSocket, OpenSlots, OpenIn
<1>2. QED
  BY <1>1, FdInvariant, PTL

(***************************************************************************)
(* Seek positions                                                          *)
(***************************************************************************)
\* Every file refers to the cursor that open() made for its family.
OneCursor ==
    \A i \in OpenSlots : /\ files[i].kind # "bundle"
                         /\ files[i].kind \in Seekable => files[i].ref = files[i].family

\* A slot is filled with an object that refers to the cursor of its family.
LEMMA CursorPut ==
    ASSUME SlotAssumption, FdInv, OneCursor, NEW i \in Nat \ {0}, NEW obj \in Slot,
           files' = WithSlot(files, i, obj), obj.kind # "bundle",
           obj.kind \in Seekable => obj.ref = obj.family
    PROVE  OneCursor'
<1>1. files \in Table
  BY DEF FdInv, TableOK
<1>2. /\ OpenIn(files') = OpenIn(files) \cup {i} /\ files'[i] = obj
      /\ \A j \in OpenIn(files) \ {i} : files'[j] = files[j]
  BY <1>1, SlotFilled
<1>3. OpenSlots' = OpenSlots \cup {i} /\ OpenSlots = OpenIn(files)
  BY <1>2 DEF OpenSlots, OpenIn
<1>4. QED
  BY <1>2, <1>3 DEF OneCursor

LEMMA CursorStep ==
    ASSUME BoundsAssumption, SlotAssumption, FdInv, OneCursor, "bundle" \notin Kinds,
           [Next]_vars
    PROVE  OneCursor'
<1>0. /\ files \in Table
      /\ \A from \in Nat \ {0} : FirstEmpty(files, from) \in Nat \ {0}
      /\ 1 \in Nat \ {0}
  <2>1. files \in Table
    BY DEF FdInv, TableOK
  <2>2. ASSUME NEW from \in Nat \ {0} PROVE FirstEmpty(files, from) \in Nat \ {0}
    <3>1. FirstEmpty(files, from) \in Nat /\ FirstEmpty(files, from) >= from
      BY <2>1, FirstEmptyFound
    <3>2. QED
      BY <3>1
  <2>3. QED
    BY <2>1, <2>2
<1>1. ASSUME NEW kind \in Seekable, NEW w \in BOOLEAN, NEW n \in BOOLEAN, open(kind, w, n)
      PROVE  OneCursor'
  <2>1. PICK c \in FreeCursors :
            find_or_create_fd([Plain(kind, c) EXCEPT !.writable = w,
                                  !.needs_flush = w, !.nonblock = n])
    BY <1>1 DEF open
  <2> DEFINE obj == [Plain(kind, c) EXCEPT !.writable = w, !.needs_flush = w, !.nonblock = n]
  <2>2. obj \in Slot /\ obj.kind = kind /\ obj.ref = obj.family
    BY DEF Plain, Slot, FreeCursors
  <2>3. files' = WithSlot(files, FirstEmpty(files, 1), obj)
    BY <2>1 DEF find_or_create_fd
  <2>4. kind # "bundle"
    BY <1>1 DEF open
  <2> HIDE DEF obj
  <2>5. QED
    BY <1>0, <2>2, <2>3, <2>4, CursorPut
<1>2. CASE socket
  <2> DEFINE obj == Plain("socket", NoRef)
  <2>1. obj \in Slot /\ obj.kind = "socket" /\ obj.ref = obj.family
    BY DEF Plain, Slot
  <2>2. files' = WithSlot(files, FirstEmpty(files, 1), obj)
    BY <1>2 DEF socket, find_or_create_fd
  <2> HIDE DEF obj
  <2>3. QED
    BY <1>0, <2>1, <2>2, CursorPut
<1>3. CASE pipe
  <2>1. PICK p \in FreePipes :
           LET withRead == WithSlot(files, FirstEmpty(files, 1), Plain("read", p))
           IN  files' = WithSlot(withRead, FirstEmpty(withRead, 1), Plain("write", p))
    BY <1>3 DEF pipe
  <2> DEFINE r == Plain("read", p)
             w == Plain("write", p)
             a == FirstEmpty(files, 1)
             table == WithSlot(files, a, r)
             b == FirstEmpty(table, 1)
  <2>2. /\ r \in Slot /\ r.kind = "read" /\ w \in Slot /\ w.kind = "write"
    BY DEF Plain, Slot, FreePipes, PipeEnds
  <2>3. files' = WithSlot(table, b, w) /\ a \in Nat \ {0} /\ table = WithSlot(files, a, r)
    BY <1>0, <2>1
  <2> HIDE DEF r, w, a, table
  <2>4. /\ table \in Table /\ OpenIn(table) = OpenIn(files) \cup {a} /\ table[a] = r
        /\ \A j \in OpenIn(files) \ {a} : table[j] = files[j]
    <3>1. files \in Table /\ a \in Nat \ {0} /\ r \in Slot
      BY <1>0, <2>2, <2>3
    <3>2. QED
      BY <2>3, <3>1, SlotFilledAs
  <2>5. table \in Table
    BY <2>4
  <2>6. files' = WithSlot(table, b, w)
    BY <2>3
  <2>7. b \in Nat \ {0}
    <3>1. b \in Nat /\ b >= 1
      BY <1>0, <2>5, FirstEmptyFound
    <3>2. QED
      BY <3>1
  <2> HIDE DEF b
  <2>8. /\ OpenIn(files') = OpenIn(table) \cup {b} /\ files'[b] = w
        /\ \A j \in OpenIn(table) \ {b} : files'[j] = table[j]
    <3>1. table \in Table /\ b \in Nat \ {0} /\ w \in Slot
      BY <2>2, <2>5, <2>7
    <3>2. QED
      BY <2>6, <3>1, SlotFilledAs
  <2>9. ASSUME NEW j \in OpenIn(files')
        PROVE  files'[j] = w \/ files'[j] = r \/ (j \in OpenIn(files) /\ files'[j] = files[j])
    BY <2>4, <2>8
  <2>10. OpenSlots' = OpenIn(files') /\ OpenSlots = OpenIn(files)
    BY DEF OpenSlots, OpenIn
  <2>11. "read" \notin Seekable /\ "write" \notin Seekable
    BY DEF Seekable
  <2>12. QED
    BY <2>2, <2>9, <2>10, <2>11 DEF OneCursor
<1>4. ASSUME NEW fd \in 1 .. MaxFiles, NEW min_fd \in 0 .. (Base + MaxFiles - 1),
             F_DUPFD(fd, min_fd)
      PROVE  OneCursor'
  <2>1. PICK ref \in Cursors \cup Pipes :
            /\ try_clone(files[fd], ref)
            /\ files' = WithSlot(files, FirstEmpty(files, fd_to_file_idx(min_fd)),
                             [files[fd] EXCEPT !.ref = ref, !.needs_flush = FALSE])
    BY <1>4 DEF F_DUPFD
  <2>2. fd \in OpenSlots /\ files[fd] \in Slot
    BY <1>4, OpenSlot DEF F_DUPFD
  <2> DEFINE obj == [files[fd] EXCEPT !.ref = ref, !.needs_flush = FALSE]
  <2>3. obj \in Slot /\ obj.kind = files[fd].kind /\ obj.ref = ref
        /\ obj.family = files[fd].family
    BY <2>2 DEF Slot
  <2>4. obj.kind # "bundle" /\ (obj.kind \in Seekable => ref = files[fd].ref)
    BY <2>1, <2>2, <2>3 DEF OneCursor, try_clone, Seekable
  <2>5. obj.kind \in Seekable => obj.ref = obj.family
    BY <2>2, <2>3, <2>4 DEF OneCursor
  <2>6. fd_to_file_idx(min_fd) \in Nat \ {0}
    BY DEF fd_to_file_idx, BoundsAssumption
  <2>7. FirstEmpty(files, fd_to_file_idx(min_fd)) \in Nat \ {0}
    BY <1>0, <2>6
  <2> HIDE DEF obj
  <2>8. files' = WithSlot(files, FirstEmpty(files, fd_to_file_idx(min_fd)), obj)
    BY <2>1 DEF obj
  <2>9. QED
    BY <2>3, <2>4, <2>5, <2>7, <2>8, CursorPut
<1>5. ASSUME NEW fd \in 1 .. MaxFiles, NEW n \in BOOLEAN, F_SETFL(fd, n)
      PROVE  OneCursor'
  <2>1. /\ fd \in OpenSlots /\ fd \in DOMAIN files /\ files[fd] \in Slot
        /\ files' = [files EXCEPT ![fd].nonblock = n]
    BY <1>5, OpenSlot DEF F_SETFL
  <2> DEFINE obj == [files[fd] EXCEPT !.nonblock = n]
  <2>2. /\ obj \in Slot /\ obj # Closed /\ obj.kind = files[fd].kind
        /\ obj.ref = files[fd].ref /\ obj.family = files[fd].family
    BY <2>1 DEF Slot, SlotAssumption
  <2>3. files' = [files EXCEPT ![fd] = obj]
    BY <2>1
  <2> HIDE DEF obj
  <2>4. /\ DOMAIN files' = DOMAIN files /\ files'[fd] = obj
        /\ \A j \in DOMAIN files \ {fd} : files'[j] = files[j]
    BY <1>0, <2>1, <2>3 DEF Table
  <2>5. QED
    BY <2>1, <2>2, <2>4 DEF OneCursor, OpenSlots
<1>6. ASSUME UNCHANGED files PROVE OneCursor'
  BY <1>6 DEF OneCursor, OpenSlots
<1>7. ASSUME NEW fd \in 1 .. MaxFiles, close(fd) PROVE OneCursor'
  <2>1. /\ files' = [files EXCEPT ![fd] = Closed] /\ fd \in DOMAIN files
    BY <1>7 DEF close, OpenSlots
  <2>2. /\ DOMAIN files' = DOMAIN files /\ files'[fd] = Closed
        /\ \A j \in DOMAIN files \ {fd} : files'[j] = files[j]
    BY <1>0, <2>1 DEF Table
  <2>3. QED
    BY <2>2 DEF OneCursor, OpenSlots
<1>8. ASSUME NEW fd \in 1 .. MaxFiles,
             \/ read(fd) \/ write(fd) \/ fsync(fd)
             \/ \E to \in 0 .. MaxPosition : lseek(fd, to)
      PROVE  UNCHANGED files
  BY <1>8 DEF read, write, fsync, lseek
<1>9. QED
  BY <1>1, <1>2, <1>3, <1>4, <1>5, <1>6, <1>7, <1>8 DEF Next, vars

\* Duplicates of a file share the seek position of the file they were made from, as
\* long as the app opens no files of its bundle, whose duplicates have their own.
THEOREM PositionsShared ==
    ASSUME BoundsAssumption, SlotAssumption, "bundle" \notin Kinds
    PROVE  Spec => []SharedPosition
<1>1. Init => FdInv /\ OneCursor
  <2>1. Init => OpenSlots = {}
    BY DEF Init, OpenSlots
  <2>2. QED
    BY <2>1, FdInit DEF OneCursor
<1>2. FdInv /\ OneCursor /\ [Next]_vars => FdInv' /\ OneCursor'
  BY FdStep, CursorStep
<1>3. OneCursor => SharedPosition
  BY DEF OneCursor, SharedPosition
<1>4. QED
  BY <1>1, <1>2, <1>3, PTL DEF Spec

(***************************************************************************)
(* C streams                                                               *)
(***************************************************************************)
CONSTANTS Addresses, Fds, Length, MaxPushed, NoStream, NoFile, Stdin, MixesReads
VARIABLES owner, word, streams, st_position, live, leaked, unread
Streams == INSTANCE FileStreams WITH
    None <- NoStream, Closed <- NoFile, position <- st_position

Pushed == Seq(0 .. Length)

StreamTypes ==
    /\ owner \in [Addresses -> {"none", "stream", "other"}]
    /\ word \in [Addresses -> Fds \cup {Stdin}]
    /\ streams \in [Addresses -> {s \in Pushed : Len(s) <= MaxPushed} \cup {NoStream}]
    /\ st_position \in [Fds -> 0 .. Length \cup {NoFile}]
    /\ live \subseteq Addresses /\ leaked \subseteq Fds

IsOpen(fd) == st_position[fd] # NoFile

\* OneStreamEach, descriptor by descriptor.
Owned ==
    /\ \A a \in live : word[a] \in Fds /\ IsOpen(word[a]) /\ word[a] \notin leaked
    /\ \A a \in live, b \in live : a # b => word[a] # word[b]
    /\ \A fd \in leaked : IsOpen(fd)
    /\ \A fd \in Fds : IsOpen(fd) => fd \in leaked \/ \E a \in live : word[a] = fd

StreamInv == StreamTypes /\ Owned /\ Streams!LiveHasBlock

LEMMA StreamLeast ==
    ASSUME NEW T \in SUBSET Fds, T # {}, Streams!BoundsAssumption
    PROVE  Streams!Min(T) \in T
<1>1. T \in SUBSET Nat
  BY DEF Streams!BoundsAssumption
<1>2. QED
  BY <1>1, Least DEF Streams!Min, Min

LEMMA LeastOfTwo ==
    ASSUME NEW a \in Nat, NEW b \in Nat
    PROVE  Streams!Min({a, b}) = IF a <= b THEN a ELSE b
<1>1. Min({a, b}) \in {a, b} /\ Min({a, b}) <= a /\ Min({a, b}) <= b
  BY Least
<1>2. Streams!Min({a, b}) = Min({a, b})
  BY DEF Streams!Min, Min
<1>3. QED
  BY <1>1, <1>2

LEMMA OwnedIs ==
    ASSUME StreamTypes, Owned
    PROVE  Streams!OneStreamEach
<1>1. /\ \A a \in live : word[a] \in Fds \ Streams!FreeFds
      /\ leaked \subseteq Fds \ Streams!FreeFds
      /\ \A fd \in Fds \ Streams!FreeFds : fd \in leaked \/ \E a \in live : word[a] = fd
  BY DEF StreamTypes, Owned, IsOpen, Streams!FreeFds
<1>2. {word[a] : a \in live} \cup leaked = Fds \ Streams!FreeFds
  BY <1>1
<1>3. {word[a] : a \in live} \cap leaked = {}
  BY DEF Owned
<1>4. QED
  BY <1>2, <1>3 DEF Owned, Streams!OneStreamEach

\* Only a stream's characters change, and the place where its file stands.
LEMMA StreamMoved ==
    ASSUME Streams!BoundsAssumption, StreamInv, NEW a \in live,
           NEW s \in {s \in Pushed : Len(s) <= MaxPushed}, NEW p \in 0 .. Length,
           streams' = [streams EXCEPT ![a] = s],
           st_position' = [st_position EXCEPT ![word[a]] = p],
           UNCHANGED <<owner, word, live, leaked>>
    PROVE  StreamInv'
<1>1. word[a] \in Fds /\ NoFile \notin Nat /\ NoStream \notin Pushed /\ a \in Addresses
  BY DEF StreamInv, StreamTypes, Owned, Streams!BoundsAssumption, Pushed
<1>2. StreamTypes'
  BY <1>1 DEF StreamInv, StreamTypes, Pushed
<1>3. \A fd \in Fds : IsOpen(fd)' <=> IsOpen(fd)
  BY <1>1 DEF StreamInv, StreamTypes, Owned, IsOpen
<1>4. Owned'
  BY <1>3 DEF StreamInv, Owned, StreamTypes
<1>5. s # NoStream
  BY <1>1
<1>6. Streams!LiveHasBlock'
  BY <1>5 DEF StreamInv, StreamTypes, Streams!LiveHasBlock
<1>7. QED
  BY <1>2, <1>4, <1>6 DEF StreamInv

\* The descriptor of a stream is closed: by fclose and, before it opens another,
\* by freopen.
LEMMA StreamClosed ==
    ASSUME Streams!BoundsAssumption, StreamInv, NEW a \in live
    PROVE  /\ Streams!ClosedFd(a) = [st_position EXCEPT ![word[a]] = NoFile]
           /\ word[a] \in Fds
  BY DEF StreamInv, Owned, StreamTypes, Streams!ClosedFd

LEMMA StreamPushed ==
    ASSUME StreamInv, NEW a \in live
    PROVE  /\ Streams!pushbacks(a) = streams[a] /\ a \in Addresses
           /\ Streams!pushbacks(a) \in {s \in Pushed : Len(s) <= MaxPushed}
           /\ st_position[word[a]] \in 0 .. Length /\ word[a] \in Fds
<1>1. streams[a] # NoStream /\ a \in Addresses
  BY DEF StreamInv, StreamTypes, Streams!LiveHasBlock
<1>2. word[a] \in Fds /\ st_position[word[a]] # NoFile
  BY DEF StreamInv, Owned, IsOpen
<1>3. QED
  BY <1>1, <1>2 DEF StreamInv, StreamTypes, Streams!pushbacks

\* The empty descriptor taken is a stream's own.
LEMMA StreamOpened ==
    ASSUME Streams!BoundsAssumption, StreamInv, NEW a \in Addresses, NEW fd \in Fds,
           a \notin live => ~IsOpen(fd),
           a \in live => (~IsOpen(fd) \/ fd = word[a]),
           owner' \in [Addresses -> {"none", "stream", "other"}],
           owner'[a] = "stream", \A b \in live : owner'[b] = owner[b],
           word' = [word EXCEPT ![a] = fd],
           streams' = [streams EXCEPT ![a] = <<>>],
           st_position' = IF a \in live THEN [[st_position EXCEPT ![word[a]] = NoFile] EXCEPT ![fd] = 0]
                                        ELSE [st_position EXCEPT ![fd] = 0],
           live' = live \cup {a}, UNCHANGED leaked
    PROVE  StreamInv'
<1>1. /\ NoFile \notin Nat /\ NoStream \notin Pushed /\ <<>> \in Pushed /\ Len(<<>>) = 0
      /\ MaxPushed \in Nat /\ 0 \in 0 .. Length
  BY DEF Streams!BoundsAssumption, Pushed
<1>2. /\ word \in [Addresses -> Fds \cup {Stdin}]
      /\ st_position \in [Fds -> 0 .. Length \cup {NoFile}]
      /\ streams \in [Addresses -> {s \in Pushed : Len(s) <= MaxPushed} \cup {NoStream}]
      /\ a \in live => word[a] \in Fds
      /\ live \subseteq Addresses /\ leaked \subseteq Fds
  BY DEF StreamInv, StreamTypes, Owned
<1>3. /\ word'[a] = fd /\ \A b \in Addresses \ {a} : word'[b] = word[b]
      /\ streams'[a] = <<>> /\ \A b \in Addresses \ {a} : streams'[b] = streams[b]
      /\ streams' \in [Addresses -> {s \in Pushed : Len(s) <= MaxPushed} \cup {NoStream}]
      /\ word' \in [Addresses -> Fds \cup {Stdin}]
  BY <1>1, <1>2
<1>4. /\ st_position' \in [Fds -> 0 .. Length \cup {NoFile}]
      /\ IsOpen(fd)'
      /\ \A x \in Fds \ {fd} : IsOpen(x)' <=> IsOpen(x) /\ (a \in live => x # word[a])
  BY <1>1, <1>2 DEF IsOpen
<1>5. StreamTypes'
  BY <1>3, <1>4 DEF StreamInv, StreamTypes
<1>6. Owned'
  <2>1. \A b \in live \ {a} : word[b] # fd
    BY <1>2 DEF StreamInv, Owned
  <2>2. fd \notin leaked
    BY DEF StreamInv, Owned
  <2>3. \A b \in live' : word'[b] \in Fds /\ IsOpen(word[b])' /\ word'[b] \notin leaked'
    BY <1>2, <1>3, <1>4, <2>1, <2>2 DEF StreamInv, Owned
  <2>4. \A b \in live', c \in live' : b # c => word'[b] # word'[c]
    BY <1>2, <1>3, <2>1 DEF StreamInv, Owned
  <2>5. \A x \in leaked' : IsOpen(x)'
    BY <1>2, <1>4 DEF StreamInv, Owned
  <2>6. ASSUME NEW x \in Fds, IsOpen(x)' PROVE x \in leaked' \/ \E b \in live' : word'[b] = x
    BY <1>2, <1>3, <1>4, <2>6 DEF StreamInv, Owned
  <2>7. QED
    BY <2>3, <2>4, <2>5, <2>6 DEF Owned
<1>7. Streams!LiveHasBlock'
  BY <1>1, <1>2, <1>3 DEF StreamInv, Streams!LiveHasBlock
<1>8. QED
  BY <1>5, <1>6, <1>7 DEF StreamInv

\* A stream is given up, with its descriptor or without.
LEMMA StreamEnded ==
    ASSUME Streams!BoundsAssumption, StreamInv, NEW a \in live, live' = live \ {a},
           \/ /\ leaked' = leaked /\ st_position' = Streams!ClosedFd(a)
           \/ /\ leaked' = leaked \cup {word[a]} /\ UNCHANGED st_position,
           streams' \in [Addresses -> {s \in Pushed : Len(s) <= MaxPushed} \cup {NoStream}],
           owner' \in [Addresses -> {"none", "stream", "other"}],
           word' \in [Addresses -> Fds \cup {Stdin}],
           \A b \in live \ {a} : owner'[b] = owner[b] /\ word'[b] = word[b] /\ streams'[b] = streams[b]
    PROVE  StreamInv'
<1>1. word[a] \in Fds /\ Streams!ClosedFd(a) = [st_position EXCEPT ![word[a]] = NoFile]
  BY StreamClosed
<1>2. /\ st_position \in [Fds -> 0 .. Length \cup {NoFile}]
      /\ live \subseteq Addresses /\ leaked \subseteq Fds
      /\ IsOpen(word[a])
      /\ \A b \in live \ {a} : word[b] # word[a]
      /\ word[a] \notin leaked
  BY DEF StreamInv, StreamTypes, Owned
<1>3. StreamTypes'
  BY <1>1, <1>2 DEF StreamTypes
<1>4. CASE leaked' = leaked /\ st_position' = Streams!ClosedFd(a)
  <2>1. \A x \in Fds : IsOpen(x)' <=> IsOpen(x) /\ x # word[a]
    BY <1>1, <1>2, <1>4 DEF IsOpen
  <2>2. Owned'
    BY <1>1, <1>2, <1>4, <2>1 DEF StreamInv, Owned
  <2>3. QED
    BY <1>3, <2>2 DEF StreamInv, Streams!LiveHasBlock
<1>5. CASE leaked' = leaked \cup {word[a]} /\ UNCHANGED st_position
  <2>1. \A x \in Fds : IsOpen(x)' <=> IsOpen(x)
    BY <1>5 DEF IsOpen
  <2>2. Owned'
    BY <1>1, <1>2, <1>5, <2>1 DEF StreamInv, Owned
  <2>3. QED
    BY <1>3, <2>2 DEF StreamInv, Streams!LiveHasBlock
<1>6. QED
  BY <1>4, <1>5
LEMMA PushedPrefix ==
    ASSUME NEW s \in Pushed, NEW k \in 0 .. Len(s)
    PROVE  SubSeq(s, 1, k) \in Pushed /\ Len(SubSeq(s, 1, k)) = k
<1>1. k \in Int /\ 1 \in Int /\ k >= 0 /\ \A i \in 1 .. k : s[i] \in 0 .. Length
  <2>1. s \in Seq(0 .. Length) /\ Len(s) \in Nat
    BY DEF Pushed
  <2>2. \A i \in 1 .. Len(s) : s[i] \in 0 .. Length
    BY <2>1, ElementOfSeq
  <2>3. QED
    BY <2>1, <2>2
<1>2. /\ SubSeq(s, 1, k) \in Seq(0 .. Length)
      /\ Len(SubSeq(s, 1, k)) = IF 1 <= k THEN k - 1 + 1 ELSE 0
  BY <1>1, SubSeqProperties
<1>3. QED
  BY <1>1, <1>2 DEF Pushed

\* fread delivers no more than the file has.
LEMMA ReadBounded ==
    ASSUME Streams!BoundsAssumption, NEW n \in Nat, NEW k \in Nat, NEW p \in 0 .. Length
    PROVE  LET copied == Streams!Min({n, k})
               got == Streams!Min({n - copied, Length - p})
           IN  /\ copied \in 0 .. k /\ p + got \in 0 .. Length
               /\ k = 0 => copied = 0
               /\ k = 0 => p + got = Streams!Min({p + n, Length})
<1> DEFINE copied == Streams!Min({n, k})
           got == Streams!Min({n - copied, Length - p})
<1>1. copied = (IF n <= k THEN n ELSE k) /\ copied \in Nat
  BY LeastOfTwo
<1> HIDE DEF copied
<1>2. n - copied \in Nat /\ Length - p \in Nat /\ Length \in Nat /\ p \in Nat /\ p + n \in Nat
  BY <1>1 DEF Streams!BoundsAssumption
<1>3. got = IF n - copied <= Length - p THEN n - copied ELSE Length - p
  BY <1>2, LeastOfTwo
<1>4. Streams!Min({p + n, Length}) = IF p + n <= Length THEN p + n ELSE Length
  BY <1>2, LeastOfTwo
<1> HIDE DEF got
<1>5. QED
  BY <1>1, <1>2, <1>3, <1>4 DEF copied, got

LEMMA StreamStep ==
    ASSUME Streams!BoundsAssumption, StreamInv, Streams!Next
    PROVE  StreamInv'
<1>0. /\ owner \in [Addresses -> {"none", "stream", "other"}]
      /\ word \in [Addresses -> Fds \cup {Stdin}]
      /\ streams \in [Addresses -> {s \in Pushed : Len(s) <= MaxPushed} \cup {NoStream}]
      /\ live \subseteq Addresses
      /\ \A a \in live : owner[a] = "stream"
      /\ <<>> \in {s \in Pushed : Len(s) <= MaxPushed}
  BY DEF StreamInv, StreamTypes, Streams!LiveHasBlock, Streams!BoundsAssumption, Pushed
<1>1. ASSUME NEW a \in Addresses, Streams!fopen(a) PROVE StreamInv'
  <2>1. Streams!LowestFd \in Fds /\ ~IsOpen(Streams!LowestFd)
    <3>1. Streams!FreeFds \in SUBSET Fds /\ Streams!FreeFds # {}
      BY <1>1 DEF Streams!fopen, Streams!FreeFds
    <3>2. Streams!LowestFd \in Streams!FreeFds
      BY <3>1, StreamLeast DEF Streams!LowestFd
    <3>3. QED
      BY <3>1, <3>2 DEF Streams!FreeFds, IsOpen
  <2>2. a \notin live
    BY <1>0, <1>1 DEF Streams!fopen, Streams!FreeBlocks
  <2>3. QED
    BY <1>0, <1>1, <2>1, <2>2, StreamOpened DEF Streams!fopen
<1>2. ASSUME NEW a \in live, Streams!freopen(a) PROVE StreamInv'
  <2>1. /\ word[a] \in Fds /\ Streams!ClosedFd(a) = [st_position EXCEPT ![word[a]] = NoFile]
        /\ live \cup {a} = live /\ a \in Addresses
    BY <1>0, StreamClosed
  <2>2. /\ streams' = [streams EXCEPT ![a] = <<>>] /\ UNCHANGED <<owner, leaked>>
    BY <1>2 DEF Streams!freopen
  <2>3. CASE /\ st_position' = Streams!ClosedFd(a) /\ live' = live \ {a} /\ UNCHANGED word
    BY <1>0, <2>1, <2>2, <2>3, StreamEnded
  <2>4. ASSUME NEW fd \in Fds, Streams!ClosedFd(a)[fd] = NoFile,
               st_position' = [Streams!ClosedFd(a) EXCEPT ![fd] = 0],
               word' = [word EXCEPT ![a] = fd], UNCHANGED live
        PROVE  StreamInv'
    <3>1. ~IsOpen(fd) \/ fd = word[a]
      BY <2>1, <2>4 DEF IsOpen, Streams!ClosedFd
    <3>2. QED
      BY <1>0, <2>1, <2>2, <2>4, <3>1, StreamOpened
  <2>5. QED
    <3> DEFINE free == {fd \in Fds : Streams!ClosedFd(a)[fd] = NoFile}
    <3>1. free \in SUBSET Fds /\ (free # {} => Streams!Min(free) \in free)
      BY StreamLeast
    <3>2. QED
      BY <1>2, <2>3, <2>4, <3>1 DEF Streams!freopen
<1>3. ASSUME NEW a \in live, Streams!fclose(a) PROVE StreamInv'
  <2>1. QED
    BY <1>0, <1>3, StreamEnded DEF Streams!fclose, Streams!Freed
<1>4. ASSUME NEW a \in live, Streams!free_stream(a) PROVE StreamInv'
  BY <1>0, <1>4, StreamEnded DEF Streams!free_stream, Streams!Freed
<1>5. ASSUME NEW a \in live, Streams!fgetc(a) PROVE StreamInv'
  <2> DEFINE s == Streams!pushbacks(a)
             s2 == IF s # <<>> THEN Streams!Front(s) ELSE <<>>
             p == st_position[word[a]]
  <2>1. s \in Pushed /\ Len(s) <= MaxPushed /\ p \in 0 .. Length /\ word[a] \in Fds
    BY StreamPushed
  <2>2. s2 \in {x \in Pushed : Len(x) <= MaxPushed}
    <3> HIDE DEF s
    <3>1. CASE s = <<>>
      BY <1>0, <3>1
    <3>2. CASE s # <<>>
      <4>1. Len(s) - 1 \in 0 .. Len(s) /\ Len(s) - 1 <= MaxPushed
        BY <2>1, <3>2 DEF Pushed, Streams!BoundsAssumption
      <4>2. QED
        BY <2>1, <3>2, <4>1, PushedPrefix DEF Streams!Front
    <3>3. QED
      BY <3>1, <3>2
  <2>3. \E q \in 0 .. Length : st_position' = [st_position EXCEPT ![word[a]] = q]
    <3>1. CASE Streams!Reaches(a, 1)
      BY <1>5, <2>1, <3>1 DEF Streams!fgetc, Streams!Reaches, Streams!Seeked
    <3>2. CASE ~Streams!Reaches(a, 1)
      <4>1. st_position' = [st_position EXCEPT ![word[a]] = p]
        BY <1>5, <2>1, <3>2 DEF Streams!fgetc, StreamInv, StreamTypes
      <4>2. QED
        BY <2>1, <4>1
    <3>3. QED
      BY <3>1, <3>2
  <2>4. streams' = [streams EXCEPT ![a] = s2] /\ UNCHANGED <<owner, word, live, leaked>>
    BY <1>5 DEF Streams!fgetc
  <2> HIDE DEF s2
  <2>5. QED
    BY <2>2, <2>3, <2>4, StreamMoved
<1>6. ASSUME NEW a \in live, NEW c \in 0 .. Length, Streams!ungetc(a, c) PROVE StreamInv'
  <2> DEFINE s == Streams!pushbacks(a)
  <2>1. s \in Pushed /\ Len(s) < MaxPushed /\ MaxPushed \in Nat
    BY <1>6, StreamPushed DEF Streams!ungetc, Streams!BoundsAssumption
  <2> HIDE DEF s
  <2>2. Append(s, c) \in {x \in Pushed : Len(x) <= MaxPushed}
    BY <2>1 DEF Pushed
  <2>3. /\ st_position' = [st_position EXCEPT ![word[a]] = st_position[word[a]] + (-1)]
        /\ st_position[word[a]] + (-1) \in 0 .. Length
        /\ streams' = [streams EXCEPT ![a] = Append(s, c)]
        /\ UNCHANGED <<owner, word, live, leaked>>
    BY <1>6 DEF Streams!ungetc, Streams!Reaches, Streams!Seeked, s
  <2>4. QED
    BY <2>2, <2>3, StreamMoved
<1>7. ASSUME NEW a \in live, NEW n \in 1 .. Length, Streams!fread(a, n) PROVE StreamInv'
  <2> DEFINE s == Streams!pushbacks(a)
             p == st_position[word[a]]
             copied == Streams!Min({n, Len(s)})
             got == Streams!Min({n - copied, Length - p})
  <2>1. s \in Pushed /\ Len(s) <= MaxPushed /\ Len(s) \in Nat /\ p \in 0 .. Length /\ n \in Nat
        /\ MaxPushed \in Nat
    BY StreamPushed DEF Pushed, Streams!BoundsAssumption
  <2>2. /\ streams' = [streams EXCEPT ![a] = SubSeq(s, 1, Len(s) - copied)]
        /\ st_position' = [st_position EXCEPT ![word[a]] = p + got]
        /\ UNCHANGED <<owner, word, live, leaked>>
    BY <1>7 DEF Streams!fread, Streams!Seeked
  <2>3. copied \in 0 .. Len(s) /\ p + got \in 0 .. Length
    BY <2>1, ReadBounded
  <2> HIDE DEF copied, got, s, p
  <2>4. SubSeq(s, 1, Len(s) - copied) \in {x \in Pushed : Len(x) <= MaxPushed}
    <3>1. Len(s) - copied \in 0 .. Len(s) /\ Len(s) - copied <= MaxPushed
      BY <2>1, <2>3
    <3>2. QED
      BY <2>1, <3>1, PushedPrefix
  <2>5. QED
    BY <2>2, <2>3, <2>4, StreamMoved
<1>8. ASSUME NEW a \in live, NEW to \in 0 .. Length, Streams!fseeko(a, to) PROVE StreamInv'
  BY <1>0, <1>8, StreamMoved DEF Streams!fseeko
<1>9. ASSUME NEW a \in Addresses, Streams!malloc(a) \/ Streams!free(a) PROVE StreamInv'
  <2>1. a \notin live
    BY <1>0, <1>9 DEF Streams!malloc, Streams!free, Streams!FreeBlocks
  <2>2. /\ owner' \in [Addresses -> {"none", "stream", "other"}]
        /\ word' \in [Addresses -> Fds \cup {Stdin}]
        /\ \A b \in live : owner'[b] = owner[b] /\ word'[b] = word[b]
        /\ UNCHANGED <<streams, st_position, live, leaked>>
    BY <1>0, <1>9, <2>1 DEF Streams!malloc, Streams!free, Streams!Freed
  <2>3. Owned' /\ Streams!LiveHasBlock' /\ StreamTypes'
    BY <2>2 DEF StreamInv, Owned, IsOpen, Streams!LiveHasBlock, StreamTypes
  <2>4. QED
    BY <2>3 DEF StreamInv
<1>10. QED
  BY <1>1, <1>2, <1>3, <1>4, <1>5, <1>6, <1>7, <1>8, <1>9
  DEF Streams!Next, Streams!fopen, Streams!freopen, Streams!fclose, Streams!fgetc, Streams!ungetc,
      Streams!fread, Streams!fseeko, Streams!free_stream
LEMMA StreamInitial ==
    ASSUME Streams!BoundsAssumption, Streams!Init
    PROVE  StreamInv /\ unread \in [Addresses -> 0 .. Length] /\ Streams!NoByteTwice
<1>1. /\ \A fd \in Fds : st_position[fd] = NoFile
      /\ live = {} /\ leaked = {} /\ 0 \in 0 .. Length
  BY DEF Streams!Init, Streams!BoundsAssumption
<1>2. StreamTypes
  BY <1>1 DEF Streams!Init, StreamTypes
<1>3. Owned
  BY <1>1 DEF Owned, IsOpen
<1>4. QED
  BY <1>1, <1>2, <1>3 DEF Streams!Init, StreamInv, Streams!LiveHasBlock, Streams!NoByteTwice

\* Where a stream stands and what was pushed back on it, in a step that delivers
\* bytes or not.
LEMMA ByteStep ==
    ASSUME Streams!BoundsAssumption, ~MixesReads, StreamInv, StreamInv',
           unread \in [Addresses -> 0 .. Length], Streams!NoByteTwice, Streams!Next
    PROVE  unread' \in [Addresses -> 0 .. Length] /\ Streams!NoByteTwice'
<1>0. /\ streams \in [Addresses -> {s \in Pushed : Len(s) <= MaxPushed} \cup {NoStream}]
      /\ st_position \in [Fds -> 0 .. Length \cup {NoFile}]
      /\ word \in [Addresses -> Fds \cup {Stdin}]
      /\ live \subseteq Addresses /\ 0 \in 0 .. Length /\ Len(<<>>) = 0
      /\ <<>> # NoStream
      /\ \A a \in live : /\ word[a] \in Fds /\ IsOpen(word[a])
                         /\ owner[a] = "stream" /\ streams[a] # NoStream
      /\ \A a \in live, b \in live : a # b => word[a] # word[b]
  <2>0. <<>> \in Pushed /\ Len(<<>>) = 0
    BY DEF Pushed
  <2>a. NoStream \notin Pushed /\ 0 \in 0 .. Length
    BY DEF Pushed, Streams!BoundsAssumption
  <2>1. 0 \in 0 .. Length /\ Len(<<>>) = 0 /\ <<>> # NoStream
    BY <2>0, <2>a
  <2>2. \A a \in live : /\ word[a] \in Fds /\ IsOpen(word[a])
                       /\ owner[a] = "stream" /\ streams[a] # NoStream
    BY DEF StreamInv, Owned, Streams!LiveHasBlock
  <2>3. QED
    BY <2>1, <2>2 DEF StreamInv, StreamTypes, Owned
<1>a. \A a \in live : st_position[word[a]] + Len(streams[a]) = unread[a]
  BY <1>0 DEF Streams!NoByteTwice, Streams!pushbacks
<1>b. /\ \A a \in live' : word'[a] \in Fds /\ streams'[a] # NoStream
      /\ \A a \in live', b \in live' : a # b => word'[a] # word'[b]
  BY DEF StreamInv, Owned, Streams!LiveHasBlock
<1>c. ASSUME \A a \in live' : st_position'[word'[a]] + Len(streams'[a]) = unread'[a]
      PROVE  Streams!NoByteTwice'
  BY <1>b, <1>c DEF Streams!NoByteTwice, Streams!pushbacks
\* A stream is opened at the first byte.
<1>d. ASSUME NEW a \in Addresses, NEW fd \in Fds, word' = [word EXCEPT ![a] = fd],
             streams' = [streams EXCEPT ![a] = <<>>], unread' = [unread EXCEPT ![a] = 0],
             st_position'[fd] = 0, live' = live \cup {a},
             \A b \in live \ {a} : st_position'[word[b]] = st_position[word[b]]
      PROVE  unread' \in [Addresses -> 0 .. Length] /\ Streams!NoByteTwice'
  <2>1. ASSUME NEW b \in live' PROVE st_position'[word'[b]] + Len(streams'[b]) = unread'[b]
    <3>1. CASE b = a
      BY <1>0, <1>d, <3>1
    <3>2. CASE b # a
      BY <1>0, <1>a, <1>d, <3>2
    <3>3. QED
      BY <3>1, <3>2
  <2>2. QED
    BY <1>0, <1>c, <1>d, <2>1
\* A stream moves: as many bytes as it stands further, but for those pushed back,
\* were delivered.
<1>e. ASSUME NEW a \in live, NEW s, NEW p, NEW u \in 0 .. Length, p + Len(s) = u,
             streams' = [streams EXCEPT ![a] = s],
             st_position' = [st_position EXCEPT ![word[a]] = p],
             unread' = [unread EXCEPT ![a] = u], UNCHANGED <<word, live>>
      PROVE  unread' \in [Addresses -> 0 .. Length] /\ Streams!NoByteTwice'
  <2>1. ASSUME NEW b \in live' PROVE st_position'[word'[b]] + Len(streams'[b]) = unread'[b]
    <3>1. CASE b = a
      BY <1>0, <1>e, <3>1
    <3>2. CASE b # a
      BY <1>0, <1>a, <1>e, <3>2
    <3>3. QED
      BY <3>1, <3>2
  <2>2. QED
    BY <1>0, <1>c, <1>e, <2>1
\* A stream is given up; the others are as they were.
<1>f. ASSUME live' \subseteq live, UNCHANGED unread,
             \A b \in live' : /\ word'[b] = word[b] /\ streams'[b] = streams[b]
                             /\ st_position'[word[b]] = st_position[word[b]]
      PROVE  unread' \in [Addresses -> 0 .. Length] /\ Streams!NoByteTwice'
  BY <1>a, <1>c, <1>f
<1>1. ASSUME NEW a \in Addresses, Streams!fopen(a)
      PROVE  unread' \in [Addresses -> 0 .. Length] /\ Streams!NoByteTwice'
  <2>1. Streams!LowestFd \in Fds /\ ~IsOpen(Streams!LowestFd)
    <3>1. Streams!FreeFds \in SUBSET Fds /\ Streams!FreeFds # {}
      BY <1>1 DEF Streams!fopen, Streams!FreeFds
    <3>2. Streams!LowestFd \in Streams!FreeFds
      BY <3>1, StreamLeast DEF Streams!LowestFd
    <3>3. QED
      BY <3>1, <3>2 DEF Streams!FreeFds, IsOpen
  <2>2. /\ st_position' = [st_position EXCEPT ![Streams!LowestFd] = 0]
        /\ word' = [word EXCEPT ![a] = Streams!LowestFd]
        /\ streams' = [streams EXCEPT ![a] = <<>>] /\ unread' = [unread EXCEPT ![a] = 0]
        /\ live' = live \cup {a}
    BY <1>1 DEF Streams!fopen
  <2>3. \A b \in live \ {a} : st_position'[word[b]] = st_position[word[b]]
    BY <1>0, <2>1, <2>2
  <2>4. QED
    BY <1>0, <1>d, <2>1, <2>2, <2>3
<1>2. ASSUME NEW a \in live, Streams!freopen(a)
      PROVE  unread' \in [Addresses -> 0 .. Length] /\ Streams!NoByteTwice'
  <2>1. /\ word[a] \in Fds /\ Streams!ClosedFd(a) = [st_position EXCEPT ![word[a]] = NoFile]
        /\ live \cup {a} = live /\ a \in Addresses
    BY <1>0, StreamClosed
  <2>2. streams' = [streams EXCEPT ![a] = <<>>]
    BY <1>2 DEF Streams!freopen
  <2>3. CASE st_position' = Streams!ClosedFd(a) /\ live' = live \ {a} /\ UNCHANGED <<word, unread>>
    BY <1>0, <1>f, <2>1, <2>2, <2>3
  <2>4. ASSUME NEW fd \in Fds, Streams!ClosedFd(a)[fd] = NoFile,
               st_position' = [Streams!ClosedFd(a) EXCEPT ![fd] = 0],
               word' = [word EXCEPT ![a] = fd], UNCHANGED live, unread' = [unread EXCEPT ![a] = 0]
        PROVE  unread' \in [Addresses -> 0 .. Length] /\ Streams!NoByteTwice'
    <3>1. \A b \in live \ {a} : word[b] # fd /\ word[b] # word[a]
      BY <1>0, <2>1, <2>4 DEF IsOpen
    <3>2. \A b \in live \ {a} : st_position'[word[b]] = st_position[word[b]]
      BY <1>0, <2>1, <2>4, <3>1
    <3>3. st_position'[fd] = 0 /\ live' = live \cup {a} /\ a \in Addresses
      BY <1>0, <2>1, <2>4
    <3>4. QED
      BY <1>d, <2>2, <2>4, <3>2, <3>3
  <2>5. QED
    <3> DEFINE free == {fd \in Fds : Streams!ClosedFd(a)[fd] = NoFile}
    <3>1. free \in SUBSET Fds /\ (free # {} => Streams!Min(free) \in free)
      BY StreamLeast
    <3>2. QED
      BY <1>2, <2>3, <2>4, <3>1 DEF Streams!freopen
<1>3. ASSUME NEW a \in live, Streams!fclose(a)
      PROVE  unread' \in [Addresses -> 0 .. Length] /\ Streams!NoByteTwice'
  <2>1. /\ word[a] \in Fds /\ st_position' = [st_position EXCEPT ![word[a]] = NoFile]
        /\ live' = live \ {a} /\ UNCHANGED unread
        /\ \A b \in live' : word'[b] = word[b] /\ streams'[b] = streams[b]
    BY <1>0, <1>3, StreamClosed DEF Streams!fclose, Streams!Freed
  <2>2. QED
    BY <1>0, <1>f, <2>1
<1>4. ASSUME NEW a \in live, Streams!free_stream(a)
      PROVE  unread' \in [Addresses -> 0 .. Length] /\ Streams!NoByteTwice'
  BY <1>0, <1>4, <1>f DEF Streams!free_stream, Streams!Freed
<1>5. ASSUME NEW a \in live, Streams!fgetc(a)
      PROVE  unread' \in [Addresses -> 0 .. Length] /\ Streams!NoByteTwice'
  <2> DEFINE s == streams[a]
             p == st_position[word[a]]
  <2>1. /\ s \in Pushed /\ Streams!pushbacks(a) = s /\ p \in 0 .. Length
        /\ word[a] \in Fds /\ p # NoFile /\ unread[a] = p + Len(s) /\ Len(s) \in Nat
        /\ unread[a] \in 0 .. Length /\ Length \in Nat
    BY <1>0, <1>a, StreamPushed DEF Pushed, IsOpen, Streams!BoundsAssumption
  <2>2. Streams!Reaches(a, 1) <=> p + 1 <= Length
    BY <2>1 DEF Streams!Reaches
  <2>3. CASE s # <<>>
    <3>1. Len(s) > 0 /\ p + 1 <= Length
      BY <2>1, <2>3 DEF Pushed
    <3>2. /\ streams' = [streams EXCEPT ![a] = Streams!Front(s)]
          /\ st_position' = [st_position EXCEPT ![word[a]] = p + 1]
          /\ unread' = [unread EXCEPT ![a] = unread[a]] /\ UNCHANGED <<word, live>>
      BY <1>5, <2>1, <2>2, <2>3, <3>1 DEF Streams!fgetc, Streams!Seeked
    <3>3. Len(Streams!Front(s)) = Len(s) - 1
      <4>1. Len(s) - 1 \in 0 .. Len(s)
        BY <2>1, <3>1
      <4>2. QED
        BY <2>1, <4>1, PushedPrefix DEF Streams!Front
    <3> HIDE DEF s, p
    <3>4. (p + 1) + Len(Streams!Front(s)) = unread[a]
      BY <2>1, <3>3
    <3>5. QED
      BY <1>e, <2>1, <3>2, <3>4
  <2>4. CASE s = <<>>
    <3>1. streams' = [streams EXCEPT ![a] = <<>>] /\ UNCHANGED <<word, live>> /\ unread[a] = p
      BY <1>0, <1>5, <2>1, <2>4 DEF Streams!fgetc
    <3>2. CASE p + 1 <= Length
      <4>1. /\ st_position' = [st_position EXCEPT ![word[a]] = p + 1]
            /\ unread' = [unread EXCEPT ![a] = p + 1]
        BY <1>5, <2>1, <2>2, <2>4, <3>1, <3>2 DEF Streams!fgetc, Streams!Seeked
      <4> HIDE DEF p
      <4>2. p + 1 \in 0 .. Length /\ (p + 1) + Len(<<>>) = p + 1
        BY <1>0, <2>1, <3>2
      <4>3. QED
        BY <1>e, <3>1, <4>1, <4>2
    <3>3. CASE ~(p + 1 <= Length)
      <4>1. /\ st_position' = [st_position EXCEPT ![word[a]] = p]
            /\ unread' = [unread EXCEPT ![a] = p]
        BY <1>0, <1>5, <2>1, <2>2, <3>1, <3>3 DEF Streams!fgetc
      <4> HIDE DEF p
      <4>2. p + Len(<<>>) = p
        BY <1>0, <2>1
      <4>3. QED
        BY <1>e, <2>1, <3>1, <4>1, <4>2
    <3>4. QED
      BY <3>2, <3>3
  <2>5. QED
    BY <2>3, <2>4
<1>6. ASSUME NEW a \in live, NEW c \in 0 .. Length, Streams!ungetc(a, c)
      PROVE  unread' \in [Addresses -> 0 .. Length] /\ Streams!NoByteTwice'
  <2> DEFINE s == streams[a]
             p == st_position[word[a]]
  <2>1. /\ s \in Pushed /\ Streams!pushbacks(a) = s /\ p \in 0 .. Length
        /\ unread[a] = p + Len(s) /\ Len(s) \in Nat /\ unread[a] \in 0 .. Length
    BY <1>0, <1>a, StreamPushed DEF Pushed
  <2>2. /\ st_position' = [st_position EXCEPT ![word[a]] = p + (-1)]
        /\ streams' = [streams EXCEPT ![a] = Append(s, c)]
        /\ UNCHANGED <<word, live>> /\ unread' = [unread EXCEPT ![a] = unread[a]]
    BY <1>6, <2>1 DEF Streams!ungetc, Streams!Seeked
  <2> HIDE DEF s, p
  <2>3. (p + (-1)) + Len(Append(s, c)) = unread[a]
    BY <2>1 DEF Pushed
  <2>4. QED
    BY <1>e, <2>1, <2>2, <2>3
<1>7. ASSUME NEW a \in live, NEW n \in 1 .. Length, Streams!fread(a, n)
      PROVE  unread' \in [Addresses -> 0 .. Length] /\ Streams!NoByteTwice'
  <2> DEFINE s == streams[a]
             p == st_position[word[a]]
             copied == Streams!Min({n, Len(s)})
             got == Streams!Min({n - copied, Length - p})
             u == Streams!Min({p + n, Length})
  <2>1. /\ s = <<>> /\ Streams!pushbacks(a) = s /\ p \in 0 .. Length /\ unread[a] = p
        /\ n \in Nat /\ Len(s) = 0 /\ Len(s) \in Nat
    BY <1>0, <1>7, <1>a, StreamPushed DEF Streams!fread
  <2>2. copied = 0 /\ p + got = u /\ p + got \in 0 .. Length
    <3> HIDE DEF s, p
    <3>1. n \in Nat /\ Len(s) \in Nat /\ p \in 0 .. Length
      BY <2>1
    <3>2. /\ p + got \in 0 .. Length
          /\ Len(s) = 0 => copied = 0
          /\ Len(s) = 0 => p + got = u
      BY <3>1, ReadBounded
    <3>3. QED
      BY <2>1, <3>2
  <2>3. /\ streams' = [streams EXCEPT ![a] = SubSeq(s, 1, Len(s) - copied)]
        /\ st_position' = [st_position EXCEPT ![word[a]] = p + got]
        /\ unread' = [unread EXCEPT ![a] = Streams!Min({unread[a] + n - copied, Length})]
        /\ UNCHANGED <<word, live>>
    BY <1>7, <2>1 DEF Streams!fread, Streams!Seeked
  <2>4. Streams!Min({unread[a] + n - copied, Length}) = u
    <3>1. unread[a] + n - copied = p + n
      BY <2>1, <2>2
    <3>2. QED
      BY <3>1
  <2>5. Len(SubSeq(s, 1, Len(s) - copied)) = 0
    <3>1. Len(s) - copied \in 0 .. Len(s) /\ Len(s) - copied = 0 /\ s \in Pushed
      BY <2>1, <2>2 DEF Pushed
    <3>2. QED
      BY <3>1, PushedPrefix
  <2> HIDE DEF copied, got, u, s, p
  <2>6. (p + got) + Len(SubSeq(s, 1, Len(s) - copied)) = u /\ u \in 0 .. Length
    BY <2>2, <2>5
  <2>7. QED
    BY <1>e, <2>3, <2>4, <2>6
<1>8. ASSUME NEW a \in live, NEW to \in 0 .. Length, Streams!fseeko(a, to)
      PROVE  unread' \in [Addresses -> 0 .. Length] /\ Streams!NoByteTwice'
  <2>1. to + Len(<<>>) = to
    BY <1>0
  <2>2. QED
    BY <1>8, <1>e, <2>1 DEF Streams!fseeko
<1>9. ASSUME NEW a \in Addresses, Streams!malloc(a) \/ Streams!free(a)
      PROVE  unread' \in [Addresses -> 0 .. Length] /\ Streams!NoByteTwice'
  <2>1. a \notin live
    BY <1>0, <1>9 DEF Streams!malloc, Streams!free, Streams!FreeBlocks
  <2>2. /\ \A b \in live : word'[b] = word[b]
        /\ UNCHANGED <<streams, st_position, live, unread>>
    BY <1>0, <1>9, <2>1 DEF Streams!malloc, Streams!free, Streams!Freed
  <2>3. QED
    BY <1>f, <2>2
<1>10. QED
  BY <1>1, <1>2, <1>3, <1>4, <1>5, <1>6, <1>7, <1>8, <1>9
  DEF Streams!Next, Streams!fopen, Streams!freopen, Streams!fclose, Streams!fgetc, Streams!ungetc,
      Streams!fread, Streams!fseeko, Streams!free_stream

\* An open descriptor belongs to one stream, or was leaked when the guest freed its
\* FILE: no call of stdio.rs closes the descriptor of another stream or loses one, and
\* every open stream has a block of memory and a host object.
THEOREM StreamsOwnFiles ==
    ASSUME Streams!BoundsAssumption
    PROVE  Streams!Spec => [](Streams!OneStreamEach /\ Streams!LiveHasBlock)
<1>1. Streams!Init => StreamInv
  BY StreamInitial
<1>2. StreamInv /\ [Streams!Next]_(Streams!vars) => StreamInv'
  <2>1. ASSUME StreamInv, UNCHANGED Streams!vars PROVE StreamInv'
    BY <2>1 DEF Streams!vars, StreamInv, StreamTypes, Owned, IsOpen, Streams!LiveHasBlock
  <2>2. QED
    BY <2>1, StreamStep
<1>3. StreamInv => Streams!OneStreamEach /\ Streams!LiveHasBlock
  BY OwnedIs DEF StreamInv
<1>4. QED
  BY <1>1, <1>2, <1>3, PTL DEF Streams!Spec

\* A guest that does not call fread() with characters pushed back is delivered each
\* byte of a file once and in order, whatever it pushes back in between.
THEOREM BytesOnce ==
    ASSUME Streams!BoundsAssumption, ~MixesReads
    PROVE  Streams!Spec => [](Streams!TypeOK /\ Streams!NoByteTwice)
<1> DEFINE Inv == StreamInv /\ unread \in [Addresses -> 0 .. Length] /\ Streams!NoByteTwice
<1>1. Streams!Init => Inv
  BY StreamInitial
<1>2. Inv /\ [Streams!Next]_(Streams!vars) => Inv'
  <2>1. ASSUME Inv, UNCHANGED Streams!vars PROVE Inv'
    BY <2>1 DEF Streams!vars, StreamInv, StreamTypes, Owned, IsOpen, Streams!LiveHasBlock,
                Streams!NoByteTwice, Streams!pushbacks
  <2>2. QED
    BY <2>1, StreamStep, ByteStep
<1>3. Inv => Streams!TypeOK /\ Streams!NoByteTwice
  BY DEF StreamInv, StreamTypes, Pushed, Streams!TypeOK
<1>4. QED
  BY <1>1, <1>2, <1>3, PTL DEF Streams!Spec
=============================================================================
