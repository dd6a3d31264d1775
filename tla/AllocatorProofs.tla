-------------------------- MODULE AllocatorProofs ---------------------------
(***************************************************************************)
(* The heap stays a partition of the address space into valid chunks, and  *)
(* the memory it hands out reads as 0, for any page and minimum chunk      *)
(* size, any sizes and segments, and however many blocks.                  *)
(*                                                                         *)
(* Every operation of the allocator takes one chunk, or two that touch,    *)
(* and puts chunks in their place that fill the same range of addresses:   *)
(* Fills says that of a set of chunks and Refill that such a step keeps    *)
(* chunks apart and loses no address.  What is left for each operation is  *)
(* arithmetic on sizes.                                                    *)
(***************************************************************************)
EXTENDS Allocator, TLAPS

(***************************************************************************)
(* Multiples                                                               *)
(***************************************************************************)
\* The multiples of n are what % says they are.
LEMMA Multiples ==
    ASSUME NEW n \in Nat \ {0}, NEW x \in Int
    PROVE  /\ x % n = 0 => x = n * (x \div n)
           /\ \A k \in Int : x = n * k => x % n = 0
           /\ x % n \in 0 .. n - 1
<1>1. x % n \in 0 .. n - 1 /\ x \div n \in Int /\ x = n * (x \div n) + (x % n)
  OBVIOUS
<1>2. ASSUME NEW k \in Int, x = n * k PROVE x % n = 0
  <2>1. PICK q \in Int, r \in 0 .. n - 1 : x = n * q + r /\ x % n = r
    BY <1>1
  <2>2. n * (k - q) = r
    BY <1>2, <2>1
  <2>3. n * (k - q) >= n \/ n * (k - q) <= 0
    <3>1. k - q >= 1 => n * (k - q) >= n
      OBVIOUS
    <3>2. k - q <= 0 => n * (k - q) <= 0
      OBVIOUS
    <3>3. QED
      BY <2>1, <3>1, <3>2
  <2>4. QED
    BY <2>1, <2>2, <2>3
<1>3. QED
  BY <1>1, <1>2

\* Sums and differences of multiples are multiples.
LEMMA MultipleSum ==
    ASSUME NEW n \in Nat \ {0}, NEW x \in Int, NEW y \in Int,
           x % n = 0, y % n = 0
    PROVE  (x + y) % n = 0 /\ (x - y) % n = 0
<1> DEFINE j == x \div n
           k == y \div n
<1>1. j \in Int /\ k \in Int /\ x = n * j /\ y = n * k
  BY Multiples
<1> HIDE DEF j, k
<1>2. x + y = n * (j + k) /\ x - y = n * (j - k)
  BY <1>1
<1>3. QED
  BY <1>1, <1>2, Multiples

\* A positive multiple is not smaller than what it is a multiple of.
LEMMA MultipleLeast ==
    ASSUME NEW n \in Nat \ {0}, NEW x \in Int, x % n = 0, x > 0
    PROVE  x >= n
OBVIOUS

\* A multiple of a multiple is a multiple.
LEMMA MultipleOfMultiple ==
    ASSUME NEW n \in Nat \ {0}, NEW p \in Nat \ {0}, NEW x \in Int,
           x % p = 0, p % n = 0
    PROVE  x % n = 0
<1> DEFINE j == x \div p
           k == p \div n
<1>1. j \in Int /\ k \in Int /\ x = p * j /\ p = n * k
  BY Multiples
<1> HIDE DEF j, k
<1>2. x = n * (k * j)
  BY <1>1
<1>3. QED
  BY <1>1, <1>2, Multiples

\* align gives the next multiple of n.
LEMMA AlignUp ==
    ASSUME NEW n \in Nat \ {0}, NEW size \in Nat
    PROVE  /\ align(size, n) \in Nat
           /\ align(size, n) % n = 0
           /\ align(size, n) >= size
           /\ align(size, n) < size + n
<1>1. size % n \in 0 .. n - 1
  BY Multiples
<1>2. (size - (size % n)) % n = 0
  <2>1. size \div n \in Int /\ size - (size % n) = n * (size \div n)
    OBVIOUS
  <2>2. QED
    <3>1. PICK y \in Int, q \in Int : y = size - (size % n) /\ y = n * q
      BY <1>1, <2>1
    <3>2. y % n = 0
      BY <3>1, Multiples
    <3>3. QED
      BY <3>1, <3>2
<1>3. n % n = 0
  OBVIOUS
<1>4. ((size - (size % n)) + n) % n = 0
  BY <1>1, <1>2, <1>3, MultipleSum
<1>5. (size - (size % n)) + n = size + (n - (size % n))
  BY <1>1
<1>6. QED
  BY <1>1, <1>4, <1>5 DEF align

\* The size Allocator::alloc looks for: enough, at least the minimum, and a
\* multiple of the page size if it is a page or more.
LEMMA AlignedSizeFacts ==
    ASSUME NEW size \in Nat
    PROVE  /\ AlignedSize(size) \in Nat
           /\ AlignedSize(size) >= size
           /\ AlignedSize(size) >= MIN_CHUNK_SIZE
           /\ AlignedSize(size) % MIN_CHUNK_SIZE = 0
           /\ AlignedSize(size) >= PAGE_SIZE => AlignedSize(size) % PAGE_SIZE = 0
<1>0. /\ MIN_CHUNK_SIZE \in Nat \ {0} /\ PAGE_SIZE \in Nat \ {0}
      /\ PAGE_SIZE % MIN_CHUNK_SIZE = 0 /\ MIN_CHUNK_SIZE < PAGE_SIZE
  BY AllocatorAssumption
<1>1. CASE size >= PAGE_SIZE
  <2>1. AlignedSize(size) = align(size, PAGE_SIZE)
    BY <1>1 DEF AlignedSize
  <2>2. /\ align(size, PAGE_SIZE) \in Nat
        /\ align(size, PAGE_SIZE) % PAGE_SIZE = 0
        /\ align(size, PAGE_SIZE) >= size
    BY <1>0, AlignUp
  <2>3. align(size, PAGE_SIZE) % MIN_CHUNK_SIZE = 0
    BY <1>0, <2>2, MultipleOfMultiple
  <2>4. QED
    BY <1>0, <1>1, <2>1, <2>2, <2>3
<1>2. CASE size < PAGE_SIZE
  <2> DEFINE s == IF size < MIN_CHUNK_SIZE THEN MIN_CHUNK_SIZE ELSE size
             r == align(s, MIN_CHUNK_SIZE)
  <2>1. s \in Nat /\ s >= size /\ s >= MIN_CHUNK_SIZE /\ s < PAGE_SIZE
    BY <1>0, <1>2
  <2>2. AlignedSize(size) = r
    BY <1>0, <1>2 DEF AlignedSize
  <2> HIDE DEF s
  <2>3. /\ r \in Nat /\ r % MIN_CHUNK_SIZE = 0
        /\ r >= s /\ r < s + MIN_CHUNK_SIZE
    BY <1>0, <2>1, AlignUp
  <2> HIDE DEF r
  <2>4. (r - PAGE_SIZE) % MIN_CHUNK_SIZE = 0
    <3>1. \A x, y \in Int : x % MIN_CHUNK_SIZE = 0 /\ y % MIN_CHUNK_SIZE = 0
                              => (x - y) % MIN_CHUNK_SIZE = 0
      BY <1>0, MultipleSum
    <3>2. /\ r \in Int /\ PAGE_SIZE \in Int
          /\ r % MIN_CHUNK_SIZE = 0 /\ PAGE_SIZE % MIN_CHUNK_SIZE = 0
      BY <1>0, <2>3
    <3>3. QED
      BY <3>1, <3>2, Zenon
  <2>5. ~(r > PAGE_SIZE)
    BY <1>0, <2>1, <2>3, <2>4, MultipleLeast
  <2>6. PAGE_SIZE % PAGE_SIZE = 0
    BY <1>0
  <2>7. QED
    BY <1>0, <2>1, <2>2, <2>3, <2>5, <2>6
<1>3. QED
  BY <1>0, <1>1, <1>2

(***************************************************************************)
(* Chunks that fill a range                                                *)
(***************************************************************************)
\* No two of the chunks overlap.
Disjoint(S) == \A c, d \in S : Overlap(c, d) => c = d

\* Every address of the heap is in one of the chunks.
Covering(S) == \A x \in 0 .. Top - 1 : \E c \in S : x \in Bytes(c)

\* The chunks of T divide the addresses from lo up to hi between them.
Fills(T, lo, hi) ==
    /\ T \subseteq Chunks
    /\ Disjoint(T)
    /\ \A c \in T : lo <= c.base /\ End(c) <= hi
    /\ \A x \in lo .. hi - 1 : \E c \in T : x \in Bytes(c)

\* The fields of a chunk and its bytes.
LEMMA ChunkFacts ==
    ASSUME NEW c \in Chunks
    PROVE  /\ c.base \in Nat /\ c.size \in Nat \ {0}
           /\ End(c) \in Nat /\ End(c) = c.base + c.size /\ End(c) > c.base
           /\ c = Chunk(c.base, c.size)
           /\ \A x : x \in Bytes(c) <=> x \in Nat /\ c.base <= x /\ x < End(c)
BY DEF Chunks, End, Bytes, Chunk

\* A chunk made from its base and size.
LEMMA ChunkMade ==
    ASSUME NEW base \in Nat, NEW size \in Nat \ {0}
    PROVE  /\ Chunk(base, size) \in Chunks
           /\ Chunk(base, size).base = base /\ Chunk(base, size).size = size
           /\ End(Chunk(base, size)) = base + size
BY DEF Chunks, End, Chunk

\* Two chunks overlap exactly if they share a byte.
LEMMA OverlapBytes ==
    ASSUME NEW c \in Chunks, NEW d \in Chunks
    PROVE  Overlap(c, d) <=> \E x \in Nat : x \in Bytes(c) /\ x \in Bytes(d)
<1>1. /\ c.base \in Nat /\ End(c) \in Nat /\ End(c) > c.base
      /\ d.base \in Nat /\ End(d) \in Nat /\ End(d) > d.base
  BY ChunkFacts
<1>2. \A x \in Nat : /\ x \in Bytes(c) <=> c.base <= x /\ x < End(c)
                     /\ x \in Bytes(d) <=> d.base <= x /\ x < End(d)
  BY ChunkFacts
<1>3. ASSUME Overlap(c, d)
      PROVE  \E x \in Nat : x \in Bytes(c) /\ x \in Bytes(d)
  <2>1. CASE c.base <= d.base
    BY <1>1, <1>2, <1>3, <2>1 DEF Overlap
  <2>2. CASE d.base < c.base
    BY <1>1, <1>2, <1>3, <2>2 DEF Overlap
  <2>3. QED
    BY <1>1, <2>1, <2>2
<1>4. ASSUME NEW x \in Nat, x \in Bytes(c), x \in Bytes(d)
      PROVE  Overlap(c, d)
  BY <1>1, <1>2, <1>4 DEF Overlap
<1>5. QED
  BY <1>3, <1>4

\* One chunk fills its range, and no chunk an empty one.
LEMMA FillsPiece ==
    ASSUME NEW lo \in Nat, NEW hi \in Nat, lo <= hi
    PROVE  /\ lo < hi => Fills({Chunk(lo, hi - lo)}, lo, hi)
           /\ lo = hi => Fills({}, lo, hi)
<1>1. ASSUME lo < hi PROVE Fills({Chunk(lo, hi - lo)}, lo, hi)
  <2> DEFINE c == Chunk(lo, hi - lo)
  <2>1. c \in Chunks /\ c.base = lo /\ End(c) = hi
    BY <1>1, ChunkMade
  <2>2. \A x \in lo .. hi - 1 : x \in Bytes(c)
    BY <2>1, ChunkFacts
  <2> HIDE DEF c
  <2>3. Fills({c}, lo, hi)
    BY <2>1, <2>2 DEF Fills, Disjoint
  <2>4. QED
    BY <2>3 DEF c
<1>2. lo = hi => Fills({}, lo, hi)
  BY DEF Fills, Disjoint
<1>3. QED
  BY <1>1, <1>2

\* The pieces of two ranges that touch fill the range of both.
LEMMA FillsJoin ==
    ASSUME NEW lo \in Nat, NEW mid \in Nat, NEW hi \in Nat,
           NEW A, NEW B, Fills(A, lo, mid), Fills(B, mid, hi),
           lo <= mid, mid <= hi
    PROVE  Fills(A \cup B, lo, hi)
<1> DEFINE T == A \cup B
<1>1. T \subseteq Chunks
  BY DEF Fills
<1>2. \A c \in T : c.base \in Nat /\ End(c) \in Nat /\ End(c) > c.base
  BY <1>1, ChunkFacts
<1>3. /\ \A c \in A : lo <= c.base /\ End(c) <= mid
      /\ \A c \in B : mid <= c.base /\ End(c) <= hi
  BY DEF Fills
<1>4. \A c \in T : lo <= c.base /\ End(c) <= hi
  BY <1>2, <1>3
<1>5. Disjoint(T)
  <2>1. \A c \in A : \A d \in B : ~Overlap(c, d) /\ ~Overlap(d, c)
    BY <1>2, <1>3 DEF Overlap
  <2>2. Disjoint(A) /\ Disjoint(B)
    BY DEF Fills
  <2>3. QED
    BY <2>1, <2>2 DEF Disjoint
<1>6. \A x \in lo .. hi - 1 : \E c \in T : x \in Bytes(c)
  <2>1. \A x \in lo .. hi - 1 : x \in lo .. mid - 1 \/ x \in mid .. hi - 1
    OBVIOUS
  <2>2. QED
    BY <2>1 DEF Fills
<1>7. QED
  BY <1>1, <1>4, <1>5, <1>6 DEF Fills

\* What a step keeps that puts New where Old was among the chunks of S.
Refilled(S, Old, New) ==
    /\ (S \ Old) \cup New \subseteq Chunks
    /\ Disjoint((S \ Old) \cup New)
    /\ (S \ Old) \cap New = {}
    /\ Covering(S) => Covering((S \ Old) \cup New)
    /\ \A x \in Nat : \A n \in New :
           x \in Bytes(n) => \E o \in Old : x \in Bytes(o)

\* Chunks that fill the range of those they replace overlap no other chunk,
\* and no address is lost.
LEMMA Refill ==
    ASSUME NEW S, S \subseteq Chunks, Disjoint(S),
           NEW lo \in Nat, NEW hi \in Nat,
           NEW Old, Old \subseteq S, Fills(Old, lo, hi),
           NEW New, Fills(New, lo, hi)
    PROVE  Refilled(S, Old, New)
<1>1. New \subseteq Chunks /\ Disjoint(New)
  BY DEF Fills
<1>2. \A x \in Nat : \A n \in New :
          x \in Bytes(n) => \E o \in Old : x \in Bytes(o)
  <2>1. SUFFICES ASSUME NEW x \in Nat, NEW n \in New, x \in Bytes(n)
                 PROVE  \E o \in Old : x \in Bytes(o)
    OBVIOUS
  <2>2. n.base \in Nat /\ End(n) \in Nat /\ n.base <= x /\ x < End(n)
    BY <1>1, <2>1, ChunkFacts
  <2>3. lo <= n.base /\ End(n) <= hi
    BY DEF Fills
  <2>4. x \in lo .. hi - 1
    BY <2>2, <2>3
  <2>5. QED
    BY <2>4 DEF Fills
<1>3. \A s \in S \ Old : \A n \in New : ~Overlap(s, n) /\ ~Overlap(n, s)
  <2>1. SUFFICES ASSUME NEW s \in S \ Old, NEW n \in New,
                        Overlap(s, n) \/ Overlap(n, s)
                 PROVE  FALSE
    OBVIOUS
  <2>2. s \in Chunks /\ n \in Chunks
    BY <1>1
  <2>3. PICK x \in Nat : x \in Bytes(s) /\ x \in Bytes(n)
    BY <2>1, <2>2, OverlapBytes
  <2>4. PICK o \in Old : x \in Bytes(o)
    BY <1>2, <2>3
  <2>5. o \in Chunks /\ o \in S
    OBVIOUS
  <2>6. Overlap(s, o)
    BY <2>2, <2>3, <2>4, <2>5, OverlapBytes
  <2>7. QED
    BY <2>5, <2>6 DEF Disjoint
<1>4. Disjoint((S \ Old) \cup New)
  BY <1>1, <1>3 DEF Disjoint
<1>5. (S \ Old) \cap New = {}
  <2>1. \A n \in New : Overlap(n, n)
    BY <1>1, ChunkFacts DEF Overlap
  <2>2. QED
    BY <1>3, <2>1
<1>6. Covering(S) => Covering((S \ Old) \cup New)
  <2>1. \A x : \A o \in Old : x \in Bytes(o) => \E n \in New : x \in Bytes(n)
    <3>1. SUFFICES ASSUME NEW x, NEW o \in Old, x \in Bytes(o)
                   PROVE  \E n \in New : x \in Bytes(n)
      OBVIOUS
    <3>2. /\ o.base \in Nat /\ End(o) \in Nat
          /\ x \in Nat /\ o.base <= x /\ x < End(o)
      BY <3>1, ChunkFacts
    <3>3. lo <= o.base /\ End(o) <= hi
      BY DEF Fills
    <3>4. x \in lo .. hi - 1
      BY <3>2, <3>3
    <3>5. QED
      BY <3>4 DEF Fills
  <2>2. QED
    BY <2>1 DEF Covering
<1>7. QED
  BY <1>1, <1>2, <1>4, <1>5, <1>6 DEF Refilled

(***************************************************************************)
(* Sound heaps, and what each operation makes of one                       *)
(***************************************************************************)
\* Used and free chunks that keep what the allocator asserts of them: all of
\* NoOverlap and ChunksValid.
Sound(U, F) ==
    /\ U \subseteq Chunks /\ F \subseteq Chunks
    /\ U \cap F = {}
    /\ Disjoint(U \cup F)
    /\ \A c \in U \cup F : Valid(c)
    /\ \A c \in F : c.size >= MIN_CHUNK_SIZE

\* A size Allocator::alloc asks the free list for.
BlockSize(n) ==
    /\ n \in Nat
    /\ n >= MIN_CHUNK_SIZE
    /\ n % MIN_CHUNK_SIZE = 0
    /\ n >= PAGE_SIZE => n % PAGE_SIZE = 0

\* allocate_in_bucket divides a free chunk into the block and a rump of valid
\* chunks.  A rump of a page or more that is not page-aligned can only follow
\* a block of less than a page, so the part before the page boundary is never
\* too small to keep.
LEMMA CutFills ==
    ASSUME NEW f \in Chunks, Valid(f), NEW n, BlockSize(n), f.size >= n
    PROVE  /\ Cut(f, n) \in Chunks /\ Cut(f, n) \notin Rump(f, n)
           /\ Cut(f, n).base = f.base /\ Cut(f, n).size >= n
           /\ Valid(Cut(f, n))
           /\ \A r \in Rump(f, n) : Valid(r) /\ r.size >= MIN_CHUNK_SIZE
           /\ Fills({Cut(f, n)} \cup Rump(f, n), f.base, End(f))
<1> DEFINE rump  == Chunk(f.base + n, f.size - n)
           left  == Chunk(f.base + n, PAGE_SIZE - n)
           right == Chunk(f.base + PAGE_SIZE, f.size - PAGE_SIZE)
           block == Chunk(f.base, n)
<1>0. /\ MIN_CHUNK_SIZE \in Nat \ {0} /\ PAGE_SIZE \in Nat \ {0}
      /\ PAGE_SIZE % MIN_CHUNK_SIZE = 0 /\ MIN_CHUNK_SIZE < PAGE_SIZE
      /\ n \in Nat \ {0}
  BY AllocatorAssumption DEF BlockSize
<1>1. /\ f.base \in Nat /\ f.size \in Nat \ {0} /\ End(f) = f.base + f.size
      /\ f = Chunk(f.base, f.size)
  BY ChunkFacts
<1>n. /\ f.base \in Int /\ f.size \in Int /\ n \in Int
      /\ PAGE_SIZE \in Int /\ MIN_CHUNK_SIZE \in Int
  BY <1>0, <1>1
<1>2. /\ block \in Chunks /\ block.base = f.base /\ block.size = n
      /\ End(block) = f.base + n
  BY <1>0, <1>1, ChunkMade
<1>3. Valid(block)
  <2>1. n >= PAGE_SIZE => n % PAGE_SIZE = 0 /\ f.base % PAGE_SIZE = 0
    BY <1>0, <1>1 DEF Valid, BlockSize
  <2>2. QED
    BY <1>2, <2>1 DEF Valid
<1>4. rump.base = f.base + n /\ rump.size = f.size - n
  BY DEF Chunk
<1>5. ASSUME rump.size >= PAGE_SIZE, rump.base % PAGE_SIZE # 0
      PROVE  /\ f.base % PAGE_SIZE = 0 /\ f.size > PAGE_SIZE
             /\ n < PAGE_SIZE /\ PAGE_SIZE - n >= MIN_CHUNK_SIZE
             /\ f.size - PAGE_SIZE >= MIN_CHUNK_SIZE
  <2>1. f.size >= PAGE_SIZE + n /\ f.base % PAGE_SIZE = 0
    BY <1>0, <1>1, <1>4, <1>5 DEF Valid
  <2>2. \A x, y \in Int : x % PAGE_SIZE = 0 /\ y % PAGE_SIZE = 0
                          => (x + y) % PAGE_SIZE = 0
    BY <1>0, MultipleSum
  <2>3. n % PAGE_SIZE = 0 => (f.base + n) % PAGE_SIZE = 0
    BY <1>n, <2>1, <2>2, Zenon
  <2>4. n < PAGE_SIZE
    BY <1>0, <1>4, <1>5, <2>3 DEF BlockSize
  <2>5. PICK d \in Int : d = PAGE_SIZE - n /\ d > 0
    BY <1>0, <2>4
  <2>6. d % MIN_CHUNK_SIZE = 0
    <3>1. \A x, y \in Int : x % MIN_CHUNK_SIZE = 0 /\ y % MIN_CHUNK_SIZE = 0
                              => (x - y) % MIN_CHUNK_SIZE = 0
      BY <1>0, MultipleSum
    <3>2. /\ n \in Int /\ PAGE_SIZE \in Int
          /\ n % MIN_CHUNK_SIZE = 0 /\ PAGE_SIZE % MIN_CHUNK_SIZE = 0
      BY <1>0 DEF BlockSize
    <3>3. (PAGE_SIZE - n) % MIN_CHUNK_SIZE = 0
      BY <3>1, <3>2, Zenon
    <3>4. QED
      BY <2>5, <3>3
  <2>7. d >= MIN_CHUNK_SIZE
    BY <1>0, <2>5, <2>6, MultipleLeast
  <2>8. n >= MIN_CHUNK_SIZE
    BY DEF BlockSize
  <2>9. QED
    BY <1>0, <1>1, <2>1, <2>4, <2>5, <2>7, <2>8
<1>6. CASE rump.size >= PAGE_SIZE /\ rump.base % PAGE_SIZE # 0
  <2>1. /\ f.base % PAGE_SIZE = 0 /\ f.size > PAGE_SIZE
        /\ n < PAGE_SIZE /\ PAGE_SIZE - n >= MIN_CHUNK_SIZE
        /\ f.size - PAGE_SIZE >= MIN_CHUNK_SIZE
    BY <1>5, <1>6
  <2>2. /\ left \in Chunks /\ left.base = f.base + n
        /\ left.size = PAGE_SIZE - n
    <3>1. f.base + n \in Nat /\ PAGE_SIZE - n \in Nat \ {0}
      BY <1>0, <1>1, <2>1
    <3>2. QED
      BY <3>1, ChunkMade
  <2>3. /\ right \in Chunks /\ right.base = f.base + PAGE_SIZE
        /\ right.size = f.size - PAGE_SIZE
    <3>1. f.base + PAGE_SIZE \in Nat /\ f.size - PAGE_SIZE \in Nat \ {0}
      BY <1>0, <1>1, <2>1
    <3>2. QED
      BY <3>1, ChunkMade
  <2>4. Rump(f, n) = {left, right} /\ Cut(f, n) = block
    BY <1>6, <2>1, <2>2 DEF Rump, Cut
  <2>5. Valid(left)
    BY <1>0, <1>1, <2>1, <2>2 DEF Valid
  <2>6. Valid(right)
    <3>1. \A x, y \in Int : x % PAGE_SIZE = 0 /\ y % PAGE_SIZE = 0
                            => (x + y) % PAGE_SIZE = 0
      BY <1>0, MultipleSum
    <3>2. PAGE_SIZE % PAGE_SIZE = 0
      BY <1>0
    <3>3. (f.base + PAGE_SIZE) % PAGE_SIZE = 0
      BY <1>n, <2>1, <3>1, <3>2, Zenon
    <3>4. QED
      BY <2>3, <3>3 DEF Valid
  <2> DEFINE mid == f.base + PAGE_SIZE
             cut == f.base + n
             end == f.base + f.size
  <2>7. /\ Fills({Chunk(f.base, cut - f.base)}, f.base, cut)
        /\ Fills({Chunk(cut, mid - cut)}, cut, mid)
        /\ Fills({Chunk(mid, end - mid)}, mid, end)
    BY <1>0, <1>1, <2>1, FillsPiece
  <2>8. /\ cut - f.base = n /\ mid - cut = PAGE_SIZE - n
        /\ end - mid = f.size - PAGE_SIZE
    BY <1>n
  <2>9. /\ Fills({block}, f.base, cut) /\ Fills({left}, cut, mid)
        /\ Fills({right}, mid, end)
    BY <2>7, <2>8
  <2>10. /\ cut \in Nat /\ mid \in Nat /\ end \in Nat
         /\ f.base <= cut /\ cut <= mid /\ mid <= end
    BY <1>0, <1>1, <2>1
  <2> HIDE DEF cut, mid, end, block, left, right
  <2>11. Fills({left} \cup {right}, cut, end)
    BY <2>9, <2>10, FillsJoin
  <2>12. Fills({block} \cup ({left} \cup {right}), f.base, end)
    <3>1. f.base <= cut /\ cut <= end
      BY <1>1, <2>10
    <3>2. QED
      BY <1>1, <2>9, <2>10, <2>11, <3>1, FillsJoin
  <2>13. {Cut(f, n)} \cup Rump(f, n) = {block} \cup ({left} \cup {right})
    BY <2>4
  <2>14. block # left /\ block # right
    BY <1>0, <1>1, <1>2, <2>2, <2>3
  <2>15. Fills({Cut(f, n)} \cup Rump(f, n), f.base, End(f))
    BY <1>1, <2>12, <2>13 DEF end
  <2>16. QED
    BY <1>0, <1>2, <1>3, <2>1, <2>2, <2>3, <2>4, <2>5, <2>6, <2>14, <2>15
<1>7. CASE /\ ~(rump.size >= PAGE_SIZE /\ rump.base % PAGE_SIZE # 0)
           /\ rump.size >= MIN_CHUNK_SIZE
  <2>1. Rump(f, n) = {rump} /\ Cut(f, n) = block
    BY <1>7 DEF Rump, Cut
  <2>2. rump \in Chunks /\ Valid(rump)
    <3>1. f.base + n \in Nat /\ f.size - n \in Nat \ {0}
      BY <1>0, <1>1, <1>4, <1>7
    <3>2. rump \in Chunks
      BY <3>1, ChunkMade
    <3>3. QED
      BY <1>7, <3>2 DEF Valid
  <2> DEFINE cut == f.base + n
             end == f.base + f.size
  <2>3. cut \in Nat /\ end \in Nat /\ f.base < cut /\ cut < end
    BY <1>0, <1>1, <1>4, <1>7
  <2>4. /\ Fills({Chunk(f.base, cut - f.base)}, f.base, cut)
        /\ Fills({Chunk(cut, end - cut)}, cut, end)
    BY <1>1, <2>3, FillsPiece
  <2>5. cut - f.base = n /\ end - cut = f.size - n
    BY <1>0, <1>1
  <2>6. Fills({block}, f.base, cut) /\ Fills({rump}, cut, end)
    BY <2>4, <2>5
  <2> HIDE DEF cut, end, block, rump
  <2>7. Fills({block} \cup {rump}, f.base, end)
    BY <1>1, <2>3, <2>6, FillsJoin
  <2>8. block # rump
    BY <1>0, <1>1, <1>2, <1>4
  <2>9. Fills({Cut(f, n)} \cup Rump(f, n), f.base, End(f))
    BY <1>1, <2>1, <2>7 DEF end
  <2>10. QED
    BY <1>0, <1>2, <1>3, <1>7, <2>1, <2>2, <2>8, <2>9
<1>8. CASE /\ ~(rump.size >= PAGE_SIZE /\ rump.base % PAGE_SIZE # 0)
           /\ ~(rump.size >= MIN_CHUNK_SIZE)
  <2>1. Rump(f, n) = {} /\ Cut(f, n) = f
    BY <1>8 DEF Rump, Cut
  <2> DEFINE end == f.base + f.size
  <2>2. Fills({Chunk(f.base, end - f.base)}, f.base, end)
    BY <1>1, FillsPiece
  <2>3. end - f.base = f.size
    BY <1>1
  <2>4. Fills({f}, f.base, End(f))
    BY <1>1, <2>2, <2>3
  <2>5. QED
    BY <2>1, <2>4
<1>9. QED
  BY <1>6, <1>7, <1>8

\* The used chunks NewU and the free chunks NewF can take the place of Old.
Replaces(NewU, NewF, Old, lo, hi) ==
    /\ lo \in Nat /\ hi \in Nat
    /\ Fills(Old, lo, hi) /\ Fills(NewU \cup NewF, lo, hi)
    /\ NewU \cap NewF = {}
    /\ \A c \in NewU \cup NewF : Valid(c)
    /\ \A c \in NewF : c.size >= MIN_CHUNK_SIZE

\* What such a step keeps of a heap.
Replaced(U, F, NewU, NewF, Old) ==
    LET U2 == (U \ Old) \cup NewU
        F2 == (F \ Old) \cup NewF
    IN  /\ Sound(U2, F2)
        /\ Covering(U \cup F) => Covering(U2 \cup F2)
        /\ \A x \in Nat : \A n \in NewU \cup NewF :
               x \in Bytes(n) => \E o \in Old : x \in Bytes(o)

\* Refill for a heap of used and free chunks.
LEMMA SoundRefill ==
    ASSUME NEW U, NEW F, Sound(U, F),
           NEW NewU, NEW NewF, NEW Old, NEW lo, NEW hi,
           Replaces(NewU, NewF, Old, lo, hi), Old \subseteq U \cup F
    PROVE  Replaced(U, F, NewU, NewF, Old)
<1> DEFINE S == U \cup F
           New == NewU \cup NewF
           U2 == (U \ Old) \cup NewU
           F2 == (F \ Old) \cup NewF
<1>1. S \subseteq Chunks /\ Disjoint(S) /\ U \cap F = {}
  BY DEF Sound
<1>2. Refilled(S, Old, New)
  <2>1. /\ Old \subseteq S /\ Fills(Old, lo, hi) /\ Fills(New, lo, hi)
        /\ lo \in Nat /\ hi \in Nat
    BY DEF Replaces
  <2> HIDE DEF S, New
  <2>2. QED
    BY <1>1, <2>1, Refill
<1>3. U2 \cup F2 = (S \ Old) \cup New
  OBVIOUS
<1>4. U2 \cap F2 = {}
  BY <1>1, <1>2 DEF Replaces, Refilled
<1>5. \A c \in U2 \cup F2 : Valid(c)
  BY DEF Sound, Replaces
<1>6. \A c \in F2 : c.size >= MIN_CHUNK_SIZE
  BY DEF Sound, Replaces
<1>7. Sound(U2, F2)
  BY <1>2, <1>3, <1>4, <1>5, <1>6 DEF Sound, Refilled
<1>8. QED
  BY <1>2, <1>3, <1>7 DEF Replaced, Refilled

\* Allocator::alloc from a free chunk f.
LEMMA Carve ==
    ASSUME NEW U, NEW F, Sound(U, F), NEW f \in F, NEW n, BlockSize(n),
           f.size >= n
    PROVE  LET U2 == U \cup {Cut(f, n)}
               F2 == (F \ {f}) \cup Rump(f, n)
           IN  /\ Sound(U2, F2)
               /\ Covering(U \cup F) => Covering(U2 \cup F2)
               /\ \A x \in Nat : \A r \in Rump(f, n) :
                      x \in Bytes(r) => x \in Bytes(f)
               /\ Cut(f, n) \in Chunks /\ Cut(f, n) \notin Rump(f, n)
               /\ Cut(f, n).base = f.base /\ Cut(f, n).size >= n
               /\ f \notin U
<1>1. f \in Chunks /\ Valid(f) /\ f \notin U
  BY DEF Sound
<1>2. f.base \in Nat /\ f.size \in Nat /\ End(f) \in Nat
      /\ f = Chunk(f.base, f.size) /\ End(f) = f.base + f.size
      /\ f.base < End(f)
  BY <1>1, ChunkFacts
<1>3. /\ Cut(f, n) \in Chunks /\ Cut(f, n) \notin Rump(f, n)
      /\ Cut(f, n).base = f.base /\ Cut(f, n).size >= n
      /\ Valid(Cut(f, n))
      /\ \A r \in Rump(f, n) : Valid(r) /\ r.size >= MIN_CHUNK_SIZE
      /\ Fills({Cut(f, n)} \cup Rump(f, n), f.base, End(f))
  BY <1>1, CutFills
<1>4. Fills({f}, f.base, End(f))
  <2>1. Fills({Chunk(f.base, End(f) - f.base)}, f.base, End(f))
    BY <1>2, FillsPiece
  <2>2. End(f) - f.base = f.size
    BY <1>2
  <2>3. QED
    BY <1>2, <2>1, <2>2
<1> DEFINE U2 == (U \ {f}) \cup {Cut(f, n)}
           F2 == (F \ {f}) \cup Rump(f, n)
<1>5. Replaces({Cut(f, n)}, Rump(f, n), {f}, f.base, End(f))
  BY <1>2, <1>3, <1>4 DEF Replaces
<1>6. /\ Sound(U2, F2)
      /\ Covering(U \cup F) => Covering(U2 \cup F2)
      /\ \A x \in Nat : \A r \in {Cut(f, n)} \cup Rump(f, n) :
             x \in Bytes(r) => \E o \in {f} : x \in Bytes(o)
  <2>1. Replaced(U, F, {Cut(f, n)}, Rump(f, n), {f})
    BY <1>5, SoundRefill
  <2>2. QED
    BY <2>1 DEF Replaced
<1>7. U2 = U \cup {Cut(f, n)}
  BY <1>1
<1>8. QED
  BY <1>1, <1>3, <1>6, <1>7

\* The range of two chunks that touch, and the chunk that merges them.
LEMMA Touching ==
    ASSUME NEW c \in Chunks, NEW d \in Chunks, d.base = End(c)
    PROVE  /\ Fills({c, d}, c.base, End(d))
           /\ Fills({Chunk(c.base, c.size + d.size)}, c.base, End(d))
           /\ Chunk(c.base, c.size + d.size) \in Chunks
           /\ c.base \in Nat /\ End(d) \in Nat
<1>1. /\ c.base \in Nat /\ c.size \in Nat \ {0} /\ End(c) \in Nat
      /\ End(c) = c.base + c.size /\ c = Chunk(c.base, c.size)
      /\ d.base \in Nat /\ d.size \in Nat \ {0} /\ End(d) \in Nat
      /\ End(d) = d.base + d.size /\ d = Chunk(d.base, d.size)
  BY ChunkFacts
<1>2. /\ c.base < End(c) /\ End(c) < End(d)
      /\ c.base <= End(c) /\ End(c) <= End(d)
      /\ End(c) - c.base = c.size /\ End(d) - d.base = d.size
      /\ End(d) - c.base = c.size + d.size
  BY <1>1
<1>3. /\ Fills({Chunk(c.base, End(c) - c.base)}, c.base, End(c))
      /\ Fills({Chunk(d.base, End(d) - d.base)}, d.base, End(d))
      /\ Fills({Chunk(c.base, End(d) - c.base)}, c.base, End(d))
  BY <1>1, <1>2, FillsPiece
<1>4. Fills({c}, c.base, End(c)) /\ Fills({d}, End(c), End(d))
  BY <1>1, <1>2, <1>3
<1>5. Fills({c} \cup {d}, c.base, End(d))
  BY <1>1, <1>2, <1>4, FillsJoin
<1>6. {c} \cup {d} = {c, d}
  OBVIOUS
<1>7. c.size + d.size \in Nat \ {0}
  BY <1>1
<1>8. QED
  BY <1>1, <1>2, <1>3, <1>5, <1>6, <1>7, ChunkMade

\* Two chunks of a heap that touch can be replaced by the chunk of both.
LEMMA MergeReplaces ==
    ASSUME NEW U, NEW F, Sound(U, F),
           NEW c \in U \cup F, NEW d \in U \cup F, d.base = End(c),
           NEW m, m = Chunk(c.base, c.size + d.size), Valid(m),
           m.size >= MIN_CHUNK_SIZE
    PROVE  Replaced(U, F, {}, {m}, {c, d})
<1>1. c \in Chunks /\ d \in Chunks
  BY DEF Sound
<1>2. /\ Fills({c, d}, c.base, End(d)) /\ Fills({m}, c.base, End(d))
      /\ c.base \in Nat /\ End(d) \in Nat
  BY <1>1, Touching
<1>3. {} \cup {m} = {m} /\ {c, d} \subseteq U \cup F
  OBVIOUS
<1>4. Replaces({}, {m}, {c, d}, c.base, End(d))
  BY <1>2, <1>3 DEF Replaces
<1>5. QED
  BY <1>3, <1>4, SoundRefill

\* Only one chunk of a heap starts, and only one ends, at an address.
LEMMA OneNeighbour ==
    ASSUME NEW U, NEW F, Sound(U, F), NEW c \in U \cup F, NEW d \in U \cup F
    PROVE  /\ c.base = d.base => c = d
           /\ End(c) = End(d) => c = d
<1>1. c \in Chunks /\ d \in Chunks /\ (Overlap(c, d) => c = d)
  BY DEF Sound, Disjoint
<1>2. /\ c.base \in Nat /\ End(c) \in Nat /\ c.base < End(c)
      /\ d.base \in Nat /\ End(d) \in Nat /\ d.base < End(d)
  BY <1>1, ChunkFacts
<1>3. QED
  BY <1>1, <1>2 DEF Overlap

\* What Allocator::free keeps of a heap.
FreedWell(U, F, c) ==
    LET F2 == Freed(F, c)
        U2 == U \ {c}
    IN  /\ Sound(U2, F2)
        /\ Covering(U \cup F) => Covering(U2 \cup F2)
        /\ \A x \in Nat : \A d \in F2 :
               x \in Bytes(d) => x \in Bytes(c) \/ \E e \in F : x \in Bytes(e)

\* Allocator::free of a used chunk c.
LEMMA Freeing ==
    ASSUME NEW U, NEW F, Sound(U, F), NEW c \in U, c.size >= MIN_CHUNK_SIZE
    PROVE  FreedWell(U, F, c)
<1> DEFINE after  == {d \in F : d.base = End(c)}
           before == {d \in F : End(d) = c.base}
           near   == IF after # {} THEN after ELSE before
           Merge(d) == Chunk(IF d.base < c.base THEN d.base ELSE c.base,
                             d.size + c.size)
           merged == {Merge(d) : d \in near}
           kept   == IF near # {} /\ \A m \in merged : Valid(m)
                     THEN (F \ near) \cup merged
                     ELSE F \cup {c}
<1>0. MIN_CHUNK_SIZE \in Nat \ {0}
  BY AllocatorAssumption
<1>1. /\ c \in Chunks /\ c \notin F /\ F \subseteq Chunks
      /\ \A d \in F : d.size >= MIN_CHUNK_SIZE
  BY DEF Sound
<1>2. Freed(F, c) = {d \in kept : d.size >= MIN_CHUNK_SIZE}
  BY DEF Freed
<1>3. /\ c.base \in Nat /\ c.size \in Nat \ {0} /\ End(c) = c.base + c.size
      /\ \A d \in F : /\ d.base \in Nat /\ d.size \in Nat \ {0}
                      /\ End(d) = d.base + d.size
  BY <1>1, ChunkFacts
<1>4. CASE kept = F \cup {c}
  <2>1. Freed(F, c) = F \cup {c}
    BY <1>1, <1>2, <1>4
  <2> DEFINE F2 == F \cup {c}
             U2 == U \ {c}
  <2>2. U2 \cup F2 = U \cup F
    OBVIOUS
  <2>3. Sound(U2, F2)
    BY <1>1, <2>2 DEF Sound
  <2>4. QED
    BY <2>1, <2>2, <2>3 DEF FreedWell
<1>5. CASE near # {} /\ \A m \in merged : Valid(m)
  <2>1. PICK d : d \in near
    BY <1>5
  <2>2. d \in F /\ (d.base = End(c) \/ End(d) = c.base)
    BY <2>1
  <2>3. near = {d}
    <3>1. \A e \in F : (e.base = d.base => e = d) /\ (End(e) = End(d) => e = d)
      BY <2>2, OneNeighbour
    <3>2. CASE after # {}
      <4>1. near = after /\ d.base = End(c)
        BY <2>1, <3>2
      <4>2. QED
        BY <2>1, <3>1, <4>1
    <3>3. CASE after = {}
      <4>1. near = before /\ End(d) = c.base
        BY <2>1, <3>3
      <4>2. QED
        BY <2>1, <3>1, <4>1
    <3>4. QED
      BY <3>2, <3>3
  <2> DEFINE m == Merge(d)
  <2>4. merged = {m} /\ Valid(m)
    BY <1>5, <2>3
  <2>5. kept = (F \ {d}) \cup {m}
    BY <1>5, <2>3, <2>4
  <2>6. m.size = d.size + c.size /\ m.size >= MIN_CHUNK_SIZE
    BY <1>0, <1>1, <1>3, <2>2 DEF Chunk
  <2>7. Replaced(U, F, {}, {m}, {c, d})
    <3>1. CASE d.base = End(c)
      <4>1. m = Chunk(c.base, c.size + d.size)
        BY <1>3, <2>2, <3>1
      <4>2. QED
        BY <2>2, <2>4, <2>6, <3>1, <4>1, MergeReplaces
    <3>2. CASE End(d) = c.base
      <4>1. m = Chunk(d.base, d.size + c.size)
        BY <1>3, <2>2, <3>2
      <4>2. Replaced(U, F, {}, {m}, {d, c})
        BY <2>2, <2>4, <2>6, <3>2, <4>1, MergeReplaces
      <4>3. {d, c} = {c, d}
        OBVIOUS
      <4>4. QED
        BY <4>2, <4>3
    <3>3. QED
      BY <2>2, <3>1, <3>2
  <2> HIDE DEF kept, m
  <2>8. d \notin U
    BY <2>2 DEF Sound
  <2>9. /\ (U \ {c, d}) \cup {} = U \ {c}
        /\ (F \ {c, d}) \cup {m} = (F \ {d}) \cup {m}
    BY <1>1, <2>8
  <2>10. Freed(F, c) = (F \ {d}) \cup {m}
    BY <1>1, <1>2, <2>5, <2>6
  <2>11. /\ Sound(U \ {c}, Freed(F, c))
         /\ Covering(U \cup F) => Covering((U \ {c}) \cup Freed(F, c))
         /\ \A x \in Nat : x \in Bytes(m) => x \in Bytes(c) \/ x \in Bytes(d)
    BY <2>7, <2>9, <2>10 DEF Replaced
  <2>12. QED
    BY <2>2, <2>10, <2>11 DEF FreedWell
<1>6. QED
  BY <1>4, <1>5

\* What Allocator::grow_in_place keeps of a heap.
GrownWell(U, F, c, a, size) ==
    LET grown == Chunk(c.base, GrownSize(c, a, size))
        U2 == (U \ {c}) \cup {grown}
        F2 == (F \ {a}) \cup GrowRest(c, a, size)
    IN  /\ Sound(U2, F2)
        /\ Covering(U \cup F) => Covering(U2 \cup F2)
        /\ grown \in Chunks /\ grown.size >= size
        /\ \A x \in Nat : \A d \in {grown} \cup GrowRest(c, a, size) :
               x \in Bytes(d) => x \in Bytes(c) \/ x \in Bytes(a)
        /\ \A x \in Nat : \A d \in GrowRest(c, a, size) :
               x \in Bytes(d) => x \in Bytes(a) /\ x \notin Bytes(c)

\* Allocator::grow_in_place of a used chunk c into the free chunk a.
LEMMA Growing ==
    ASSUME NEW U, NEW F, Sound(U, F), NEW c \in U, NEW a \in F,
           NEW size \in Nat, c.size < size, CanGrow(c, a, size)
    PROVE  GrownWell(U, F, c, a, size)
<1> DEFINE new   == GrownSize(c, a, size)
           grown == Chunk(c.base, new)
           end   == c.base + new
           rest  == GrowRest(c, a, size)
<1>0. /\ MIN_CHUNK_SIZE \in Nat \ {0} /\ PAGE_SIZE \in Nat
      /\ MIN_CHUNK_SIZE < PAGE_SIZE
  BY AllocatorAssumption
<1>1. /\ c \in Chunks /\ a \in Chunks /\ c \notin F /\ a \notin U /\ Valid(c)
      /\ Valid(a) /\ a.size >= MIN_CHUNK_SIZE
  BY DEF Sound
<1>2. /\ c.base \in Nat /\ c.size \in Nat \ {0} /\ End(c) = c.base + c.size
      /\ a.base \in Nat /\ a.size \in Nat \ {0} /\ End(a) = a.base + a.size
      /\ End(c) \in Nat /\ End(a) \in Nat
  BY <1>1, ChunkFacts
<1>3. a.base = End(c) /\ a.size >= size - c.size /\ Valid(grown)
  BY DEF CanGrow
<1>4. \/ new = c.size + a.size
      \/ /\ new = size /\ a.size < PAGE_SIZE
         /\ a.size - (size - c.size) >= MIN_CHUNK_SIZE
  BY <1>0, <1>2 DEF GrownSize
<1>5. /\ new \in Nat \ {0} /\ new >= size /\ end \in Nat
      /\ c.base < end /\ c.base <= end /\ end <= End(a) /\ End(c) < end
      /\ end = End(a) \/ (/\ End(a) - end >= MIN_CHUNK_SIZE
                          /\ End(a) - end < PAGE_SIZE)
  BY <1>0, <1>2, <1>3, <1>4
<1>6. /\ grown \in Chunks /\ grown.base = c.base /\ grown.size = new
      /\ End(grown) = end
  BY <1>2, <1>5, ChunkMade
<1>7. rest = IF end = End(a) THEN {} ELSE {Chunk(end, End(a) - end)}
  BY <1>6 DEF GrowRest
<1>8. Fills({grown}, c.base, end)
  <2>1. Fills({Chunk(c.base, end - c.base)}, c.base, end)
    BY <1>2, <1>5, FillsPiece
  <2>2. end - c.base = new
    BY <1>2, <1>5
  <2>3. QED
    BY <2>1, <2>2
<1>9. Fills(rest, end, End(a))
  <2>1. CASE end = End(a)
    <3>1. Fills({}, end, End(a))
      BY <1>2, <1>5, <2>1, FillsPiece
    <3>2. QED
      BY <1>7, <2>1, <3>1
  <2>2. CASE end # End(a)
    <3>1. end < End(a) /\ end <= End(a)
      BY <1>2, <1>5, <2>2
    <3>2. Fills({Chunk(end, End(a) - end)}, end, End(a))
      BY <1>2, <1>5, <3>1, FillsPiece
    <3>3. QED
      BY <1>7, <2>2, <3>2
  <2>3. QED
    BY <2>1, <2>2
<1>10. \A d \in rest : /\ d.base = end /\ d.size = End(a) - end
                       /\ d.size >= MIN_CHUNK_SIZE /\ Valid(d)
                       /\ d \in Chunks
  <2>1. end # End(a) => /\ Chunk(end, End(a) - end) \in Chunks
                        /\ Chunk(end, End(a) - end).base = end
                        /\ Chunk(end, End(a) - end).size = End(a) - end
    <3>1. end # End(a) => End(a) - end \in Nat \ {0}
      BY <1>2, <1>5
    <3>2. QED
      BY <1>5, <3>1, ChunkMade
  <2>2. QED
    BY <1>0, <1>2, <1>5, <1>7, <2>1 DEF Valid
<1> HIDE DEF grown, end, rest, new
<1>11. Fills({grown} \cup rest, c.base, End(a))
  BY <1>2, <1>5, <1>8, <1>9, FillsJoin
<1>12. Fills({c, a}, c.base, End(a))
  BY <1>1, <1>3, Touching
<1>13. grown \notin rest
  BY <1>2, <1>5, <1>6, <1>10
<1>14. Replaces({grown}, rest, {c, a}, c.base, End(a))
  BY <1>2, <1>3, <1>10, <1>11, <1>12, <1>13 DEF Replaces
<1>15. Replaced(U, F, {grown}, rest, {c, a})
  BY <1>14, SoundRefill
<1>16. (U \ {c, a}) = U \ {c} /\ F \ {c, a} = F \ {a}
  BY <1>1
<1>17. /\ Sound((U \ {c}) \cup {grown}, (F \ {a}) \cup rest)
       /\ Covering(U \cup F)
              => Covering(((U \ {c}) \cup {grown}) \cup ((F \ {a}) \cup rest))
       /\ \A x \in Nat : \A d \in {grown} \cup rest :
              x \in Bytes(d) => x \in Bytes(c) \/ x \in Bytes(a)
  BY <1>15, <1>16 DEF Replaced
<1>18. \A x \in Nat : \A d \in rest :
           x \in Bytes(d) => x \in Bytes(a) /\ x \notin Bytes(c)
  <2>1. \A x \in Nat : \A d \in rest : x \in Bytes(d) => end <= x
    BY <1>10, ChunkFacts
  <2>2. \A x \in Nat : x \in Bytes(c) => x < End(c)
    BY <1>1, ChunkFacts
  <2>3. \A x \in Nat : end <= x => ~(x < End(c))
    BY <1>2, <1>5
  <2>4. QED
    BY <1>17, <2>1, <2>2, <2>3
<1>19. QED
  BY <1>5, <1>6, <1>17, <1>18 DEF GrownWell, grown, rest, new

\* A chunk whose ends are multiples of the minimum size.
Aligned(c) == c.base % MIN_CHUNK_SIZE = 0 /\ c.size % MIN_CHUNK_SIZE = 0

\* What Allocator::reserve keeps of a heap.
ReservedWell(U, F, c, f) ==
    LET U2 == U \cup {c}
        F2 == (F \ {f}) \cup {d \in Around(c, f) : d.size >= MIN_CHUNK_SIZE}
    IN  /\ Sound(U2, F2)
        /\ \A x \in Nat : \A d \in F2 \ F : x \in Bytes(d) => x \in Bytes(f)
        /\ Aligned(c) /\ Aligned(f) =>
               /\ \A d \in F2 \ F : Aligned(d)
               /\ Covering(U \cup F) => Covering(U2 \cup F2)

\* The pieces trisect_by leaves of the free chunk f around c.
LEMMA AroundFacts ==
    ASSUME NEW f \in Chunks, NEW c \in Chunks, Within(c, f)
    PROVE  /\ Fills({c} \cup Around(c, f), f.base, End(f))
           /\ c \notin Around(c, f)
           /\ Aligned(c) /\ Aligned(f) =>
                  \A d \in Around(c, f) :
                      Aligned(d) /\ d.size >= MIN_CHUNK_SIZE
<1> DEFINE first == Chunk(f.base, c.base - f.base)
           last  == Chunk(End(c), End(f) - End(c))
           A     == IF f.base < c.base THEN {first} ELSE {}
           B     == IF End(c) < End(f) THEN {last} ELSE {}
<1>0. MIN_CHUNK_SIZE \in Nat \ {0}
  BY AllocatorAssumption
<1>1. /\ c.base \in Nat /\ c.size \in Nat \ {0} /\ End(c) = c.base + c.size
      /\ f.base \in Nat /\ f.size \in Nat \ {0} /\ End(f) = f.base + f.size
      /\ End(c) \in Nat /\ End(f) \in Nat /\ c.base < End(c)
      /\ c.base <= End(c) /\ c = Chunk(c.base, c.size)
  BY ChunkFacts
<1>2. f.base <= c.base /\ End(c) <= End(f)
  BY DEF Within
<1>3. /\ first.base = f.base /\ first.size = c.base - f.base
      /\ last.base = End(c) /\ last.size = End(f) - End(c)
  BY DEF Chunk
<1>4. Around(c, f) = A \cup B
  <2>1. Around(c, f) = {d \in {first, last} : d.size > 0}
    BY DEF Around
  <2>2. first.size > 0 <=> f.base < c.base
    BY <1>1, <1>3
  <2>3. last.size > 0 <=> End(c) < End(f)
    BY <1>1, <1>3
  <2> HIDE DEF first, last
  <2>4. QED
    BY <2>1, <2>2, <2>3
<1>5. Fills(A, f.base, c.base)
  <2>1. CASE f.base < c.base
    BY <1>1, <2>1, FillsPiece
  <2>2. CASE f.base = c.base
    <3>1. Fills({}, f.base, c.base)
      BY <1>1, <1>2, <2>2, FillsPiece
    <3>2. QED
      BY <1>1, <2>2, <3>1
  <2>3. QED
    BY <1>1, <1>2, <2>1, <2>2
<1>6. Fills(B, End(c), End(f))
  <2>1. CASE End(c) < End(f)
    BY <1>1, <2>1, FillsPiece
  <2>2. CASE End(c) = End(f)
    <3>1. Fills({}, End(c), End(f))
      BY <1>1, <1>2, <2>2, FillsPiece
    <3>2. QED
      BY <1>1, <2>2, <3>1
  <2>3. QED
    BY <1>1, <1>2, <2>1, <2>2
<1>7. Fills({c}, c.base, End(c))
  <2>1. Fills({Chunk(c.base, End(c) - c.base)}, c.base, End(c))
    BY <1>1, FillsPiece
  <2>2. End(c) - c.base = c.size
    BY <1>1
  <2>3. QED
    BY <1>1, <2>1, <2>2
<1>8. c \notin A \cup B
  <2>1. f.base < c.base => first # c
    BY <1>1, <1>3
  <2>2. End(c) < End(f) => last # c
    BY <1>1, <1>3
  <2> HIDE DEF first, last
  <2>3. QED
    BY <2>1, <2>2
<1>9. ASSUME Aligned(c), Aligned(f)
      PROVE  \A d \in A \cup B : Aligned(d) /\ d.size >= MIN_CHUNK_SIZE
  <2>1. \A x, y \in Int : x % MIN_CHUNK_SIZE = 0 /\ y % MIN_CHUNK_SIZE = 0
                   => /\ (x + y) % MIN_CHUNK_SIZE = 0
                      /\ (x - y) % MIN_CHUNK_SIZE = 0
    BY <1>0, MultipleSum
  <2>2. /\ c.base \in Int /\ c.size \in Int /\ f.base \in Int /\ f.size \in Int
        /\ End(c) \in Int /\ End(f) \in Int
        /\ End(c) = c.base + c.size /\ End(f) = f.base + f.size
        /\ c.base - f.base \in Int /\ End(f) - End(c) \in Int
    BY <1>1
  <2>3. /\ c.base % MIN_CHUNK_SIZE = 0 /\ c.size % MIN_CHUNK_SIZE = 0
        /\ f.base % MIN_CHUNK_SIZE = 0 /\ f.size % MIN_CHUNK_SIZE = 0
    BY <1>9 DEF Aligned
  <2>4. End(c) % MIN_CHUNK_SIZE = 0 /\ End(f) % MIN_CHUNK_SIZE = 0
    <3>1. /\ (c.base + c.size) % MIN_CHUNK_SIZE = 0
          /\ (f.base + f.size) % MIN_CHUNK_SIZE = 0
      BY <2>1, <2>2, <2>3, Zenon
    <3>2. QED
      BY <2>2, <3>1
  <2>5. /\ (c.base - f.base) % MIN_CHUNK_SIZE = 0
        /\ (End(f) - End(c)) % MIN_CHUNK_SIZE = 0
    BY <2>1, <2>2, <2>3, <2>4, Zenon
  <2>6. Aligned(first) /\ Aligned(last)
    BY <1>3, <2>3, <2>4, <2>5 DEF Aligned
  <2>7. \A x \in Int : x % MIN_CHUNK_SIZE = 0 /\ x > 0 => x >= MIN_CHUNK_SIZE
    BY <1>0, MultipleLeast
  <2>8. f.base < c.base => c.base - f.base > 0
    BY <1>1
  <2>9. End(c) < End(f) => End(f) - End(c) > 0
    BY <1>1
  <2>10. /\ f.base < c.base => first.size >= MIN_CHUNK_SIZE
         /\ End(c) < End(f) => last.size >= MIN_CHUNK_SIZE
    BY <1>3, <2>2, <2>5, <2>7, <2>8, <2>9, Zenon
  <2> HIDE DEF first, last
  <2>11. QED
    BY <2>6, <2>10
<1> HIDE DEF A, B
<1>10. Fills(A \cup {c}, f.base, End(c))
  BY <1>1, <1>2, <1>5, <1>7, FillsJoin
<1>11. Fills((A \cup {c}) \cup B, f.base, End(f))
  <2>1. f.base <= End(c)
    BY <1>1, <1>2
  <2>2. QED
    BY <1>1, <1>2, <1>6, <1>10, <2>1, FillsJoin
<1>12. (A \cup {c}) \cup B = {c} \cup Around(c, f)
  BY <1>4
<1>13. QED
  BY <1>4, <1>8, <1>9, <1>11, <1>12

\* Sound heaps stay sound without some of their free chunks.
LEMMA SoundFewer ==
    ASSUME NEW U, NEW F, NEW G, G \subseteq F,
           U \subseteq Chunks, F \subseteq Chunks, U \cap F = {},
           Disjoint(U \cup F), \A c \in U \cup F : Valid(c),
           \A c \in G : c.size >= MIN_CHUNK_SIZE
    PROVE  Sound(U, G)
BY DEF Sound, Disjoint

\* Allocator::reserve of a chunk c inside the free chunk f.  Pieces below the
\* minimum size are dropped: there are none if c and f are aligned.
LEMMA Reserving ==
    ASSUME NEW U, NEW F, Sound(U, F), NEW f \in F, NEW c \in Chunks,
           Within(c, f), Valid(c), \A d \in Around(c, f) : Valid(d)
    PROVE  ReservedWell(U, F, c, f)
<1> DEFINE A    == Around(c, f)
           kept == {d \in A : d.size >= MIN_CHUNK_SIZE}
           U2   == U \cup {c}
           G    == (F \ {f}) \cup A
           F2   == (F \ {f}) \cup kept
<1>1. f \in Chunks /\ f \notin U
  BY DEF Sound
<1>2. /\ f.base \in Nat /\ End(f) \in Nat /\ f.base <= End(f)
      /\ f.size = End(f) - f.base /\ f = Chunk(f.base, f.size)
      /\ f.base < End(f)
  BY <1>1, ChunkFacts
<1>3. /\ Fills({c} \cup A, f.base, End(f)) /\ c \notin A
      /\ Aligned(c) /\ Aligned(f) =>
             \A d \in A : Aligned(d) /\ d.size >= MIN_CHUNK_SIZE
  BY <1>1, AroundFacts
<1>4. Fills({f}, f.base, End(f))
  BY <1>2, FillsPiece
<1> HIDE DEF A
<1>5. Refilled(U \cup F, {f}, {c} \cup A)
  <2>1. U \cup F \subseteq Chunks /\ Disjoint(U \cup F) /\ {f} \subseteq U \cup F
    BY DEF Sound
  <2>2. QED
    BY <1>2, <1>3, <1>4, <2>1, Refill
<1>6. ((U \cup F) \ {f}) \cup ({c} \cup A) = U2 \cup G
  BY <1>1
<1>7. /\ U2 \cup G \subseteq Chunks /\ Disjoint(U2 \cup G)
      /\ Covering(U \cup F) => Covering(U2 \cup G)
      /\ \A x \in Nat : \A d \in A : x \in Bytes(d) => x \in Bytes(f)
  BY <1>5, <1>6 DEF Refilled
<1>8. U2 \cap G = {}
  BY <1>1, <1>3, <1>5 DEF Refilled, Sound
<1>9. \A d \in U2 \cup G : Valid(d)
  BY DEF Sound, A
<1>10. \A d \in F2 : d.size >= MIN_CHUNK_SIZE
  BY DEF Sound
<1>11. F2 \subseteq G
  OBVIOUS
<1>12. Sound(U2, F2)
  BY <1>7, <1>8, <1>9, <1>10, <1>11, SoundFewer
<1>13. ASSUME Aligned(c), Aligned(f)
       PROVE  /\ \A d \in F2 \ F : Aligned(d)
              /\ Covering(U \cup F) => Covering(U2 \cup F2)
  <2>1. F2 = G
    BY <1>3, <1>13
  <2>2. \A d \in F2 \ F : Aligned(d)
    BY <1>3, <1>13
  <2>3. QED
    BY <1>7, <2>1, <2>2
<1>14. \A x \in Nat : \A d \in F2 \ F : x \in Bytes(d) => x \in Bytes(f)
  BY <1>7
<1>15. QED
  BY <1>12, <1>13, <1>14 DEF ReservedWell, A

(***************************************************************************)
(* The invariants                                                          *)
(***************************************************************************)
\* Blocks are never smaller than the minimum, so that freeing one never drops
\* it; only a reserved segment may be.
HeapSizes == \A c \in HeapChunks : c.size >= MIN_CHUNK_SIZE

HeapInv ==
    /\ TypeOK
    /\ Sound(used_chunks, unused_chunks)
    /\ HeapSizes

\* The loader's segments are multiples of the minimum size.
SegmentsAligned == \A c \in Segments : Aligned(c)

\* While segments are being reserved, no piece of free memory is too small to
\* keep.  Blocks of other sizes appear later, when realloc grows one in place.
CoverInv ==
    /\ Covering(used_chunks \cup unused_chunks)
    /\ loading => \A f \in unused_chunks : Aligned(f)

\* Free memory reads as 0, and so does memory that was just handed out.
ZeroInv ==
    /\ \A f \in unused_chunks : \A x \in Bytes(f) : x \notin dirty
    /\ \A x \in fresh : x \notin dirty

\* A step that keeps the three invariants.
Keeps ==
    /\ HeapInv'
    /\ SegmentsAligned /\ CoverInv => CoverInv'
    /\ ZeroOnFree /\ ZeroInv => ZeroInv'

\* The constants, for a step.
LEMMA Constants ==
    /\ MIN_CHUNK_SIZE \in Nat \ {0} /\ PAGE_SIZE \in Nat \ {0}
    /\ PAGE_SIZE % MIN_CHUNK_SIZE = 0 /\ MIN_CHUNK_SIZE < PAGE_SIZE
    /\ Top \in Nat /\ Top > PAGE_SIZE /\ Top % PAGE_SIZE = 0
    /\ Sizes \subseteq Nat /\ Segments \subseteq Chunks
    /\ ZeroOnFree \in BOOLEAN
BY AllocatorAssumption DEF Chunks

\* The invariants of the initial state: the null page and the rest.
LEMMA InitHeap == ASSUME Init PROVE HeapInv /\ CoverInv /\ ZeroInv
<1> DEFINE null == Chunk(0, PAGE_SIZE)
           heap == Chunk(PAGE_SIZE, Top - PAGE_SIZE)
<1>1. /\ used_chunks = {null} /\ reserved = {null} /\ unused_chunks = {heap}
      /\ dirty = {} /\ fresh = {} /\ loading = TRUE /\ panic = FALSE
  BY DEF Init
<1>2. /\ null \in Chunks /\ null.base = 0 /\ null.size = PAGE_SIZE
      /\ End(null) = PAGE_SIZE
  <2>1. 0 \in Nat /\ PAGE_SIZE \in Nat \ {0} /\ 0 + PAGE_SIZE = PAGE_SIZE
    BY Constants
  <2>2. /\ null \in Chunks /\ null.base = 0 /\ null.size = PAGE_SIZE
        /\ End(null) = 0 + PAGE_SIZE
    BY <2>1, ChunkMade, Zenon
  <2>3. QED
    BY <2>1, <2>2
<1>3. /\ heap \in Chunks /\ heap.base = PAGE_SIZE
      /\ heap.size = Top - PAGE_SIZE /\ End(heap) = Top
  <2>1. Top - PAGE_SIZE \in Nat \ {0} /\ PAGE_SIZE + (Top - PAGE_SIZE) = Top
    BY Constants
  <2>2. QED
    BY <2>1, Constants, ChunkMade
<1>4. /\ PAGE_SIZE % PAGE_SIZE = 0 /\ 0 % PAGE_SIZE = 0
      /\ 0 % MIN_CHUNK_SIZE = 0
  BY Constants
<1>5. /\ Top % MIN_CHUNK_SIZE = 0 /\ (Top - PAGE_SIZE) % MIN_CHUNK_SIZE = 0
  <2>1. Top % MIN_CHUNK_SIZE = 0
    <3>1. /\ MIN_CHUNK_SIZE \in Nat \ {0} /\ PAGE_SIZE \in Nat \ {0}
          /\ Top \in Int
          /\ Top % PAGE_SIZE = 0 /\ PAGE_SIZE % MIN_CHUNK_SIZE = 0
      BY Constants
    <3>2. QED
      BY <3>1, MultipleOfMultiple, Zenon
  <2>2. \A x, y \in Int : x % MIN_CHUNK_SIZE = 0 /\ y % MIN_CHUNK_SIZE = 0
                          => (x - y) % MIN_CHUNK_SIZE = 0
    BY Constants, MultipleSum
  <2>3. Top \in Int /\ PAGE_SIZE \in Int /\ PAGE_SIZE % MIN_CHUNK_SIZE = 0
    BY Constants
  <2>4. QED
    BY <2>1, <2>2, <2>3, Zenon
<1>6. heap.size >= MIN_CHUNK_SIZE
  <2>1. PICK d \in Int : d = Top - PAGE_SIZE /\ d > 0
    BY Constants
  <2>2. d >= MIN_CHUNK_SIZE
    BY <1>5, <2>1, Constants, MultipleLeast
  <2>3. QED
    BY <1>3, <2>1, <2>2
<1>7. Aligned(heap)
  BY <1>3, <1>5, Constants DEF Aligned
<1>8. Valid(null) /\ Valid(heap)
  BY <1>2, <1>3, <1>4 DEF Valid
<1>9. null # heap /\ ~Overlap(null, heap) /\ ~Overlap(heap, null)
  BY <1>2, <1>3, Constants DEF Overlap
<1>10. Covering({null, heap})
  <2>1. /\ \A x : x \in Bytes(null) <=> x \in Nat /\ 0 <= x /\ x < PAGE_SIZE
        /\ \A x : x \in Bytes(heap) <=> x \in Nat /\ PAGE_SIZE <= x /\ x < Top
    BY <1>2, <1>3, ChunkFacts
  <2> HIDE DEF null, heap
  <2>2. QED
    BY <2>1, Constants DEF Covering
<1> HIDE DEF null, heap
<1>11. TypeOK /\ HeapSizes
  BY <1>1, <1>2, <1>3 DEF TypeOK, HeapSizes, HeapChunks
<1>12. Sound(used_chunks, unused_chunks)
  BY <1>1, <1>2, <1>3, <1>6, <1>8, <1>9 DEF Sound, Disjoint
<1>13. CoverInv
  <2>1. used_chunks \cup unused_chunks = {null, heap}
    BY <1>1
  <2>2. QED
    BY <1>1, <1>7, <1>10, <2>1 DEF CoverInv
<1>14. ZeroInv
  BY <1>1 DEF ZeroInv
<1>15. QED
  BY <1>11, <1>12, <1>13, <1>14 DEF HeapInv

\* What the best fits of a size are good for.
LEMMA BestFitFacts ==
    ASSUME HeapInv, NEW size \in Sizes, NEW n, n = AlignedSize(size),
           NEW b \in BestFits(unused_chunks, n)
    PROVE  /\ b \in unused_chunks /\ b \in Chunks /\ b.size >= n
           /\ BlockSize(n) /\ n >= size /\ size \in Nat /\ n \in Nat
           /\ Prefix(b, size) \subseteq Bytes(b)
           /\ Prefix(b, size) \subseteq Nat
<1>1. b \in unused_chunks /\ b.size >= n
  BY DEF BestFits, Fits
<1>2. b \in Chunks
  BY <1>1 DEF HeapInv, TypeOK
<1>3. size \in Nat
  BY Constants
<1>4. /\ n \in Nat /\ n >= size /\ BlockSize(n)
  BY <1>3, AlignedSizeFacts DEF BlockSize
<1>5. /\ b.base \in Nat /\ b.size \in Nat /\ End(b) = b.base + b.size
      /\ \A x : x \in Bytes(b) <=> x \in Nat /\ b.base <= x /\ x < End(b)
  BY <1>2, ChunkFacts
<1>6. \A x \in Prefix(b, size) : x \in Nat /\ b.base <= x /\ x < End(b)
  BY <1>1, <1>3, <1>4, <1>5 DEF Prefix
<1>7. QED
  BY <1>1, <1>2, <1>3, <1>4, <1>5, <1>6

(***************************************************************************)
(* The steps                                                               *)
(***************************************************************************)
\* Everything is loaded: what is left to show of such a step.
LEMMA LoadedKeeps ==
    ASSUME HeapInv, Loaded,
           Sound(used_chunks', unused_chunks'),
           reserved \subseteq used_chunks',
           dirty' \subseteq Nat, fresh' \subseteq Nat,
           \A c \in used_chunks' :
               c \in used_chunks \/ c.size >= MIN_CHUNK_SIZE,
           Covering(used_chunks \cup unused_chunks)
               => Covering(used_chunks' \cup unused_chunks'),
           ZeroOnFree /\ ZeroInv => ZeroInv'
    PROVE  Keeps
<1>1. loading' = FALSE /\ reserved' = reserved /\ panic' = panic
  BY DEF Loaded
<1>2. TypeOK'
  BY <1>1 DEF TypeOK, HeapInv, Sound
<1>3. HeapSizes'
  BY <1>1 DEF HeapSizes, HeapChunks, HeapInv
<1>4. CoverInv => CoverInv'
  BY <1>1 DEF CoverInv
<1>5. QED
  BY <1>2, <1>3, <1>4 DEF Keeps, HeapInv

\* Bytes of two chunks of a heap are the same chunk's.
LEMMA OneOwner ==
    ASSUME NEW U, NEW F, Sound(U, F), NEW c \in U \cup F, NEW d \in U \cup F,
           c # d
    PROVE  \A x : ~(x \in Bytes(c) /\ x \in Bytes(d))
<1>1. c \in Chunks /\ d \in Chunks /\ ~Overlap(c, d)
  BY DEF Sound, Disjoint
<1>2. \A x : x \in Bytes(c) => x \in Nat
  BY <1>1, ChunkFacts
<1>3. QED
  BY <1>1, <1>2, OverlapBytes

\* Mem::alloc.
LEMMA AllocKeeps ==
    ASSUME HeapInv, NEW size \in Sizes, alloc(size)
    PROVE  Keeps
<1> DEFINE n == AlignedSize(size)
<1>1. Loaded /\ Sound(used_chunks, unused_chunks) /\ TypeOK
  BY DEF alloc, HeapInv
<1>2. ASSUME NEW c \in BestFits(unused_chunks, n),
             used_chunks' = used_chunks \cup {Cut(c, n)},
             unused_chunks' = (unused_chunks \ {c}) \cup Rump(c, n),
             dirty' = dirty \ Filled(c, size),
             fresh' = Prefix(c, size)
      PROVE  Keeps
  <2> HIDE DEF n
  <2>1. /\ c \in unused_chunks /\ c \in Chunks /\ c.size >= n
        /\ BlockSize(n) /\ n \in Nat
        /\ Prefix(c, size) \subseteq Bytes(c) /\ Prefix(c, size) \subseteq Nat
    BY <1>2, BestFitFacts DEF n
  <2>2. /\ Sound(used_chunks', unused_chunks')
        /\ Covering(used_chunks \cup unused_chunks)
               => Covering(used_chunks' \cup unused_chunks')
        /\ \A x \in Nat : \A r \in Rump(c, n) :
               x \in Bytes(r) => x \in Bytes(c)
        /\ Cut(c, n).size >= n /\ Cut(c, n) \in Chunks
    BY <1>1, <1>2, <2>1, Carve
  <2>3. Cut(c, n).size >= MIN_CHUNK_SIZE
    BY <2>1, <2>2, Constants, ChunkFacts DEF BlockSize
  <2>4. /\ reserved \subseteq used_chunks' /\ dirty' \subseteq Nat
        /\ fresh' \subseteq Nat
    BY <1>1, <1>2, <2>1 DEF TypeOK
  <2>5. ASSUME ZeroInv PROVE ZeroInv'
    <3>1. \A x \in Bytes(c) : x \notin dirty'
      BY <1>2, <2>1, <2>5 DEF ZeroInv
    <3>2. \A r \in unused_chunks' : r \in Chunks
      BY <2>2 DEF Sound
    <3>3. \A r \in unused_chunks' : \A x \in Bytes(r) : x \in Nat
      BY <3>2, ChunkFacts
    <3>4. \A r \in unused_chunks' : \A x \in Bytes(r) : x \notin dirty'
      BY <1>2, <2>2, <2>5, <3>1, <3>3 DEF ZeroInv
    <3>5. QED
      BY <1>2, <2>1, <3>1, <3>4 DEF ZeroInv
  <2>6. QED
    BY <1>1, <1>2, <2>2, <2>3, <2>4, <2>5, LoadedKeeps
<1>3. ASSUME fresh' = {}, UNCHANGED <<used_chunks, unused_chunks, dirty>>
      PROVE  Keeps
  <2>1. /\ Sound(used_chunks', unused_chunks')
        /\ reserved \subseteq used_chunks'
        /\ dirty' \subseteq Nat /\ fresh' \subseteq Nat
    BY <1>1, <1>3 DEF TypeOK
  <2>2. ZeroInv => ZeroInv'
    BY <1>3 DEF ZeroInv
  <2>3. QED
    BY <1>1, <1>3, <2>1, <2>2, LoadedKeeps
<1>4. QED
  BY <1>2, <1>3 DEF alloc

\* A block that the guest may free.
LEMMA HeapChunkFacts ==
    ASSUME HeapInv, NEW c \in HeapChunks
    PROVE  /\ c \in used_chunks /\ c \notin reserved /\ c \in Chunks
           /\ c.size >= MIN_CHUNK_SIZE /\ c \notin unused_chunks
BY DEF HeapInv, HeapSizes, HeapChunks, TypeOK, Sound

\* The free chunks after Allocator::free, when the old block has been wiped.
LEMMA FreedClean ==
    ASSUME NEW U, NEW F, NEW c, FreedWell(U, F, c), NEW D,
           \A x \in Bytes(c) : x \notin D,
           \A f \in F : \A x \in Bytes(f) : x \notin D
    PROVE  \A f \in Freed(F, c) : \A x \in Bytes(f) : x \notin D
<1>1. \A f \in Freed(F, c) : f \in Chunks
  BY DEF FreedWell, Sound
<1>2. \A f \in Freed(F, c) : \A x \in Bytes(f) : x \in Nat
  BY <1>1, ChunkFacts
<1>3. QED
  BY <1>2 DEF FreedWell

\* Mem::free.
LEMMA FreeKeeps ==
    ASSUME HeapInv, NEW c \in HeapChunks, free(c)
    PROVE  Keeps
<1>1. /\ Loaded /\ Sound(used_chunks, unused_chunks) /\ TypeOK
      /\ used_chunks' = used_chunks \ {c}
      /\ unused_chunks' = Freed(unused_chunks, c)
      /\ dirty' = dirty \ Wiped(c) /\ fresh' = {}
  BY DEF free, HeapInv
<1>2. /\ c \in used_chunks /\ c \notin reserved /\ c \in Chunks
      /\ c.size >= MIN_CHUNK_SIZE
  BY HeapChunkFacts
<1>3. FreedWell(used_chunks, unused_chunks, c)
  BY <1>1, <1>2, Freeing
<1>4. /\ Sound(used_chunks', unused_chunks')
      /\ Covering(used_chunks \cup unused_chunks)
             => Covering(used_chunks' \cup unused_chunks')
  BY <1>1, <1>3 DEF FreedWell
<1>5. /\ reserved \subseteq used_chunks'
      /\ dirty' \subseteq Nat /\ fresh' \subseteq Nat
  BY <1>1, <1>2 DEF TypeOK
<1>6. ASSUME ZeroOnFree, ZeroInv PROVE ZeroInv'
  <2>1. \A x \in Bytes(c) : x \notin dirty'
    BY <1>1, <1>6 DEF Wiped
  <2>2. \A f \in unused_chunks : \A x \in Bytes(f) : x \notin dirty'
    BY <1>1, <1>6 DEF ZeroInv
  <2>3. \A f \in unused_chunks' : \A x \in Bytes(f) : x \notin dirty'
    BY <1>1, <1>3, <2>1, <2>2, FreedClean
  <2>4. QED
    BY <1>1, <2>3 DEF ZeroInv
<1>7. QED
  BY <1>1, <1>4, <1>5, <1>6, LoadedKeeps

\* The guest writes into a block.
LEMMA WriteKeeps ==
    ASSUME HeapInv, NEW c \in HeapChunks, Write(c)
    PROVE  Keeps
<1>1. /\ Loaded /\ Sound(used_chunks, unused_chunks) /\ TypeOK
      /\ UNCHANGED <<used_chunks, unused_chunks>>
      /\ dirty' = dirty \cup Bytes(c) /\ fresh' = {}
  BY DEF Write, HeapInv
<1>2. c \in used_chunks /\ c \in Chunks /\ c \notin unused_chunks
  BY HeapChunkFacts
<1>3. /\ reserved \subseteq used_chunks'
      /\ dirty' \subseteq Nat /\ fresh' \subseteq Nat
  BY <1>1, <1>2, ChunkFacts DEF TypeOK
<1>4. ASSUME ZeroInv PROVE ZeroInv'
  <2>1. \A f \in unused_chunks : \A x : ~(x \in Bytes(f) /\ x \in Bytes(c))
    BY <1>1, <1>2, OneOwner
  <2>2. QED
    BY <1>1, <1>4, <2>1 DEF ZeroInv
<1>5. QED
  BY <1>1, <1>3, <1>4, LoadedKeeps

\* Mem::realloc that grows the block where it is.
LEMMA GrowKeeps ==
    ASSUME HeapInv, NEW c \in HeapChunks, NEW size \in Sizes, Loaded,
           c.size < size, NEW a \in unused_chunks, grow_in_place(c, a, size)
    PROVE  Keeps
<1> DEFINE grown == Chunk(c.base, GrownSize(c, a, size))
           rest  == GrowRest(c, a, size)
           tail  == Bytes(grown) \ Bytes(c)
<1>1. /\ Sound(used_chunks, unused_chunks) /\ TypeOK
      /\ CanGrow(c, a, size)
      /\ used_chunks' = (used_chunks \ {c}) \cup {grown}
      /\ unused_chunks' = (unused_chunks \ {a}) \cup rest
      /\ dirty' = (IF ZeroOnFree THEN dirty \ tail ELSE dirty)
      /\ fresh' = tail
  BY DEF grow_in_place, HeapInv
<1>2. /\ c \in used_chunks /\ c \notin reserved /\ c \in Chunks
      /\ c.size >= MIN_CHUNK_SIZE /\ size \in Nat
  BY HeapChunkFacts, Constants
<1>3. GrownWell(used_chunks, unused_chunks, c, a, size)
  BY <1>1, <1>2, Growing
<1>4. /\ Sound(used_chunks', unused_chunks')
      /\ Covering(used_chunks \cup unused_chunks)
             => Covering(used_chunks' \cup unused_chunks')
      /\ grown \in Chunks /\ grown.size >= size
      /\ \A x \in Nat : \A d \in rest : x \in Bytes(d) => x \in Bytes(a)
  BY <1>1, <1>3 DEF GrownWell
<1> HIDE DEF rest, grown
<1>5. /\ grown.size >= MIN_CHUNK_SIZE
  BY <1>2, <1>4, Constants, ChunkFacts
<1>6. /\ reserved \subseteq used_chunks'
      /\ dirty' \subseteq Nat /\ fresh' \subseteq Nat
  BY <1>1, <1>2, <1>4, ChunkFacts DEF TypeOK
<1>7. ASSUME ZeroOnFree, ZeroInv PROVE ZeroInv'
  <2>1. \A x \in fresh' : x \notin dirty'
    BY <1>1, <1>7
  <2>2. \A x \in dirty' : x \in dirty
    BY <1>1
  <2>3. \A f \in unused_chunks' : \A x \in Bytes(f) : x \in Nat
    BY <1>4, ChunkFacts DEF Sound
  <2>4. \A f \in unused_chunks' : \A x \in Bytes(f) : x \notin dirty'
    BY <1>1, <1>4, <1>7, <2>2, <2>3 DEF ZeroInv
  <2>5. QED
    BY <2>1, <2>4 DEF ZeroInv
<1>8. QED
  BY <1>1, <1>4, <1>5, <1>6, <1>7, LoadedKeeps

\* Mem::realloc in the general case: the new block is cut before the old one
\* is freed, and the bytes copied into it are bytes of the new block.
LEMMA MoveKeeps ==
    ASSUME HeapInv, NEW c \in HeapChunks, NEW size \in Sizes, Loaded,
           c.size < size, MoveBlock(c, size)
    PROVE  Keeps
<1> DEFINE n == AlignedSize(size)
<1>1. Sound(used_chunks, unused_chunks) /\ TypeOK
  BY DEF HeapInv
<1>2. /\ c \in used_chunks /\ c \notin reserved /\ c \in Chunks
      /\ c.size >= MIN_CHUNK_SIZE
      /\ c.base \in Nat /\ c.size \in Nat /\ End(c) = c.base + c.size
      /\ \A x : x \in Bytes(c) <=> x \in Nat /\ c.base <= x /\ x < End(c)
  BY HeapChunkFacts, ChunkFacts
<1>3. ASSUME used_chunks' = used_chunks \ {c},
             unused_chunks' = Freed(unused_chunks, c),
             dirty' = dirty \ Wiped(c), fresh' = {}
      PROVE  Keeps
  <2>1. free(c)
    BY <1>3 DEF free
  <2>2. QED
    BY <2>1, FreeKeeps
<1>4. ASSUME NEW b \in BestFits(unused_chunks, n),
             used_chunks' = (used_chunks \ {c}) \cup {Cut(b, n)},
             unused_chunks' = Freed((unused_chunks \ {b}) \cup Rump(b, n), c),
             NEW copied,
             copied = {b.base + (x - c.base) : x \in Bytes(c) \cap dirty},
             dirty' = ((dirty \ (Filled(b, size) \cup Prefix(b, c.size)))
                          \cup copied) \ Wiped(c),
             fresh' = Prefix(b, size) \ Prefix(b, c.size)
      PROVE  Keeps
  <2> HIDE DEF n
  <2> DEFINE U == used_chunks \cup {Cut(b, n)}
             F == (unused_chunks \ {b}) \cup Rump(b, n)
             block == Cut(b, n)
  <2>1. /\ b \in unused_chunks /\ b \in Chunks /\ b.size >= n
        /\ BlockSize(n) /\ n \in Nat /\ n >= size /\ size \in Nat
        /\ Prefix(b, size) \subseteq Bytes(b) /\ Prefix(b, size) \subseteq Nat
    BY <1>4, BestFitFacts DEF n
  <2>2. /\ Sound(U, F)
        /\ Covering(used_chunks \cup unused_chunks) => Covering(U \cup F)
        /\ \A x \in Nat : \A r \in Rump(b, n) :
               x \in Bytes(r) => x \in Bytes(b)
        /\ block \in Chunks /\ block \notin Rump(b, n)
        /\ block.base = b.base /\ block.size >= n
        /\ b \notin used_chunks
    BY <1>1, <2>1, Carve
  <2> HIDE DEF block
  <2>3. block # c
    <3>1. c.base = b.base => c = b
      BY <1>1, <1>2, <2>1, OneNeighbour
    <3>2. QED
      BY <1>2, <2>2, <3>1
  <2>4. (used_chunks \ {c}) \cup {block} = U \ {c}
    BY <2>3 DEF block
  <2> HIDE DEF U, F
  <2>5. FreedWell(U, F, c)
    <3>1. c \in U
      BY <1>2 DEF U
    <3>2. QED
      BY <1>2, <2>2, <3>1, Freeing
  <2>6. used_chunks' = U \ {c} /\ unused_chunks' = Freed(F, c)
    BY <1>4, <2>4 DEF F, block
  <2>7. /\ Sound(used_chunks', unused_chunks')
        /\ Covering(used_chunks \cup unused_chunks)
               => Covering(used_chunks' \cup unused_chunks')
    BY <2>2, <2>5, <2>6 DEF FreedWell
  <2>8. block.size >= MIN_CHUNK_SIZE
    BY <2>1, <2>2, Constants, ChunkFacts DEF BlockSize
  <2>9. /\ b.base \in Nat /\ block.base \in Nat /\ block.size \in Nat
        /\ End(block) = block.base + block.size
        /\ \A x : x \in Bytes(block)
                      <=> x \in Nat /\ block.base <= x /\ x < End(block)
    BY <2>1, <2>2, ChunkFacts
  <2>10. \A y \in copied : y \in Prefix(b, c.size) /\ y \in Bytes(block)
    <3>1. SUFFICES ASSUME NEW x \in Bytes(c)
                   PROVE  /\ b.base + (x - c.base) \in Prefix(b, c.size)
                          /\ b.base + (x - c.base) \in Bytes(block)
      BY <1>4
    <3>2. PICK k \in Nat : k = x - c.base /\ k < c.size
      BY <1>2
    <3>3. b.base + k \in b.base .. b.base + c.size - 1
      BY <1>2, <2>9, <3>2
    <3>4. /\ b.base + k \in Nat /\ block.base <= b.base + k
          /\ b.base + k < End(block)
      BY <1>2, <2>1, <2>2, <2>9, <3>2
    <3>5. QED
      BY <2>9, <3>2, <3>3, <3>4 DEF Prefix
  <2>11. copied \subseteq Nat
    BY <2>9, <2>10
  <2>12. /\ reserved \subseteq used_chunks'
         /\ dirty' \subseteq Nat /\ fresh' \subseteq Nat
    BY <1>1, <1>2, <1>4, <2>1, <2>11 DEF TypeOK
  <2>13. ASSUME ZeroOnFree, ZeroInv PROVE ZeroInv'
    <3>1. \A x \in Bytes(c) : x \notin dirty'
      BY <1>4, <2>13 DEF Wiped
    <3>2. \A x \in dirty' : x \in dirty \/ x \in copied
      BY <1>4
    <3>3. \A x \in Bytes(b) : x \notin dirty
      BY <2>1, <2>13 DEF ZeroInv
    <3>4. \A f \in F : \A x \in Bytes(f) : x \notin copied
      <4>1. block \in U
        BY DEF U, block
      <4>2. \A f \in F : f # block
        BY <2>2, <4>1 DEF Sound
      <4>3. \A f \in F : \A x : ~(x \in Bytes(f) /\ x \in Bytes(block))
        BY <2>2, <4>1, <4>2, OneOwner
      <4>4. QED
        BY <2>10, <4>3
    <3>5. \A f \in F : \A x \in Bytes(f) : x \notin dirty
      <4>1. \A f \in F : \A x \in Bytes(f) : x \in Nat
        BY <2>2, ChunkFacts DEF Sound
      <4>2. QED
        BY <2>2, <2>13, <3>3, <4>1 DEF ZeroInv, F
    <3>6. \A f \in F : \A x \in Bytes(f) : x \notin dirty'
      BY <3>2, <3>4, <3>5
    <3>7. \A f \in unused_chunks' : \A x \in Bytes(f) : x \notin dirty'
      BY <2>5, <2>6, <3>1, <3>6, FreedClean
    <3>8. \A x \in fresh' : x \notin dirty'
      BY <1>4, <2>1, <2>10, <3>2, <3>3
    <3>9. QED
      BY <3>7, <3>8 DEF ZeroInv
  <2>14. \A d \in used_chunks' :
             d \in used_chunks \/ d.size >= MIN_CHUNK_SIZE
    BY <1>4, <2>8 DEF block
  <2>15. QED
    BY <1>1, <2>7, <2>12, <2>13, <2>14, LoadedKeeps
<1>5. \/ /\ used_chunks' = used_chunks \ {c}
         /\ unused_chunks' = Freed(unused_chunks, c)
         /\ dirty' = dirty \ Wiped(c) /\ fresh' = {}
      \/ \E b \in BestFits(unused_chunks, n) : \E copied :
            /\ used_chunks' = (used_chunks \ {c}) \cup {Cut(b, n)}
            /\ unused_chunks' =
                   Freed((unused_chunks \ {b}) \cup Rump(b, n), c)
            /\ copied = {b.base + (x - c.base) : x \in Bytes(c) \cap dirty}
            /\ dirty' = ((dirty \ (Filled(b, size) \cup Prefix(b, c.size)))
                            \cup copied) \ Wiped(c)
            /\ fresh' = Prefix(b, size) \ Prefix(b, c.size)
  BY DEF MoveBlock
<1>6. QED
  BY <1>3, <1>4, <1>5

\* Mem::realloc.
LEMMA ReallocKeeps ==
    ASSUME HeapInv, NEW c \in HeapChunks, NEW size \in Sizes, realloc(c, size)
    PROVE  Keeps
<1>1. Loaded /\ c.size < size
  BY DEF realloc
<1>2. CASE \E a \in unused_chunks : grow_in_place(c, a, size)
  BY <1>1, <1>2, GrowKeeps
<1>3. CASE MoveBlock(c, size)
  BY <1>1, <1>3, MoveKeeps
<1>4. QED
  BY <1>2, <1>3 DEF realloc

\* Allocator::reserve, which only the loader calls.
LEMMA ReserveKeeps ==
    ASSUME HeapInv, NEW c \in Segments, reserve(c)
    PROVE  Keeps
<1>1. /\ Sound(used_chunks, unused_chunks) /\ TypeOK /\ HeapSizes
      /\ loading /\ UNCHANGED <<loading, dirty, fresh>>
  BY DEF reserve, HeapInv
<1>2. c \in Chunks
  BY Constants
<1>3. ASSUME panic' = TRUE,
             UNCHANGED <<used_chunks, unused_chunks, reserved>>
      PROVE  Keeps
  <2>1. TypeOK' /\ HeapSizes'
    BY <1>1, <1>3 DEF TypeOK, HeapSizes, HeapChunks
  <2>2. Sound(used_chunks', unused_chunks')
    BY <1>1, <1>3
  <2>3. (CoverInv => CoverInv') /\ (ZeroInv => ZeroInv')
    BY <1>1, <1>3 DEF CoverInv, ZeroInv
  <2>4. QED
    BY <2>1, <2>2, <2>3 DEF Keeps, HeapInv
<1>4. ASSUME NEW f \in unused_chunks,
             Valid(c), Within(c, f), \A d \in Around(c, f) : Valid(d),
             unused_chunks' =
                 (unused_chunks \ {f}) \cup
                     {d \in Around(c, f) : d.size >= MIN_CHUNK_SIZE},
             used_chunks' = used_chunks \cup {c},
             reserved' = reserved \cup {c},
             UNCHANGED panic
      PROVE  Keeps
  <2>1. ReservedWell(used_chunks, unused_chunks, c, f)
    BY <1>1, <1>2, <1>4, Reserving
  <2>2. /\ Sound(used_chunks', unused_chunks')
        /\ \A x \in Nat : \A d \in unused_chunks' \ unused_chunks :
               x \in Bytes(d) => x \in Bytes(f)
        /\ Aligned(c) /\ Aligned(f) =>
               /\ \A d \in unused_chunks' \ unused_chunks : Aligned(d)
               /\ Covering(used_chunks \cup unused_chunks)
                      => Covering(used_chunks' \cup unused_chunks')
    BY <1>4, <2>1 DEF ReservedWell
  <2>3. TypeOK'
    BY <1>1, <1>4, <2>2 DEF TypeOK, Sound
  <2>4. HeapSizes'
    BY <1>1, <1>4 DEF HeapSizes, HeapChunks
  <2>5. ASSUME SegmentsAligned, CoverInv PROVE CoverInv'
    <3>1. Aligned(c) /\ \A d \in unused_chunks : Aligned(d)
      BY <1>1, <2>5 DEF SegmentsAligned, CoverInv
    <3>2. QED
      BY <1>1, <2>2, <2>5, <3>1 DEF CoverInv
  <2>6. ASSUME ZeroInv PROVE ZeroInv'
    <3>1. \A d \in unused_chunks' : \A x \in Bytes(d) : x \in Nat
      BY <2>2, ChunkFacts DEF Sound
    <3>2. \A d \in unused_chunks' : \A x \in Bytes(d) : x \notin dirty
      BY <2>2, <2>6, <3>1 DEF ZeroInv
    <3>3. QED
      BY <1>1, <2>6, <3>2 DEF ZeroInv
  <2>7. QED
    BY <2>2, <2>3, <2>4, <2>5, <2>6 DEF Keeps, HeapInv
<1>5. QED
  BY <1>3, <1>4 DEF reserve

\* No step, and no stuttering, breaks the invariants.
LEMMA HeapStep ==
    ASSUME HeapInv, [Next]_vars
    PROVE  Keeps
<1>1. ASSUME NEW size \in Sizes, alloc(size) PROVE Keeps
  BY <1>1, AllocKeeps
<1>2. ASSUME NEW c \in HeapChunks, free(c) PROVE Keeps
  BY <1>2, FreeKeeps
<1>3. ASSUME NEW c \in HeapChunks, NEW size \in Sizes, realloc(c, size)
      PROVE  Keeps
  BY <1>3, ReallocKeeps
<1>4. ASSUME NEW c \in HeapChunks, Write(c) PROVE Keeps
  BY <1>4, WriteKeeps
<1>5. ASSUME NEW c \in Segments, reserve(c) PROVE Keeps
  BY <1>5, ReserveKeeps
<1>6. ASSUME UNCHANGED vars PROVE Keeps
  <2>1. HeapInv'
    BY <1>6 DEF vars, HeapInv, TypeOK, HeapSizes, HeapChunks
  <2>2. CoverInv => CoverInv'
    BY <1>6 DEF vars, CoverInv
  <2>3. ZeroInv => ZeroInv'
    BY <1>6 DEF vars, ZeroInv
  <2>4. QED
    BY <2>1, <2>2, <2>3 DEF Keeps
<1>7. QED
  BY <1>1, <1>2, <1>3, <1>4, <1>5, <1>6 DEF Next, Halted

\* The sound heap is an invariant of every execution.
LEMMA HeapInvariance == Spec => []HeapInv
<1>1. Init => HeapInv
  BY InitHeap
<1>2. HeapInv /\ [Next]_vars => HeapInv'
  BY HeapStep DEF Keeps
<1>3. QED
  BY <1>1, <1>2, PTL DEF Spec

\* The parts of HeapPartitioned that a sound heap has.
LEMMA SoundParts ==
    ASSUME HeapInv
    PROVE  TypeOK /\ NoOverlap /\ ChunksValid
BY DEF HeapInv, Sound, Disjoint, NoOverlap, ChunksValid

\* Types, whatever the guest asks for and whatever segments are loaded.
THEOREM HeapTypes == Spec => []TypeOK
<1>1. HeapInv => TypeOK
  BY SoundParts
<1>2. QED
  BY <1>1, HeapInvariance, PTL

\* Chunks never overlap, and the assertions of Chunk::new and
\* SizeBucketedChunkMap::insert hold of every chunk alloc, free and realloc
\* make, whatever segments are loaded.
THEOREM ChunksSound == Spec => [](NoOverlap /\ ChunksValid)
<1>1. HeapInv => NoOverlap /\ ChunksValid
  BY SoundParts
<1>2. QED
  BY <1>1, HeapInvariance, PTL

\* The address space stays a partition into valid chunks: Allocator loses no
\* address when the segments it reserves are multiples of the minimum size.
THEOREM HeapWhole ==
    ASSUME SegmentsAligned
    PROVE  Spec => []HeapPartitioned
<1>1. Init => HeapInv /\ CoverInv
  BY InitHeap
<1>2. HeapInv /\ CoverInv /\ [Next]_vars => (HeapInv /\ CoverInv)'
  BY HeapStep DEF Keeps
<1>3. HeapInv /\ CoverInv => HeapPartitioned
  BY SoundParts DEF HeapPartitioned, NothingLost, CoverInv, Covering
<1>4. QED
  BY <1>1, <1>2, <1>3, PTL DEF Spec

\* Memory that Mem::alloc or Mem::realloc hands out reads as 0, with the
\* option that wipes it when it is freed.
THEOREM HandedOutZeroed ==
    ASSUME ZeroOnFree
    PROVE  Spec => []FreshZeroed
<1>1. Init => HeapInv /\ ZeroInv
  BY InitHeap
<1>2. HeapInv /\ ZeroInv /\ [Next]_vars => (HeapInv /\ ZeroInv)'
  BY HeapStep DEF Keeps
<1>3. ZeroInv => FreshZeroed
  BY DEF ZeroInv, FreshZeroed
<1>4. QED
  BY <1>1, <1>2, <1>3, PTL DEF Spec
=============================================================================
