----------------------------- MODULE Allocator ------------------------------
(***************************************************************************)
(* The guest heap: Allocator of src/src/mem/allocator.rs and the calls of  *)
(* Mem (src/src/mem.rs) that use it.                                       *)
(*                                                                         *)
(* A Chunk is a non-empty range of addresses.  used_chunks and             *)
(* unused_chunks are sets of chunks: the log2 buckets of                   *)
(* SizeBucketedChunkMap only find the smallest chunk that is large enough  *)
(* quickly, and which of several of the same size is found depends on the  *)
(* order of earlier frees, so it is a free choice here.  The guest memory  *)
(* is abstracted to dirty, the addresses whose byte is not known to be 0.  *)
(***************************************************************************)
EXTENDS Integers, FiniteSets

CONSTANTS MIN_CHUNK_SIZE,
          PAGE_SIZE,
          Top,            \* end of the address space that the heap manages
          Sizes,          \* sizes the guest asks for
          Segments,       \* chunks the Mach-O loader reserves
          ZeroOnFree      \* Mem::zero_memory_on_free

Chunk(base, size) == [base |-> base, size |-> size]

\* One past the last byte.
End(c) == c.base + c.size

Bytes(c) == c.base .. End(c) - 1

ASSUME AllocatorAssumption ==
    /\ MIN_CHUNK_SIZE \in Nat \ {0}
    /\ PAGE_SIZE \in Nat
    /\ PAGE_SIZE % MIN_CHUNK_SIZE = 0
    /\ PAGE_SIZE > MIN_CHUNK_SIZE
    /\ Top \in Nat
    /\ Top > PAGE_SIZE
    /\ Top % PAGE_SIZE = 0
    /\ Sizes \subseteq Nat
    /\ Segments \subseteq [base : Nat, size : Nat \ {0}]
    /\ ZeroOnFree \in BOOLEAN

VARIABLES used_chunks,
          unused_chunks,
          reserved,       \* the used chunks that no guest pointer comes from
          dirty,          \* addresses of bytes that may differ from 0
          fresh,          \* addresses the last call handed out
          loading,        \* Environment::new still loads the binaries
          panic           \* an assertion of Chunk::new has failed

vars == <<used_chunks, unused_chunks, reserved, dirty, fresh, loading,
          panic>>

Chunks == [base : Nat, size : Nat \ {0}]

TypeOK ==
    /\ used_chunks \subseteq Chunks
    /\ unused_chunks \subseteq Chunks
    /\ reserved \subseteq used_chunks
    /\ dirty \subseteq Nat
    /\ fresh \subseteq Nat
    /\ loading \in BOOLEAN
    /\ panic \in BOOLEAN

\* Chunk::new asserts that a chunk of a page or more starts at a page.
Valid(c) == c.size >= PAGE_SIZE => c.base % PAGE_SIZE = 0

\* The state once Mem::set_null_segment_size has reserved the null page.  The
\* main thread's stack lies above Top and is never freed.
Init ==
    LET null == Chunk(0, PAGE_SIZE)
    IN  /\ used_chunks = {null}
        /\ reserved = {null}
        /\ unused_chunks = {Chunk(PAGE_SIZE, Top - PAGE_SIZE)}
        /\ dirty = {}
        /\ fresh = {}
        /\ loading = TRUE
        /\ panic = FALSE

(***************************************************************************)
(* The free list                                                           *)
(***************************************************************************)
align(size, n) == IF size % n = 0 THEN size ELSE size + (n - (size % n))

AlignedSize(size) ==
    IF size >= PAGE_SIZE
    THEN align(size, PAGE_SIZE)
    ELSE align(IF size < MIN_CHUNK_SIZE THEN MIN_CHUNK_SIZE ELSE size,
               MIN_CHUNK_SIZE)

Fits(free, n) == {c \in free : c.size >= n}

\* SizeBucketedChunkMap::allocate: the chunks it may choose.
BestFits(free, n) ==
    {c \in Fits(free, n) : \A d \in Fits(free, n) : c.size <= d.size}

\* Fault: the part after the page boundary keeps the size of the rump.
Rump_oversized(c, n) ==
    LET rump == Chunk(c.base + n, c.size - n)
    IN  IF rump.size >= PAGE_SIZE /\ rump.base % PAGE_SIZE # 0
        THEN {Chunk(c.base + n, PAGE_SIZE - n),
              Chunk(c.base + PAGE_SIZE, c.size - n)}
        ELSE IF rump.size >= MIN_CHUNK_SIZE THEN {rump} ELSE {}

\* allocate_in_bucket: what goes back into the free list when n bytes are
\* cut from the start of c.  A rump of a page or more is cut again at the
\* page boundary, and a rump that is too small is not cut off at all.
Rump(c, n) ==
    LET rump  == Chunk(c.base + n, c.size - n)
        left  == Chunk(c.base + n, PAGE_SIZE - n)
        right == Chunk(c.base + PAGE_SIZE, c.size - PAGE_SIZE)
    IN  IF rump.size >= PAGE_SIZE /\ rump.base % PAGE_SIZE # 0
        THEN IF left.size >= MIN_CHUNK_SIZE THEN {left, right} ELSE {}
        ELSE IF rump.size >= MIN_CHUNK_SIZE THEN {rump} ELSE {}

\* Fault: a leftover that is too small is dropped.
Cut_exact(c, n) == Chunk(c.base, n)

Cut(c, n) == IF Rump(c, n) = {} THEN c ELSE Chunk(c.base, n)

\* Allocator::free: the free list when chunk f returns to it.  It merges
\* with the chunk after it or, if there is none, with the one before it.
Freed(free, f) ==
    LET after  == {c \in free : c.base = End(f)}
        before == {c \in free : End(c) = f.base}
        near   == IF after # {} THEN after ELSE before
        Merge(c) == Chunk(IF c.base < f.base THEN c.base ELSE f.base,
                          c.size + f.size)
        merged == {Merge(c) : c \in near}
        kept   == IF near # {} /\ \A m \in merged : Valid(m)
                  THEN (free \ near) \cup merged
                  ELSE free \cup {f}
    IN  {c \in kept : c.size >= MIN_CHUNK_SIZE}

(***************************************************************************)
(* Mem::alloc, Mem::free and Mem::realloc                                  *)
(***************************************************************************)
HeapChunks == used_chunks \ reserved

\* Everything is loaded before the first allocation.
Loaded ==
    /\ ~panic
    /\ loading' = FALSE
    /\ UNCHANGED <<reserved, panic>>

Prefix(c, size) == c.base .. c.base + size - 1

\* The bytes that Mem::alloc(size) fills with 0 in the chunk it got.
Filled(c, size) == IF ZeroOnFree THEN {} ELSE Prefix(c, size)

\* Fault: freed memory is not wiped.
Wiped_never(c) == {}

\* The bytes that Mem::free fills with 0.
Wiped(c) == IF ZeroOnFree THEN Bytes(c) ELSE {}

alloc(size) ==
    /\ Loaded
    /\ LET n == AlignedSize(size)
       IN  \/ \E c \in BestFits(unused_chunks, n) :
                 /\ used_chunks' = used_chunks \cup {Cut(c, n)}
                 /\ unused_chunks' = (unused_chunks \ {c}) \cup Rump(c, n)
                 /\ dirty' = dirty \ Filled(c, size)
                 /\ fresh' = Prefix(c, size)
           \/ /\ Fits(unused_chunks, n) = {}
              /\ fresh' = {}
              /\ UNCHANGED <<used_chunks, unused_chunks, dirty>>

free(c) ==
    /\ Loaded
    /\ used_chunks' = used_chunks \ {c}
    /\ unused_chunks' = Freed(unused_chunks, c)
    /\ dirty' = dirty \ Wiped(c)
    /\ fresh' = {}

\* Allocator::grow_in_place: the size it grows c to by taking the free chunk
\* a that follows it, a page or more of it as a whole.
GrownSize(c, a, size) ==
    LET remainder == a.size - (size - c.size)
    IN  IF a.size >= PAGE_SIZE \/ remainder < MIN_CHUNK_SIZE
        THEN c.size + a.size
        ELSE size

\* Fault: a small block grows beyond a page.
CanGrow_anywhere(c, a, size) == a.base = End(c) /\ a.size >= size - c.size

CanGrow(c, a, size) ==
    /\ a.base = End(c)
    /\ a.size >= size - c.size
    /\ Valid(Chunk(c.base, GrownSize(c, a, size)))

\* Fault: the rest goes into the free list even if nothing is left.
GrowRest_empty(c, a, size) ==
    LET end == c.base + GrownSize(c, a, size)
    IN  {Chunk(end, End(a) - end)}

GrowRest(c, a, size) ==
    LET grown == Chunk(c.base, GrownSize(c, a, size))
    IN  IF End(grown) = End(a) THEN {} ELSE {Chunk(End(grown), End(a) - End(grown))}

grow_in_place(c, a, size) ==
    LET grown == Chunk(c.base, GrownSize(c, a, size))
        tail  == Bytes(grown) \ Bytes(c)
    IN  /\ CanGrow(c, a, size)
        /\ used_chunks' = (used_chunks \ {c}) \cup {grown}
        /\ unused_chunks' = (unused_chunks \ {a}) \cup GrowRest(c, a, size)
        /\ dirty' = IF ZeroOnFree THEN dirty \ tail ELSE dirty
        /\ fresh' = tail

\* The general case: allocate, copy, free.  It frees the old block also when
\* there is no memory for a new one.
MoveBlock(c, size) ==
    LET n == AlignedSize(size)
    IN  \/ \E b \in BestFits(unused_chunks, n) :
              LET rest   == (unused_chunks \ {b}) \cup Rump(b, n)
                  copied == {b.base + (x - c.base) : x \in Bytes(c) \cap dirty}
              IN  /\ used_chunks' = (used_chunks \ {c}) \cup {Cut(b, n)}
                  /\ unused_chunks' = Freed(rest, c)
                  /\ dirty' = ((dirty \ (Filled(b, size) \cup Prefix(b, c.size)))
                                  \cup copied) \ Wiped(c)
                  /\ fresh' = Prefix(b, size) \ Prefix(b, c.size)
        \/ /\ Fits(unused_chunks, n) = {}
           /\ used_chunks' = used_chunks \ {c}
           /\ unused_chunks' = Freed(unused_chunks, c)
           /\ dirty' = dirty \ Wiped(c)
           /\ fresh' = {}

realloc(c, size) ==
    /\ Loaded
    /\ c.size < size
    /\ \/ \E a \in unused_chunks : grow_in_place(c, a, size)
       \/ /\ \A a \in unused_chunks : ~CanGrow(c, a, size)
          /\ MoveBlock(c, size)

\* The guest writes into a block it owns.
Write(c) ==
    /\ Loaded
    /\ dirty' = dirty \cup Bytes(c)
    /\ fresh' = {}
    /\ UNCHANGED <<used_chunks, unused_chunks>>

(***************************************************************************)
(* Allocator::reserve, for the segments of a binary.  trisect_by makes the *)
(* chunks before and after the reserved one with Chunk::new.               *)
(***************************************************************************)
Within(c, f) == f.base <= c.base /\ End(c) <= End(f)

\* What trisect_by leaves of f around c.
Around(c, f) ==
    {d \in {Chunk(f.base, c.base - f.base), Chunk(End(c), End(f) - End(c))} :
        d.size > 0}

reserve(c) ==
    /\ loading
    /\ ~panic
    /\ UNCHANGED <<loading, dirty, fresh>>
    /\ \/ /\ ~ Valid(c) \/ \E f \in unused_chunks :
                              Within(c, f) /\ \E d \in Around(c, f) : ~Valid(d)
          /\ panic' = TRUE
          /\ UNCHANGED <<used_chunks, unused_chunks, reserved>>
       \/ \E f \in unused_chunks :
             /\ Valid(c) /\ Within(c, f) /\ \A d \in Around(c, f) : Valid(d)
             /\ unused_chunks' =
                    (unused_chunks \ {f}) \cup
                        {d \in Around(c, f) : d.size >= MIN_CHUNK_SIZE}
             /\ used_chunks' = used_chunks \cup {c}
             /\ reserved' = reserved \cup {c}
             /\ UNCHANGED panic

\* An assertion has torn the emulator down.
Halted == panic /\ UNCHANGED vars

Next ==
    \/ \E size \in Sizes : alloc(size)
    \/ \E c \in HeapChunks : free(c)
    \/ \E c \in HeapChunks, size \in Sizes : realloc(c, size)
    \/ \E c \in HeapChunks : Write(c)
    \/ \E c \in Segments : reserve(c)
    \/ Halted

Spec == Init /\ [][Next]_vars

(***************************************************************************)
(* Properties                                                              *)
(***************************************************************************)
Overlap(c, d) == c.base < End(d) /\ d.base < End(c)

\* No two chunks overlap, used or not: no byte belongs to two blocks, and no
\* live block can be handed out again, whatever the order of splitting,
\* growing in place and merging.
NoOverlap ==
    /\ used_chunks \cap unused_chunks = {}
    /\ \A c, d \in used_chunks \cup unused_chunks : Overlap(c, d) => c = d

\* The heap leaks nothing: when the reserved segments are multiples of the
\* minimum size, every address is in a used or in a free chunk, although
\* leftovers below MIN_CHUNK_SIZE cannot be put into the free list.
NothingLost ==
    \A x \in 0 .. Top - 1 :
        \E c \in used_chunks \cup unused_chunks : x \in Bytes(c)

\* "Invariant of page alignment": the assertion of Chunk::new holds of every
\* chunk the allocator builds, and the one of SizeBucketedChunkMap::insert of
\* every free chunk.
ChunksValid ==
    /\ \A c \in used_chunks \cup unused_chunks : Valid(c)
    /\ \A c \in unused_chunks : c.size >= MIN_CHUNK_SIZE

\* The address space is partitioned into valid chunks, however blocks were split,
\* grown, merged and reserved.
HeapPartitioned == NoOverlap /\ NothingLost /\ ChunksValid

\* Memory handed out by alloc or by growing a block reads as 0, though other
\* blocks that were written to lived there before.
FreshZeroed == fresh \cap dirty = {}

\* "iPhone OS's allocator always aligns to 16 bytes at minimum": so do the
\* blocks the guest gets.
HeapAligned == \A c \in HeapChunks : c.base % MIN_CHUNK_SIZE = 0

=============================================================================
