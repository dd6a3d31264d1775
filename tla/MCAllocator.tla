---------------------------- MODULE MCAllocator -----------------------------
(***************************************************************************)
(* An address space of a few pages of 8 bytes with chunks of at least 2.   *)
(***************************************************************************)
EXTENDS Allocator

\* A page-sized segment, and segments that end in the middle of a page.
MCSegments == {Chunk(8, 8), Chunk(8, 4), Chunk(16, 4)}

NoSegments == {}

=============================================================================
