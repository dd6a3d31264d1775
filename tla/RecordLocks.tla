---------------------------- MODULE RecordLocks ----------------------------
(***************************************************************************)
(* The advisory record locks of one descriptor: fcntl(F_SETLK) and         *)
(* fcntl(F_SETLKW), resolve_lock_range() and release_range_from_locks()    *)
(* (src/src/libc/posix_io.rs). The code keeps a list of half-open ranges;  *)
(* a request first cuts its range out of the list and then, unless it is   *)
(* an unlock, adds it at the end.                                          *)
(*                                                                         *)
(* Bounds: Limit stands for i64::MAX, the exclusive end of a range that    *)
(* reaches "until the end of the file"; MaxSize bounds the file and        *)
(* its seek position, both changed by other calls.  A request that starts  *)
(* at i64::MAX itself, where the code's range has no byte, is left out.    *)
(***************************************************************************)
EXTENDS Integers, SequencesExt

CONSTANTS Limit, MaxSize, Unlocked

LimitAssumption == Limit \in Nat \ {0} /\ MaxSize \in 0..Limit

F_RDLCK == "read"
F_WRLCK == "write"
F_UNLCK == "unlock"
SEEK_SET == "set"
SEEK_CUR == "current"
SEEK_END == "end"

VARIABLES locks, position, size

vars == <<locks, position, size>>

Offsets == -Limit..Limit
LockRange == [start : 0..Limit, end : 0..Limit, lock_type : {F_RDLCK, F_WRLCK}]

(* LockRange::overlaps *)
overlaps(a, b) == a.start < b.end /\ b.start < a.end

(* resolve_lock_range(): the first byte of the request, counted from the   *)
(* start, the seek position or the end of the file.                        *)
LockStart(start, whence) ==
    CASE whence = SEEK_SET -> start
      [] whence = SEEK_CUR -> position + start
      [] whence = SEEK_END -> size + start

(* A length of zero reaches to the end, a negative one lies before the     *)
(* start.  EINVAL before the first byte, EOVERFLOW past the last.          *)
ResolvedStart(start, len, whence) ==
    LockStart(start, whence) + (IF len < 0 THEN len ELSE 0)

ResolvedEnd(start, len, whence) ==
    IF len = 0 THEN Limit
    ELSE LockStart(start, whence) + (IF len > 0 THEN len ELSE 0)

Resolves(start, len, whence) ==
    /\ LockStart(start, whence) \in 0..Limit
    /\ ResolvedStart(start, len, whence) >= 0
    /\ ResolvedEnd(start, len, whence) <= Limit

\* Fault: the part after the released range is lost.
RemainsBefore(existing, release) ==
    IF ~overlaps(existing, release) THEN <<existing>>
    ELSE IF existing.start < release.start
         THEN <<[existing EXCEPT !.end = release.start]>> ELSE <<>>

(* release_range_from_locks(): of every range the parts before and after   *)
(* the released one stay, in their place.                                  *)
Remains(existing, release) ==
    IF ~overlaps(existing, release) THEN <<existing>>
    ELSE (IF existing.start < release.start
          THEN <<[existing EXCEPT !.end = release.start]>> ELSE <<>>)
         \o
         (IF existing.end > release.end
          THEN <<[existing EXCEPT !.start = release.end]>> ELSE <<>>)

\* Fault: only ranges inside the released one are cut.
release_range_from_locks_of_inner(release) ==
    SelectSeq(locks, LAMBDA existing :
        ~(release.start <= existing.start /\ existing.end <= release.end))

release_range_from_locks(release) ==
    FlattenSeq([i \in DOMAIN locks |-> Remains(locks[i], release)])

Init ==
    /\ locks = <<>>
    /\ position = 0
    /\ size \in 0..MaxSize

F_SETLK(start, len, whence, lock_type) ==
    /\ Resolves(start, len, whence)
    /\ LET requested == [start |-> ResolvedStart(start, len, whence),
                         end |-> ResolvedEnd(start, len, whence),
                         lock_type |-> lock_type]
           released == release_range_from_locks(requested)
       IN  locks' = IF lock_type = F_UNLCK THEN released
                    ELSE Append(released, requested)
    /\ UNCHANGED <<position, size>>

(* lseek(), read() and write() move the position; write() and ftruncate()  *)
(* change the size.                                                        *)
MoveTo(p) == position' = p /\ UNCHANGED <<locks, size>>
Resize(n) == size' = n /\ UNCHANGED <<locks, position>>

(* close(): the host object goes, and its locks with it. *)
close == locks' = <<>> /\ UNCHANGED <<position, size>>

Next ==
    \/ \E start, len \in Offsets, whence \in {SEEK_SET, SEEK_CUR, SEEK_END},
          lock_type \in {F_RDLCK, F_WRLCK, F_UNLCK} :
            LockStart(start, whence) # Limit /\ F_SETLK(start, len, whence, lock_type)
    \/ \E p \in 0..MaxSize : MoveTo(p)
    \/ \E n \in 0..MaxSize : Resize(n)
    \/ close

Spec == Init /\ [][Next]_vars

-----------------------------------------------------------------------------
(* Ranges have their type. *)
TypeOK ==
    /\ \A i \in DOMAIN locks : locks[i] \in LockRange
    /\ position \in 0..MaxSize /\ size \in 0..MaxSize

(* However requests overlap, no byte is in two of the ranges the descriptor *)
(* holds.                                                                   *)
LocksDisjoint ==
    \A i, j \in DOMAIN locks : i # j => ~overlaps(locks[i], locks[j])

(* The list of ranges implements the lock on each byte: a request gives its *)
(* type to the bytes of its range, splits what lies around it and touches   *)
(* nothing else.                                                            *)
Holds(range, b) == range.start <= b /\ b < range.end

ByteLock(b) ==
    IF \E i \in DOMAIN locks : Holds(locks[i], b)
    THEN locks[CHOOSE i \in DOMAIN locks : Holds(locks[i], b)].lock_type
    ELSE Unlocked

Bytewise == INSTANCE AbstractRecordLocks WITH
                Types <- {F_RDLCK, F_WRLCK},
                byte <- [b \in 0..(Limit - 1) |-> ByteLock(b)]
Implements == Bytewise!Spec
=============================================================================
