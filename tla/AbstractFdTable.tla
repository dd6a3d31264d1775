-------------------------- MODULE AbstractFdTable --------------------------
(***************************************************************************)
(* What POSIX promises of a process's table of file descriptors: a         *)
(* descriptor names at most one open file, a new descriptor is the lowest  *)
(* one that is free at or above the requested minimum, and closing a       *)
(* descriptor frees that one and no other.                                 *)
(***************************************************************************)
EXTENDS Naturals, FiniteSetsExt

CONSTANT Fds          \* the descriptors above standard error

VARIABLES
    used,         \* the descriptors that name an open file
    asked         \* the minimum the last call asked for, 0 if it was no allocation

Free(min) == {fd \in Fds \ used : fd >= min}

vars == <<used, asked>>

Init == used = {} /\ asked = 0

(* open(2), fcntl(F_DUPFD): the lowest free descriptor at or above min.    *)
Allocate(min) ==
    /\ Free(min) # {}
    /\ used' = used \cup {Min(Free(min))}
    /\ asked' = min

(* pipe(2): the lowest free descriptor twice. *)
AllocatePair ==
    /\ Free(0) # {}
    /\ LET first == Min(Free(0))
           others == Free(0) \ {first}
       IN  others # {} /\ used' = used \cup {first, Min(others)}
    /\ asked' = Min(Fds)

Close(fd) ==
    /\ fd \in used
    /\ used' = used \ {fd}
    /\ asked' = 0

OtherCall == asked' = 0 /\ UNCHANGED used

Next ==
    \/ \E min \in Fds : Allocate(min)
    \/ AllocatePair
    \/ \E fd \in used : Close(fd)
    \/ OtherCall

Spec == Init /\ [][Next]_vars
=============================================================================
