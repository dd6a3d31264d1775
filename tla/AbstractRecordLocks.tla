------------------------ MODULE AbstractRecordLocks ------------------------
(***************************************************************************)
(* Record locks as fcntl(2) describes them: every byte of the file is      *)
(* unlocked, locked for reading or locked for writing, and a request sets  *)
(* the bytes of its range and no other.                                    *)
(***************************************************************************)
EXTENDS Naturals

CONSTANTS Limit, Unlocked, Types

VARIABLE byte       \* the lock on each byte

Bytes == 0..(Limit - 1)

vars == byte

Init == byte = [b \in Bytes |-> Unlocked]

Set(from, to, type) ==
    byte' = [b \in Bytes |-> IF b \in from..(to - 1) THEN type ELSE byte[b]]

Next ==
    \E from \in Bytes, type \in Types \cup {Unlocked} :
        \E to \in (from + 1)..Limit : Set(from, to, type)

Spec == Init /\ [][Next]_vars
=============================================================================
