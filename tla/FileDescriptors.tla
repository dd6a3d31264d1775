-------------------------- MODULE FileDescriptors --------------------------
(***************************************************************************)
(* The guest's table of file descriptors (src/src/libc/posix_io.rs) and    *)
(* the open files it refers to (GuestFile, src/src/fs.rs): open, pipe,     *)
(* socket, fcntl(F_DUPFD), fcntl(F_SETFL), read, write, lseek and close.   *)
(*                                                                         *)
(* `files` is the vector of the code, whose slots are Closed or hold a     *)
(* PosixFileHostObject.  A slot refers to a cursor (a host file            *)
(* description or the Cursor of a bundle file) or to a pipe buffer.        *)
(*                                                                         *)
(* Bounds: MaxFiles slots, Cursors and Pipes as identities reused when     *)
(* nothing refers to them any more, MaxPosition for positions, MaxBytes    *)
(* for the bytes a pipe holds.  `family` is history: the open() or pipe()  *)
(* call a descriptor descends from through duplication.                    *)
(***************************************************************************)
EXTENDS Naturals, FiniteSetsExt, SequencesExt

CONSTANTS
    Kinds,          \* the kinds of file the guest opens, a subset of AllKinds
    Cursors, Pipes,
    MaxFiles, MaxPosition, MaxBytes,
    Closed,         \* the empty slot, None
    Base            \* NORMAL_FILENO_BASE

AllKinds == {"file", "bundle", "resource", "socket", "pipe"}

BoundsAssumption ==
    /\ Kinds \subseteq AllKinds
    /\ MaxFiles \in Nat \ {0} /\ MaxPosition \in Nat /\ MaxBytes \in Nat
    /\ Base \in Nat
    /\ Cursors \cap Pipes = {} /\ Closed \notin Cursors \cup Pipes

VARIABLES
    files,      \* Vec<Option<PosixFileHostObject>>
    sockets,    \* the slots for which the socket table has an entry
    position,   \* the seek position of each cursor
    unsynced,   \* the cursors whose host file was written since sync_all
    pipes,      \* the PipeBuffer of each pipe
    asked       \* history: the first slot the last call could take, or 0

vars == <<files, sockets, position, unsynced, pipes, asked>>

-----------------------------------------------------------------------------
(* A slot of the table.  ref is the pipe of a pipe end and the cursor of a *)
(* file; a socket has none.                                                *)

Seekable == {"file", "bundle", "resource"}
PipeEnds == {"read", "write"}
NoRef == Closed

Slot == [kind : Seekable \cup PipeEnds \cup {"socket"},
         ref : Cursors \cup Pipes \cup {NoRef},
         writable : BOOLEAN,        \* the access mode, O_ACCMODE
         needs_flush : BOOLEAN,
         nonblock : BOOLEAN,        \* O_NONBLOCK of status_flags
         family : Cursors \cup Pipes \cup {NoRef}]

SlotAssumption == Closed \notin Slot

Buffer == [bytes : 0..MaxBytes, read_handles : Nat, write_handles : Nat]

(* Slots are counted from 1, the vector's indexes from 0. *)
fd_to_file_idx(fd) == IF fd < Base THEN 1 ELSE fd - Base + 1

OpenSlots == {i \in DOMAIN files : files[i] # Closed}

(* The descriptors of one end of pipe p. *)
EndsOf(p, kind) == {i \in OpenSlots : files[i].kind = kind /\ files[i].ref = p}

FreeCursors ==
    {c \in Cursors : \A i \in OpenSlots : files[i].ref # c /\ files[i].family # c}
FreePipes == {p \in Pipes : \A i \in OpenSlots : files[i].ref # p}

(* Slot i of a table holds obj; the table grows to it with empty slots.    *)
WithSlot(table, i, obj) ==
    [j \in 1..Max({i, Len(table)}) |->
        IF j = i THEN obj ELSE IF j <= Len(table) THEN table[j] ELSE Closed]

\* Fault: slots that were closed are not reused.
FirstEmptyPastEnd(table, from) ==
    IF Len(table) + 1 < from THEN from ELSE Len(table) + 1

(* The first empty slot at or after `from`, or the first past the end.     *)
FirstEmpty(table, from) ==
    LET empty == {i \in DOMAIN table : i >= from /\ table[i] = Closed}
    IN  IF empty # {} THEN Min(empty) ELSE Max({from, Len(table) + 1})

Plain(kind, ref) ==
    [kind |-> kind, ref |-> ref, writable |-> kind \in {"write", "socket"},
     needs_flush |-> FALSE, nonblock |-> FALSE, family |-> ref]

Init ==
    /\ files = <<>>
    /\ sockets = {}
    /\ position = [c \in Cursors |-> 0]
    /\ unsynced = {}
    /\ pipes = [p \in Pipes |-> [bytes |-> 0, read_handles |-> 0, write_handles |-> 0]]
    /\ asked = 0

-----------------------------------------------------------------------------
find_or_create_fd(obj) ==
    /\ FirstEmpty(files, 1) <= MaxFiles
    /\ files' = WithSlot(files, FirstEmpty(files, 1), obj)
    /\ asked' = 1

(* open(): a host file is flushed on close when it may be written. *)
open(kind, writable, nonblock) ==
    /\ kind \in Kinds \cap Seekable
    /\ writable => kind = "file"
    /\ \E c \in FreeCursors :
           /\ find_or_create_fd([Plain(kind, c) EXCEPT !.writable = writable,
                                    !.needs_flush = writable, !.nonblock = nonblock])
           /\ position' = [position EXCEPT ![c] = 0]
           /\ unsynced' = unsynced \ {c}
    /\ UNCHANGED <<sockets, pipes>>

(* socket() and accept(): a descriptor and an entry of the socket table.   *)
socket ==
    /\ "socket" \in Kinds
    /\ find_or_create_fd(Plain("socket", NoRef))
    /\ sockets' = sockets \cup {FirstEmpty(files, 1)}
    /\ UNCHANGED <<position, unsynced, pipes>>

(* pipe(): a new buffer with a handle of each kind, in two descriptors.    *)
pipe ==
    /\ "pipe" \in Kinds
    /\ \E p \in FreePipes :
       LET withRead == WithSlot(files, FirstEmpty(files, 1), Plain("read", p))
           withBoth == WithSlot(withRead, FirstEmpty(withRead, 1), Plain("write", p))
       IN  /\ Len(withBoth) <= MaxFiles
           /\ files' = withBoth
           /\ asked' = 1
           /\ pipes' = [pipes EXCEPT ![p] =
                 [bytes |-> 0, read_handles |-> 1, write_handles |-> 1]]
    /\ UNCHANGED <<sockets, position, unsynced>>

\* Fault: a host file is opened anew.
try_clone_reopening(obj, ref) ==
    /\ obj.kind \in {"file", "bundle"} /\ ref \in FreeCursors
    /\ position' = [position EXCEPT ![ref] = 0]
    /\ UNCHANGED <<unsynced, pipes>>

(* GuestFile::try_clone: a host file's clone shares its description, a     *)
(* bundle file's is a new cursor at the same position, a pipe end's is one *)
(* more handle.  A socket and a resource file cannot be duplicated.        *)
try_clone(obj, ref) ==
    CASE obj.kind = "file" ->
            /\ ref = obj.ref
            /\ UNCHANGED <<position, unsynced, pipes>>
      [] obj.kind = "bundle" ->
            /\ ref \in FreeCursors
            /\ position' = [position EXCEPT ![ref] = position[obj.ref]]
            /\ unsynced' = unsynced \ {ref}
            /\ UNCHANGED pipes
      [] obj.kind = "read" ->
            /\ ref = obj.ref
            /\ pipes' = [pipes EXCEPT ![ref].read_handles = @ + 1]
            /\ UNCHANGED <<position, unsynced>>
      [] obj.kind = "write" ->
            /\ ref = obj.ref
            /\ pipes' = [pipes EXCEPT ![ref].write_handles = @ + 1]
            /\ UNCHANGED <<position, unsynced>>
      [] OTHER -> FALSE

(* fcntl(F_DUPFD): the duplicate takes the first empty slot from min_fd on *)
(* and never needs a flush.                                                *)
F_DUPFD(fd, min_fd) ==
    /\ fd \in OpenSlots
    /\ \E ref \in Cursors \cup Pipes :
         /\ try_clone(files[fd], ref)
         /\ asked' = fd_to_file_idx(min_fd)
         /\ LET to == FirstEmpty(files, fd_to_file_idx(min_fd))
            IN  /\ to <= MaxFiles
                /\ files' = WithSlot(files, to,
                        [files[fd] EXCEPT !.ref = ref, !.needs_flush = FALSE])
    /\ UNCHANGED sockets

(* fcntl(F_SETFL): the status flags of this descriptor. *)
F_SETFL(fd, nonblock) ==
    /\ fd \in OpenSlots
    /\ files' = [files EXCEPT ![fd].nonblock = nonblock]
    /\ asked' = 0
    /\ UNCHANGED <<sockets, position, unsynced, pipes>>

-----------------------------------------------------------------------------
(* read() of one byte.  From an empty pipe it changes nothing and answers  *)
(* 0, end of file, when no handle can write any more, and EAGAIN else.     *)
read(fd) ==
    /\ fd \in OpenSlots
    /\ \/ /\ files[fd].kind \in Seekable
          /\ position[files[fd].ref] < MaxPosition
          /\ position' = [position EXCEPT ![files[fd].ref] = @ + 1]
          /\ UNCHANGED pipes
       \/ /\ files[fd].kind = "read"
          /\ pipes[files[fd].ref].bytes > 0
          /\ pipes' = [pipes EXCEPT ![files[fd].ref].bytes = @ - 1]
          /\ UNCHANGED position
    /\ asked' = 0
    /\ UNCHANGED <<files, sockets, unsynced>>

(* write() of one byte; into a pipe it answers EPIPE when no handle reads. *)
write(fd) ==
    /\ fd \in OpenSlots /\ files[fd].writable
    /\ \/ /\ files[fd].kind = "file"
          /\ position[files[fd].ref] < MaxPosition
          /\ position' = [position EXCEPT ![files[fd].ref] = @ + 1]
          /\ unsynced' = unsynced \cup {files[fd].ref}
          /\ UNCHANGED pipes
       \/ /\ files[fd].kind = "write"
          /\ pipes[files[fd].ref].read_handles > 0
          /\ pipes[files[fd].ref].bytes < MaxBytes
          /\ pipes' = [pipes EXCEPT ![files[fd].ref].bytes = @ + 1]
          /\ UNCHANGED <<position, unsynced>>
    /\ asked' = 0
    /\ UNCHANGED <<files, sockets>>

\* Fault: the new position is added to the old one.
lseek_adding(fd, to) ==
    /\ fd \in OpenSlots /\ files[fd].kind \in Seekable
    /\ position' = [position EXCEPT ![files[fd].ref] = @ + to]
    /\ asked' = 0
    /\ UNCHANGED <<files, sockets, unsynced, pipes>>

(* lseek() to a position that was computed from any of the three origins.  *)
lseek(fd, to) ==
    /\ fd \in OpenSlots /\ files[fd].kind \in Seekable
    /\ position' = [position EXCEPT ![files[fd].ref] = to]
    /\ asked' = 0
    /\ UNCHANGED <<files, sockets, unsynced, pipes>>

\* Fault: every end is counted as a writer.
close_pipe_endpoint_of_writer(obj) ==
    CASE obj.kind \in PipeEnds ->
            pipes' = [pipes EXCEPT ![obj.ref].write_handles = Max({1, @}) - 1]
      [] OTHER -> UNCHANGED pipes

(* close_pipe_endpoint(): one handle less, never below none. *)
close_pipe_endpoint(obj) ==
    CASE obj.kind = "read" ->
            pipes' = [pipes EXCEPT ![obj.ref].read_handles = Max({1, @}) - 1]
      [] obj.kind = "write" ->
            pipes' = [pipes EXCEPT ![obj.ref].write_handles = Max({1, @}) - 1]
      [] OTHER -> UNCHANGED pipes

\* Fault: the socket stays in the socket table.
close_keeping_socket(fd) ==
    /\ fd \in OpenSlots
    /\ files' = [files EXCEPT ![fd] = Closed]
    /\ close_pipe_endpoint(files[fd])
    /\ unsynced' = IF files[fd].needs_flush THEN unsynced \ {files[fd].ref} ELSE unsynced
    /\ asked' = 0
    /\ UNCHANGED <<sockets, position>>

(* close(): the slot is emptied; a socket leaves the socket table, and any *)
(* other file that needs it is synchronised.                               *)
close(fd) ==
    /\ fd \in OpenSlots
    /\ files' = [files EXCEPT ![fd] = Closed]
    /\ close_pipe_endpoint(files[fd])
    /\ sockets' = IF files[fd].kind = "socket" THEN sockets \ {fd} ELSE sockets
    /\ unsynced' = IF files[fd].needs_flush THEN unsynced \ {files[fd].ref} ELSE unsynced
    /\ asked' = 0
    /\ UNCHANGED position

(* fsync(): a host file of any descriptor. *)
fsync(fd) ==
    /\ fd \in OpenSlots
    /\ unsynced' = unsynced \ {files[fd].ref}
    /\ asked' = 0
    /\ UNCHANGED <<files, sockets, position, pipes>>

Next ==
    \/ \E kind \in Seekable, w, n \in BOOLEAN : open(kind, w, n)
    \/ socket
    \/ pipe
    \/ \E fd \in 1..MaxFiles :
         \/ \E min_fd \in 0..(Base + MaxFiles - 1) : F_DUPFD(fd, min_fd)
         \/ \E n \in BOOLEAN : F_SETFL(fd, n)
         \/ read(fd)
         \/ write(fd)
         \/ \E to \in 0..MaxPosition : lseek(fd, to)
         \/ close(fd)
         \/ fsync(fd)

Spec == Init /\ [][Next]_vars

-----------------------------------------------------------------------------
(* Every slot, cursor and pipe has its type. *)
TypeOK ==
    /\ files \in Seq(Slot \cup {Closed}) /\ Len(files) <= MaxFiles
    /\ sockets \subseteq 1..MaxFiles
    /\ position \in [Cursors -> 0..MaxPosition]
    /\ unsynced \subseteq Cursors
    /\ pipes \in [Pipes -> Buffer]
    /\ asked \in 0..MaxFiles

(* A pipe counts the descriptors that are open on each of its ends, however *)
(* they were made and in whatever order they are closed: so read() answers  *)
(* end of file, and write() EPIPE, exactly when the other end is gone.      *)
HandlesCounted ==
    \A p \in Pipes : p \notin FreePipes =>
        /\ pipes[p].read_handles = Cardinality(EndsOf(p, "read"))
        /\ pipes[p].write_handles = Cardinality(EndsOf(p, "write"))

(* The socket table has an entry for exactly the descriptors that are       *)
(* sockets, so socket() never finds a stale one under a descriptor that was *)
(* closed and handed out again.                                             *)
NoStaleSocket == sockets = {i \in OpenSlots : files[i].kind = "socket"}

(* Duplicates share the seek position of the file they were made from. *)
SharedPosition ==
    \A i, j \in OpenSlots :
        files[i].kind \in Seekable /\ files[j].kind \in Seekable
        /\ files[i].family = files[j].family
            => position[files[i].ref] = position[files[j].ref]

(* The vector of slots implements POSIX's table: a new descriptor is the    *)
(* lowest free one at or above the requested minimum, and no descriptor is  *)
(* ever handed out twice.                                                   *)
FdTable == INSTANCE AbstractFdTable WITH
                Fds <- 1..MaxFiles, used <- OpenSlots
Implements == FdTable!Spec

=============================================================================
