------------------------------- MODULE MCFiles ------------------------------
(***************************************************************************)
(* Files: the table of descriptors, record locks, the streams of stdio and *)
(* the tree of the virtual file system. A behaviour is that of an app that *)
(* uses one of them (app, chosen in the initial state) and leaves the      *)
(* others as they were initialised, so that TLC explores the sum of their  *)
(* state spaces. A component that needs two sets of bounds is there twice. *)
(***************************************************************************)
EXTENDS Integers

CONSTANTS Closed, None   \* model values

VARIABLES app,         \* the component that the app of this behaviour uses
    \* FileDescriptors, files and sockets
    files, sockets, position, unsynced, pipes, asked,
    \* FileDescriptors, pipes and files of the bundle
    pd_files, pd_sockets, pd_position, pd_unsynced, pd_pipes, pd_asked,
    \* RecordLocks
    locks, lk_position, size,
    \* FileStreams
    owner, word, streams, st_position, live, leaked, unread,
    \* GuestFs, files that the guest makes and, of the bundle, writes
    tree, disk, working_directory, panicked

\* Three descriptors on files, resources and sockets, with two seek positions
\* between them.
Files == INSTANCE FileDescriptors WITH
    Kinds <- {"file", "resource", "socket"}, Cursors <- {"c1", "c2"}, Pipes <- {},
    MaxFiles <- 3, MaxPosition <- 1, MaxBytes <- 0, Closed <- Closed, Base <- 3

\* Two pipes that hold two bytes, whose ends are duplicated and closed in any order.
PipesOpen == INSTANCE FileDescriptors WITH
    Kinds <- {"pipe", "bundle"}, Cursors <- {"c1", "c2"}, Pipes <- {"p1", "p2"},
    MaxFiles <- 3, MaxPosition <- 0, MaxBytes <- 2, Closed <- Closed, Base <- 3,
    files <- pd_files, sockets <- pd_sockets, position <- pd_position,
    unsynced <- pd_unsynced, pipes <- pd_pipes, asked <- pd_asked

\* Every request for the first four bytes of a file of at most one byte, from each
\* of its ends.
Ranges == INSTANCE RecordLocks WITH
    Limit <- 4, MaxSize <- 1, Unlocked <- "unlocked", position <- lk_position

\* Two blocks of guest memory and three descriptors, files of two bytes; the guest
\* also frees streams it did not close.
Streams == INSTANCE FileStreams WITH
    Addresses <- {"a1", "a2"}, Fds <- {3, 4, 5}, Length <- 2, MaxPushed <- 2,
    None <- None, Closed <- Closed, Stdin <- 0, MixesReads <- FALSE,
    position <- st_position

\* Three directories in which the guest makes, writes, moves and removes a file or a
\* directory with a child, run after run.
Tree == INSTANCE GuestFs WITH
    Names <- {"a"}, Places <- {<<>>, <<"home", "Documents">>, <<"home", "tmp">>},
    Opened <- {}

\* The same file system, in which the guest only uses the bundle: two files of the
\* same name in two directories of the bundle and one that is empty, opened by full
\* or relative paths, run after run.
Copies == INSTANCE GuestFs WITH
    Names <- {}, Places <- {},
    Opened <- {<<"home", "App", "data">>, <<"home", "App", "en.lproj", "data">>, <<"home", "App", "blank">>}

fd == <<files, sockets, position, unsynced, pipes, asked>>
pd == <<pd_files, pd_sockets, pd_position, pd_unsynced, pd_pipes, pd_asked>>
lk == <<locks, lk_position, size>>
st == <<owner, word, streams, st_position, live, leaked, unread>>
tr == <<tree, disk, working_directory, panicked>>

ASSUME BoundsAssumption ==
    /\ Files!BoundsAssumption /\ Files!SlotAssumption
    /\ PipesOpen!BoundsAssumption /\ PipesOpen!SlotAssumption
    /\ Ranges!LimitAssumption
    /\ Streams!BoundsAssumption

vars == <<app, fd, pd, lk, st, tr>>

Init ==
    /\ app \in {"files", "pipes", "record locks", "streams", "tree", "copies"}
    /\ Files!Init
    /\ PipesOpen!Init
    /\ Ranges!Init /\ (app # "record locks" => size = 0)
    /\ Streams!Init
    /\ Tree!Init

Next ==
    /\ UNCHANGED app
    /\ \/ app = "files" /\ Files!Next /\ UNCHANGED <<pd, lk, st, tr>>
       \/ app = "pipes" /\ PipesOpen!Next /\ UNCHANGED <<fd, lk, st, tr>>
       \/ app = "record locks" /\ Ranges!Next /\ UNCHANGED <<fd, pd, st, tr>>
       \/ app = "streams" /\ Streams!Next /\ UNCHANGED <<fd, pd, lk, tr>>
       \/ app = "tree" /\ Tree!Next /\ UNCHANGED <<fd, pd, lk, st>>
       \/ app = "copies" /\ Copies!Next /\ UNCHANGED <<fd, pd, lk, st>>

Spec == Init /\ [][Next]_vars

\* The socket table has an entry for exactly the descriptors that are sockets.
NoStaleSocket == app = "files" => Files!NoStaleSocket

\* Duplicates of a file the guest opened have its seek position, however many were
\* closed.
SharedPosition == app = "files" => Files!SharedPosition

\* A new descriptor is the lowest free one at or above the minimum that was asked
\* for, and none is handed out twice: what AbstractFdTable says.
FdImplements ==
    /\ Files!FdTable!Init
    /\ [][app = "files" => [Files!FdTable!Next]_(Files!FdTable!vars)]_vars

\* A pipe counts the descriptors that are open on each of its ends.
HandlesCounted == app = "pipes" => PipesOpen!HandlesCounted

\* No byte is in two of the ranges that a descriptor has locked.
LocksDisjoint == app = "record locks" => Ranges!LocksDisjoint

\* A request changes the lock on the bytes of its range and on no others: what
\* AbstractRecordLocks says.
LocksImplement ==
    /\ Ranges!Bytewise!Init
    /\ [][app = "record locks" => [Ranges!Bytewise!Next]_(Ranges!Bytewise!vars)]_vars

\* An open descriptor belongs to one stream, or was leaked by a free of its stream.
OneStreamEach == app = "streams" => Streams!OneStreamEach

\* A stream that is open has a block of guest memory and a host object of its own.
LiveHasBlock == app = "streams" => Streams!LiveHasBlock

\* The file stands before the characters pushed back: no byte is delivered twice or
\* skipped.
NoByteTwice == app = "streams" => Streams!NoByteTwice

\* What hangs on descriptors, sockets, seek positions, pipe ends and locked ranges,
\* follows them when they are duplicated and closed.
DescriptorsSound ==
    /\ app = "files" => Files!TypeOK
    /\ app = "pipes" => PipesOpen!TypeOK
    /\ app = "record locks" => Ranges!TypeOK
    /\ NoStaleSocket
    /\ SharedPosition
    /\ HandlesCounted
    /\ LocksDisjoint

\* The table of descriptors and the ranges of a record lock are what their abstract
\* specifications say.
TablesImplement ==
    /\ FdImplements
    /\ LocksImplement

\* The tree is that of the disk of the host, on which opening a file counts.
TreeMirrors == app = "tree" => Tree!Mirrors

\* So it is with copies of files of the bundle in it.
CopiesMirror == app = "copies" => Copies!Mirrors

\* The tree of the virtual file system is that of the disk of the host.
FilesMirrored ==
    /\ app = "tree" => Tree!TypeOK
    /\ app = "copies" => Copies!TypeOK
    /\ TreeMirrors
    /\ CopiesMirror

\* A step of one path changes what is found there and nowhere else; what is written
\* is what is read; a rename takes along a whole directory; documents outlive the
\* run, and nothing in tmp or the root does; the host panics for known calls only.
TreeNamesKept == [][app = "tree" => Tree!NamesKept]_vars

\* So it is with files of the bundle, but for two opened with the same relative
\* path.
CopyNamesKept == [][app = "copies" => Copies!NamesKept]_vars

\* What is found at a path is what was last written, made or moved there, in this
\* run and in the next.
NamesKept ==
    /\ TreeNamesKept
    /\ CopyNamesKept

\* A stream that is open has a descriptor, a block and a host object of its own, and
\* delivers each byte once.
StreamsSound ==
    /\ app = "streams" => Streams!TypeOK
    /\ OneStreamEach
    /\ LiveHasBlock
    /\ NoByteTwice
=============================================================================
