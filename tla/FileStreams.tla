---------------------------- MODULE FileStreams ----------------------------
(***************************************************************************)
(* C streams (src/src/libc/stdio.rs): fopen, freopen, fclose, fgetc,       *)
(* ungetc, fread, fseeko, and the host objects beside the guest's FILEs.   *)
(*                                                                         *)
(* A FILE is a word of guest memory that holds a descriptor.  Its host     *)
(* object, with the characters pushed back, is kept in a map from the      *)
(* FILE's address that is filled lazily and that guest calls of free()     *)
(* pass by.  A descriptor is the lowest free one; every open file is a     *)
(* regular file of Length bytes, of which byte i is its offset.            *)
(*                                                                         *)
(* Bounds: Addresses for the blocks of the heap, Fds for descriptors,      *)
(* MaxPushed characters pushed back on a stream.                           *)
(*                                                                         *)
(* History: live are the streams the guest may use, leaked the descriptors *)
(* of streams it gave back with free(), unread the offset of the next byte *)
(* of the file that a stream has not delivered yet.                        *)
(***************************************************************************)
EXTENDS Integers, FiniteSetsExt, SequencesExt

CONSTANTS
    Addresses, Fds, Length, MaxPushed,
    None,           \* no host object
    Closed,         \* a descriptor that names no file
    Stdin,          \* descriptor 0, what a zeroed FILE holds
    MixesReads      \* the guest calls fread() with characters pushed back

BoundsAssumption ==
    /\ Fds \subseteq Nat \ {0} /\ Stdin \notin Fds
    /\ Length \in Nat /\ MaxPushed \in Nat
    /\ Closed \notin Nat /\ None \notin Seq(0..Length)
    /\ MixesReads \in BOOLEAN

VARIABLES
    owner,      \* what each block is allocated for: "none", "stream" or "other"
    word,       \* the descriptor in each FILE
    streams,    \* file_streams: the characters pushed back, oldest first
    position,   \* the seek position of each open descriptor
    live, leaked, unread

vars == <<owner, word, streams, position, live, leaked, unread>>

FreeFds == {fd \in Fds : position[fd] = Closed}
FreeBlocks == {a \in Addresses : owner[a] = "none"}
LowestFd == Min(FreeFds)

TypeOK ==
    /\ owner \in [Addresses -> {"none", "stream", "other"}]
    /\ word \in [Addresses -> Fds \cup {Stdin}]
    /\ DOMAIN streams = Addresses
    /\ \A a \in Addresses : streams[a] # None =>
            Len(streams[a]) <= MaxPushed /\ streams[a] \in Seq(0..Length)
    /\ position \in [Fds -> 0..Length \cup {Closed}]
    /\ live \subseteq Addresses /\ leaked \subseteq Fds
    /\ unread \in [Addresses -> 0..Length]

Init ==
    /\ owner = [a \in Addresses |-> "none"]
    /\ word = [a \in Addresses |-> Stdin]
    /\ streams = [a \in Addresses |-> None]
    /\ position = [fd \in Fds |-> Closed]
    /\ live = {} /\ leaked = {}
    /\ unread = [a \in Addresses |-> 0]

-----------------------------------------------------------------------------
(* get_file_host_obj_mut(): the characters pushed back on the stream whose *)
(* host object is made on first use.                                       *)
pushbacks(a) == IF streams[a] = None THEN <<>> ELSE streams[a]

(* lseek() on the descriptor in FILE a; it fails before the first byte and *)
(* on a descriptor that is not open.                                       *)
Reaches(a, offset) ==
    /\ word[a] \in Fds
    /\ position[word[a]] # Closed
    /\ position[word[a]] + offset \in 0..Length

Seeked(a, offset) == [position EXCEPT ![word[a]] = @ + offset]

(* Memory that is freed is filled with zeros: a FILE then names stdin. *)
Freed(a) ==
    /\ owner' = [owner EXCEPT ![a] = "none"]
    /\ word' = [word EXCEPT ![a] = IF owner[a] = "none" THEN @ ELSE Stdin]

(* close() of the descriptor in FILE a; the standard streams stay open and *)
(* any other descriptor is closed whoever opened it.                       *)
ClosedFd(a) == [fd \in Fds |-> IF fd = word[a] THEN Closed ELSE position[fd]]

-----------------------------------------------------------------------------

\* Fault: the stream has no host object yet.
fopen_without_host(a) ==
    /\ FreeFds # {} /\ a \in FreeBlocks
    /\ owner' = [owner EXCEPT ![a] = "stream"]
    /\ word' = [word EXCEPT ![a] = LowestFd]
    /\ position' = [position EXCEPT ![LowestFd] = 0]
    /\ live' = live \cup {a}
    /\ unread' = [unread EXCEPT ![a] = 0]
    /\ UNCHANGED <<streams, leaked>>

(* fopen(): a descriptor, a new FILE, and a host object that replaces      *)
(* whatever was left under the FILE's address.                             *)
fopen(a) ==
    /\ FreeFds # {} /\ a \in FreeBlocks
    /\ owner' = [owner EXCEPT ![a] = "stream"]
    /\ word' = [word EXCEPT ![a] = LowestFd]
    /\ streams' = [streams EXCEPT ![a] = <<>>]
    /\ position' = [position EXCEPT ![LowestFd] = 0]
    /\ live' = live \cup {a}
    /\ unread' = [unread EXCEPT ![a] = 0]
    /\ UNCHANGED leaked

\* Fault: the new file is opened before the old one is and the
\* FILE keeps its number.
freopen_keeping_number(a) ==
    /\ a \in live /\ FreeFds # {}
    /\ streams' = [streams EXCEPT ![a] = <<>>]
    /\ position' = [ClosedFd(a) EXCEPT ![LowestFd] = 0]
    /\ unread' = [unread EXCEPT ![a] = 0]
    /\ UNCHANGED <<owner, word, live, leaked>>

(* freopen(): the old descriptor is closed and the host object cleared;    *)
(* then the new file is opened, or cannot be and the stream keeps the      *)
(* number of the descriptor it lost.                                       *)
freopen(a) ==
    /\ a \in live
    /\ streams' = [streams EXCEPT ![a] = <<>>]
    /\ \/ LET free == {fd \in Fds : ClosedFd(a)[fd] = Closed}
          IN  /\ free # {}
              /\ position' = [ClosedFd(a) EXCEPT ![Min(free)] = 0]
              /\ word' = [word EXCEPT ![a] = Min(free)]
              /\ unread' = [unread EXCEPT ![a] = 0]
              /\ UNCHANGED live
       \/ /\ position' = ClosedFd(a)
          /\ live' = live \ {a}
          /\ UNCHANGED <<word, unread>>
    /\ UNCHANGED <<owner, leaked>>

(* fclose(): the host object is first made if there is none, so that there *)
(* always is one to remove; the FILE is freed and its descriptor closed.   *)
fclose(a) ==
    /\ a \in live
    /\ streams' = [streams EXCEPT ![a] = None]
    /\ Freed(a)
    /\ position' = ClosedFd(a)
    /\ live' = live \ {a}
    /\ UNCHANGED <<leaked, unread>>

\* Fault: the file is not moved over a character that was pushed back.
fgetc_not_moving(a) ==
    /\ a \in live
    /\ streams' = [streams EXCEPT ![a] =
            IF pushbacks(a) # <<>> THEN Front(pushbacks(a)) ELSE <<>>]
    /\ position' = IF pushbacks(a) = <<>> /\ Reaches(a, 1) THEN Seeked(a, 1) ELSE position
    /\ unread' = [unread EXCEPT ![a] =
            IF pushbacks(a) = <<>> /\ Reaches(a, 1) THEN @ + 1 ELSE @]
    /\ UNCHANGED <<owner, word, live, leaked>>

(* fgetc(): the last character pushed back, over which the file is moved   *)
(* on, or the next byte.                                                   *)
fgetc(a) ==
    /\ a \in live
    /\ streams' = [streams EXCEPT ![a] =
            IF pushbacks(a) # <<>> THEN Front(pushbacks(a)) ELSE <<>>]
    /\ position' = IF Reaches(a, 1) THEN Seeked(a, 1) ELSE position
    /\ unread' = [unread EXCEPT ![a] =
            IF pushbacks(a) = <<>> /\ Reaches(a, 1) THEN @ + 1 ELSE @]
    /\ UNCHANGED <<owner, word, live, leaked>>

(* ungetc(): the file is moved back by one and the character, any one, is  *)
(* pushed; before the first byte it fails.                                 *)
ungetc(a, c) ==
    /\ a \in live /\ Len(pushbacks(a)) < MaxPushed
    /\ Reaches(a, -1)
    /\ position' = Seeked(a, -1)
    /\ streams' = [streams EXCEPT ![a] = Append(pushbacks(a), c)]
    /\ UNCHANGED <<owner, word, live, leaked, unread>>

(* fread() of n bytes: characters pushed back come first, and the file is  *)
(* not moved over them; the rest comes from the file.                      *)
fread(a, n) ==
    /\ a \in live /\ n > 0
    /\ ~MixesReads => pushbacks(a) = <<>>
    /\ LET copied == Min({n, Len(pushbacks(a))})
           read == Min({n - copied, Length - position[word[a]]})
       IN  /\ streams' = [streams EXCEPT ![a] =
                    SubSeq(pushbacks(a), 1, Len(pushbacks(a)) - copied)]
           /\ position' = Seeked(a, read)
           /\ unread' = [unread EXCEPT ![a] = Min({@ + n - copied, Length})]
    /\ UNCHANGED <<owner, word, live, leaked>>

(* fseeko(), rewind() and fsetpos(): characters pushed back are dropped.   *)
fseeko(a, to) ==
    /\ a \in live
    /\ position' = [position EXCEPT ![word[a]] = to]
    /\ streams' = [streams EXCEPT ![a] = <<>>]
    /\ unread' = [unread EXCEPT ![a] = to]
    /\ UNCHANGED <<owner, word, live, leaked>>

(* free() of a FILE: its descriptor stays open, its host object stays. *)
free_stream(a) ==
    /\ a \in live
    /\ Freed(a)
    /\ live' = live \ {a}
    /\ leaked' = leaked \cup {word[a]}
    /\ UNCHANGED <<streams, position, unread>>

(* malloc() and free() of other blocks; a new block holds zeros. *)
malloc(a) ==
    /\ a \in FreeBlocks
    /\ owner' = [owner EXCEPT ![a] = "other"]
    /\ UNCHANGED <<word, streams, position, live, leaked, unread>>

free(a) ==
    /\ owner[a] = "other"
    /\ Freed(a)
    /\ UNCHANGED <<streams, position, live, leaked, unread>>

Next ==
    \E a \in Addresses :
        \/ fopen(a) \/ freopen(a) \/ fclose(a) \/ fgetc(a)
        \/ \E c \in 0..Length : ungetc(a, c)
        \/ \E n \in 1..Length : fread(a, n)
        \/ \E to \in 0..Length : fseeko(a, to)
        \/ free_stream(a) \/ malloc(a) \/ free(a)

Spec == Init /\ [][Next]_vars

-----------------------------------------------------------------------------
(* Every open descriptor belongs to one stream, or was leaked by a free():  *)
(* no call ever closes the descriptor of another stream or loses one.       *)
OneStreamEach ==
    /\ \A a, b \in live : a # b => word[a] # word[b]
    /\ {word[a] : a \in live} \cup leaked = Fds \ FreeFds
    /\ {word[a] : a \in live} \cap leaked = {}

(* A stream that is open has a FILE and a host object of its own. *)
LiveHasBlock == \A a \in live : owner[a] = "stream" /\ streams[a] # None

(* The file stands before the characters pushed back, as many bytes as      *)
(* there are: so no byte of the file is delivered twice or skipped,         *)
(* whatever was pushed back in between.                                     *)
NoByteTwice ==
    \A a \in live : position[word[a]] + Len(pushbacks(a)) = unread[a]

=============================================================================
