------------------------------ MODULE GuestFs ------------------------------
(***************************************************************************)
(* The virtual file system of the guest, struct Fs (src/src/fs.rs): a tree *)
(* in memory whose writeable nodes name files and directories of the host. *)
(* Every operation changes the tree and the host's disk by hand, and opens *)
(* assume that the tree knows what the disk holds: handle_open_err()       *)
(* panics when it does not.  At the launch of an app the tree is built     *)
(* from the disk; a panic or an exit is followed by the next launch.       *)
(*                                                                         *)
(* Paths are sequences of names, resolved as resolve_path() does.  <<>> is *)
(* the root, "home" the home directory of the app, "mobile" stands for     *)
(* /var/mobile.  The contents of a file are "empty", "bundle" (what the    *)
(* archive of the app holds) or "new".                                     *)
(*                                                                         *)
(* Bounds: the guest makes and moves only nodes with one of Names in one   *)
(* of Places, or in a directory that it made there, no deeper.  Places has *)
(* no home directory, whose contents a launch does not read back, and not  *)
(* both of the Library directories, which share one host directory.  Of    *)
(* the bundle it opens the files in Opened, and does not move them.        *)
(***************************************************************************)
EXTENDS Integers, SequencesExt

CONSTANTS Names, Places, Opened

VARIABLES tree,               \* path -> node: its kind, and host path or ReadOnly
          disk,               \* host path -> "dir" or the contents of a file
          working_directory,
          panicked            \* the host has panicked in handle_open_err()

vars == <<tree, disk, working_directory, panicked>>

ReadOnly == <<"read-only">>

File(host) == [kind |-> "file", host |-> host]
Dir(host) == [kind |-> "dir", host |-> host]

Bundle == <<"home", "App">>
English == Append(Bundle, "en.lproj")
BundleFiles == {Append(Bundle, "data"), Append(English, "data"), Append(Bundle, "blank")}
BundleContents(p) == IF Last(p) = "blank" THEN "empty" ELSE "bundle"

(* The guest's directories that are filled from a host directory. *)
Mounts ==
    (<<>> :> <<"root">>) @@ (<<"home", "Documents">> :> <<"Documents">>) @@
    (<<"home", "tmp">> :> <<"tmp">>) @@ (<<"home", "Library">> :> <<"Library">>) @@
    (<<"mobile", "Library">> :> <<"Library">>)

cow_dir == <<"bundle_cow">>
HostDirs == {Mounts[p] : p \in DOMAIN Mounts}
                \cup {<<"AppSandbox">>, cow_dir, <<"Library", "Preferences">>}

Under(ps, p) == {q \in ps : IsPrefix(p, q)}
Suffix(p, q) == SubSeq(q, Len(p) + 1, Len(q))
Parents(p) == {SubSeq(p, 1, n) : n \in 0..(Len(p) - 1)}

IsDir(p) == p \in DOMAIN tree /\ tree[p].kind = "dir"
Writeable(p) == tree[p].host # ReadOnly

\* Fault: what the last run left in tmp stays.
Cleaned_root(d) ==
    [h \in (DOMAIN d \ Under(DOMAIN d, <<"root">>)) \cup HostDirs |->
        IF h \in HostDirs THEN "dir" ELSE d[h]]

(* Fs::new(): what the last run left in tmp and in the root is deleted, and *)
(* the directories that an app expects are made.                            *)
Cleaned(d) ==
    [h \in (DOMAIN d \ (Under(DOMAIN d, <<"tmp">>) \cup Under(DOMAIN d, <<"root">>)))
               \cup HostDirs |-> IF h \in HostDirs THEN "dir" ELSE d[h]]

\* Fault: what lies in directories is not read back.
from_host_dir_shallow(d, m) ==
    LET h == Mounts[m]
        at(x) == m \o Suffix(h, x)
        there == {x \in Under(DOMAIN d, h) : Len(x) <= Len(h) + 1}
    IN  [p \in {at(x) : x \in there} |->
            LET x == h \o Suffix(m, p)
            IN  IF d[x] = "dir" THEN Dir(x) ELSE File(x)]

from_host_dir(d, m) ==
    LET h == Mounts[m]
        at(x) == m \o Suffix(h, x)
    IN  [p \in {at(x) : x \in Under(DOMAIN d, h)} |->
            LET x == h \o Suffix(m, p)
            IN  IF d[x] = "dir" THEN Dir(x) ELSE File(x)]

(* The layout of the tree.  The home directory is writeable, but the host   *)
(* directory it is on is not read.                                          *)
Launched(d) ==
    [p \in BundleFiles |-> File(ReadOnly)]
    @@ (Bundle :> Dir(ReadOnly)) @@ (English :> Dir(ReadOnly))
    @@ (<<"home">> :> Dir(<<"AppSandbox">>)) @@ (<<"mobile">> :> Dir(ReadOnly))
    @@ from_host_dir(d, <<"home", "Documents">>) @@ from_host_dir(d, <<"home", "tmp">>)
    @@ from_host_dir(d, <<"home", "Library">>) @@ from_host_dir(d, <<"mobile", "Library">>)
    @@ from_host_dir(d, <<>>)

Init ==
    /\ disk = [h \in HostDirs |-> "dir"]
    /\ tree = Launched(disk)
    /\ working_directory = Bundle
    /\ panicked = FALSE

(* The next run of the app, after the exit or the panic of this one. *)
new ==
    /\ disk' = Cleaned(disk)
    /\ tree' = Launched(disk')
    /\ working_directory' = Bundle
    /\ panicked' = FALSE
-----------------------------------------------------------------------------
(* GuestOpenOptions, without the right to read, which changes nothing. *)
Options == [write : BOOLEAN, append : BOOLEAN, create : BOOLEAN,
            create_new : BOOLEAN, truncate : BOOLEAN]

Writing == [write |-> TRUE, append |-> FALSE, create |-> TRUE,
            create_new |-> FALSE, truncate |-> TRUE]

(* "Forcing write": who creates or truncates may write. *)
Writes(o) == o.write \/ ((o.truncate \/ o.create \/ o.create_new) /\ ~o.append)

(* std::fs::OpenOptions and the host: whether the open succeeds.  It does   *)
(* not take truncate with append, and create_new is not handed on.          *)
HostOpens(d, h, o, create) ==
    /\ ~(o.append /\ o.truncate)
    /\ IF h \in DOMAIN d THEN d[h] = "dir" => ~(Writes(o) \/ o.append)
       ELSE create /\ Front(h) \in DOMAIN d /\ d[Front(h)] = "dir"

Contents(d, h, o, data) ==
    IF h \notin DOMAIN d \/ o.truncate THEN (h :> data) @@ d ELSE d

(* handle_open_err(File::options()..open()): on success the tree becomes t. *)
OpenHost(h, o, create, data, t, d) ==
    LET opens == HostOpens(d, h, o, create)
    IN  /\ panicked' = ~opens
        /\ disk' = IF opens THEN Contents(d, h, o, data) ELSE d
        /\ tree' = IF opens THEN t ELSE tree

\* Fault: the directory loses its other children.
Without_siblings(p) ==
    [q \in DOMAIN tree \ (Under(DOMAIN tree, Front(p)) \ {Front(p)}) |-> tree[q]]

Without(p) == [q \in DOMAIN tree \ Under(DOMAIN tree, p) |-> tree[q]]

(* open_with_options(), where the path leads to an existing host file. *)
OpenExisting(p, o, data) ==
    /\ p \in DOMAIN tree /\ tree[p].kind = "file" /\ Writeable(p)
    /\ ~o.create_new
    /\ OpenHost(tree[p].host, o, FALSE, data, tree, disk)

(* Its OpenAction::CowIpa: a file of the archive that is to be written is   *)
(* first copied to the host, under the path as the guest wrote it; a copy   *)
(* that is there from an earlier run is used as it is.  What is empty is    *)
(* not copied.                                                              *)
CopiedOut(copy, p) ==
    IF copy \in DOMAIN disk \/ BundleContents(p) = "empty" THEN disk
    ELSE (copy :> BundleContents(p)) @@ [h \in Parents(copy) \ {<<>>} |-> "dir"] @@ disk

\* Fault: the node stays that of the archive.
CopyOnWrite_not_upgraded(p, spelled, o, data) ==
    /\ p \in DOMAIN tree /\ tree[p] = File(ReadOnly)
    /\ ~o.create_new /\ (Writes(o) \/ o.append)
    /\ LET copy == cow_dir \o spelled
       IN  OpenHost(copy, o, FALSE, data, tree, CopiedOut(copy, p))

CopyOnWrite(p, spelled, o, data) ==
    /\ p \in DOMAIN tree /\ tree[p] = File(ReadOnly)
    /\ ~o.create_new /\ (Writes(o) \/ o.append)
    /\ LET copy == cow_dir \o spelled
       IN  OpenHost(copy, o, FALSE, data, (p :> File(copy)) @@ tree, CopiedOut(copy, p))

(* Its last part: a file that is not there, but also a directory that is to *)
(* be written, OpenAction::Reject, is created on the host.                  *)
Create(p, o, data) ==
    /\ \/ p \notin DOMAIN tree
       \/ IsDir(p) /\ Writes(o) /\ ~o.create_new
    /\ o.create \/ o.create_new
    /\ IsDir(Front(p)) /\ Writeable(Front(p))
    /\ LET h == Append(tree[Front(p)].host, Last(p))
       IN  OpenHost(h, o, TRUE, data, (p :> File(h)) @@ Without(p), disk)

(* A path is written in full, or from the working directory. *)
Spellings(p) ==
    {p} \cup {Suffix(w, p) : w \in {working_directory} \cap Parents(p)}

open_with_options(p, o, data) ==
    /\ ~panicked
    /\ \/ OpenExisting(p, o, data)
       \/ \E spelled \in Spellings(p) : CopyOnWrite(p, spelled, o, data)
       \/ Create(p, o, data)
    /\ UNCHANGED working_directory

open(p, o) == open_with_options(p, o, "empty")

(* Fs::write(): opens, creating and truncating, and writes all of the data. *)
write(p) == open_with_options(p, Writing, "new")
-----------------------------------------------------------------------------
(* Fs::remove(), of a file or of a directory that is empty in the tree. *)
remove(p) ==
    /\ ~panicked
    /\ p \in DOMAIN tree /\ Writeable(Front(p)) /\ Writeable(p)
    /\ Under(DOMAIN tree, p) = {p}
    /\ LET h == tree[p].host
           removes == /\ h \in DOMAIN disk
                      /\ (disk[h] = "dir") <=> (tree[p].kind = "dir")
                      /\ Under(DOMAIN disk, h) = {h}
       IN  /\ panicked' = ~removes
           /\ disk' = IF removes THEN [x \in DOMAIN disk \ {h} |-> disk[x]] ELSE disk
           /\ tree' = IF removes THEN Without(p) ELSE tree
    /\ UNCHANGED working_directory

(* Fs::create_dir_all(): create_dir() for every prefix of the path that is  *)
(* not in the tree.  A host directory that exists is used as it is; the     *)
(* first that is made needs a directory that is writeable to be in.         *)
Missing(p) == {q \in Parents(p) \cup {p} : q \notin DOMAIN tree}

create_dir_all(p) ==
    /\ ~panicked
    /\ p \notin DOMAIN tree
    /\ LET top == CHOOSE q \in Parents(p) \ Missing(p) :
                      \A r \in Parents(p) \ Missing(p) : Len(r) <= Len(q)
           host(q) == tree[top].host \o Suffix(top, q)
           hosts == {host(q) : q \in Missing(p)}
           makes == tree[top].host \in DOMAIN disk
       IN  /\ IsDir(top) /\ Writeable(top)
           /\ panicked' = ~makes
           /\ tree' = IF makes THEN [q \in Missing(p) |-> Dir(host(q))] @@ tree ELSE tree
           /\ disk' = IF makes THEN disk @@ [h \in hosts |-> "dir"] ELSE disk
    /\ UNCHANGED working_directory

(* Fs::create_dir(): all but the last name must be there. *)
create_dir(p) == Front(p) \in DOMAIN tree /\ create_dir_all(p)

change_working_directory(p) ==
    /\ ~panicked
    /\ IsDir(p)
    /\ working_directory' = p
    /\ UNCHANGED <<tree, disk, panicked>>
-----------------------------------------------------------------------------
(* rename() of the host: over a file, or over an empty directory. *)
HostRenames(from, to) ==
    /\ from \in DOMAIN disk /\ Front(to) \in DOMAIN disk /\ disk[Front(to)] = "dir"
    /\ IF disk[from] = "dir"
       THEN /\ ~IsPrefix(from, to)
            /\ to \in DOMAIN disk =>
                   disk[to] = "dir" /\ Under(DOMAIN disk, to) = {to}
       ELSE to \in DOMAIN disk => disk[to] # "dir"

(* f with what lies under from moved to lie under to, in place of what is   *)
(* there.                                                                   *)
Relocated(f, from, to) ==
    LET goes == Under(DOMAIN f, from)
        stays == DOMAIN f \ (goes \cup Under(DOMAIN f, to))
    IN  [p \in stays \cup {to \o Suffix(from, x) : x \in goes} |->
            IF p \in stays THEN f[p] ELSE f[from \o Suffix(to, p)]]

\* Fault: only the node itself is given its new host path.
update_host_paths_of_node(p, host) == [tree EXCEPT ![p].host = host]

(* FsNode::update_host_paths_recursively() *)
update_host_paths_recursively(p, host) ==
    [q \in DOMAIN tree |->
        IF IsPrefix(p, q) THEN [tree[q] EXCEPT !.host = host \o Suffix(p, q)] ELSE tree[q]]

\* Fault: the tree keeps what was renamed under its old name too.
rename_keeping(from, to) ==
    /\ ~panicked
    /\ from # to /\ from \in DOMAIN tree /\ Writeable(from)
    /\ IsDir(Front(to)) /\ Writeable(Front(to))
    /\ LET h == tree[from].host
           g == Append(tree[Front(to)].host, Last(to))
       IN  /\ HostRenames(h, g)
           /\ disk' = Relocated(disk, h, g)
           /\ tree' = Relocated(update_host_paths_recursively(from, g), from, to) @@ tree
    /\ UNCHANGED <<working_directory, panicked>>

(* Fs::rename(): the host first, then the node is taken out of the tree,    *)
(* given its new host paths and put back under its new name.                *)
rename(from, to) ==
    /\ ~panicked
    /\ from # to /\ from \in DOMAIN tree /\ Writeable(from)
    /\ IsDir(Front(to)) /\ Writeable(Front(to))
    /\ LET h == tree[from].host
           g == Append(tree[Front(to)].host, Last(to))
       IN  /\ HostRenames(h, g)
           /\ disk' = Relocated(disk, h, g)
           /\ tree' = Relocated(update_host_paths_recursively(from, g), from, to)
    /\ UNCHANGED <<working_directory, panicked>>
-----------------------------------------------------------------------------
Made == {Append(p, n) : p \in Places, n \in Names}
Targets == Made \cup {Append(p, n) : p \in Made, n \in Names}

(* The bound on the depth of the tree. *)
Fits(from, to) ==
    \A p \in Under(DOMAIN tree, from) : to \o Suffix(from, p) \in Targets

Next ==
    \/ new
    \/ \E p \in Targets \cup Opened :
           write(p) \/ (\E o \in Options : open(p, o))
    \/ \E p \in Targets : remove(p) \/ create_dir(p) \/ create_dir_all(p)
    \/ \E p \in {Front(q) : q \in Opened} : change_working_directory(p)
    \/ \E from, to \in Targets : Fits(from, to) /\ rename(from, to)

Spec == Init /\ [][Next]_vars
-----------------------------------------------------------------------------
(* What the guest finds at a path: nothing, a directory, contents, or a     *)
(* file whose host file is gone.                                            *)
Seen(p) ==
    IF p \notin DOMAIN tree THEN "nothing"
    ELSE IF tree[p].kind = "dir" THEN "dir"
    ELSE IF tree[p].host = ReadOnly THEN BundleContents(p)
    ELSE IF tree[p].host \notin DOMAIN disk THEN "gone"
    ELSE disk[tree[p].host]

(* The tree, the disk and the working directory have their types. *)
TypeOK ==
    /\ DOMAIN tree \subseteq Targets \cup DOMAIN Launched([h \in HostDirs |-> "dir"])
    /\ \A p \in DOMAIN tree : tree[p].kind \in {"file", "dir"}
    /\ \A h \in DOMAIN disk : disk[h] \in {"dir", "empty", "bundle", "new"}
    /\ working_directory \in {Bundle, English}

(* The tree is that of the disk: every node is in a directory, a writeable  *)
(* one has a host file or directory of its own kind, and what is on the     *)
(* disk in a directory that was read at the launch, or made since, is in    *)
(* the tree under its name.  It is on this that handle_open_err() counts.   *)
Mirrors ==
    ~panicked =>
        \A p \in DOMAIN tree :
            /\ p # <<>> => IsDir(Front(p))
            /\ Writeable(p) =>
                   /\ tree[p].host \in DOMAIN disk
                   /\ (tree[p].kind = "dir") <=> (disk[tree[p].host] = "dir")
            /\ IsDir(p) /\ Writeable(p) /\ p # <<"home">> =>
                   \A x \in DOMAIN disk : Front(x) = tree[p].host =>
                       /\ Append(p, Last(x)) \in DOMAIN tree
                       /\ tree[Append(p, Last(x))].host = x

(* Two names are of one file only if they are copies of files of the bundle *)
(* that the guest opened with the same relative path.                       *)
OneCopy(p, q) ==
    /\ {p, q} \subseteq DOMAIN tree
    /\ tree[p].host = tree[q].host /\ IsPrefix(cow_dir, tree[p].host)

(* What follows is asked of every step.                                     *)

(* A step other than a launch or a rename is of one path: it changes what   *)
(* the guest finds there, below it and, where it makes directories, on the  *)
(* way to it, and nowhere else.                                             *)
ChangesOnly(p) ==
    \A q \in DOMAIN tree \cup DOMAIN tree' :
        \/ IsPrefix(p, q) \/ Seen(q)' = Seen(q) \/ OneCopy(p, q)'
        \/ IsPrefix(q, p) /\ Seen(q) = "nothing"

OthersKept ==
    \/ panicked'
    \/ \E p \in Targets \cup Opened : ChangesOnly(p)
    \/ new
    \/ \E from, to \in Targets : Fits(from, to) /\ rename(from, to)

(* What is written to a path is what the guest then finds there, also in a  *)
(* file of the bundle, which was not writeable until then.                  *)
ReadsWritten ==
    \A p \in Targets \cup Opened :
        write(p) /\ ~panicked' => Seen(p)' = "new"

(* A directory that is renamed takes along everything in it, however deep,  *)
(* and what was not renamed stays.                                          *)
RenamedWhole ==
    \A from, to \in Targets :
        Fits(from, to) /\ rename(from, to) =>
            \A q \in Targets \cup DOMAIN tree :
                Seen(q)' = IF IsPrefix(to, q) THEN Seen(from \o Suffix(to, q))
                           ELSE IF IsPrefix(from, q) THEN "nothing"
                           ELSE Seen(q)

(* The next run finds the documents of this one, and nothing in tmp or the  *)
(* root, which are for what does not outlive a run.                         *)
DocumentsPersist ==
    \A p \in Targets :
        \/ Seen(p)' = IF IsPrefix(<<"home", "Documents">>, p) THEN Seen(p) ELSE "nothing"
        \/ ~new

(* handle_open_err() panics for three calls only: to truncate and append,   *)
(* to create over a directory, and to write an empty file of the bundle.    *)
PanicsKnown ==
    panicked' /\ ~panicked =>
        \E p \in Targets \cup Opened, o \in Options :
            /\ \/ o.append /\ o.truncate
               \/ IsDir(p) /\ Writes(o) /\ o.create
               \/ p \in BundleFiles /\ BundleContents(p) = "empty"
            /\ open(p, o) \/ (o = Writing /\ write(p))

(* All of them together. *)
NamesKept ==
    OthersKept /\ ReadsWritten /\ RenamedWhole /\ DocumentsPersist /\ PanicsKnown
=============================================================================
