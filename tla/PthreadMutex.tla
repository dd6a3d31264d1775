---------------------------- MODULE PthreadMutex ----------------------------
(***************************************************************************)
(* The guest-visible mutexes of src/src/libc/pthread/mutex.rs: guest       *)
(* memory holds a magic number and, once registered, the MutexId of the    *)
(* host-side mutex.  "STATIC" is PTHREAD_MUTEX_INITIALIZER, "MUTX" a       *)
(* registered mutex and "JUNK" a destroyed one or any other content.       *)
(***************************************************************************)
EXTENDS Scheduler

CONSTANT MutexPtrs      \* guest addresses of the mutexes
ASSUME MutexPtrAssumption == MutexPtrs \subseteq Nat

VARIABLE mutex_word     \* the pthread_mutex_t in guest memory

MutexWord == [magic : {"STATIC", "MUTX", "JUNK"}, id : MutexIds \cup {NoMutex}]

WordTypeOK ==
    /\ mutex_word \in [MutexPtrs -> MutexWord]
    /\ \A p \in MutexPtrs :
          mutex_word[p].magic = "MUTX" => mutex_word[p].id \in MutexIds

WordInit ==
    mutex_word \in [MutexPtrs -> [magic : InitialMagic, id : {NoMutex}]]

(***************************************************************************)
(* check_or_register_mutex: a statically initialised mutex is registered   *)
(* by its first use.  MutexOf and MutexesAt are the identifier at address  *)
(* p and the host map once that has happened.                              *)
(***************************************************************************)
MutexKnown(p) == mutex_word[p].magic \in {"STATIC", "MUTX"}

IsStatic(p) == mutex_word[p].magic = "STATIC"

MutexOf(p) == IF IsStatic(p) THEN mutex_count ELSE mutex_word[p].id

MutexesAt(p) == IF IsStatic(p)
                THEN init_mutex(mutexes, mutex_count, "NORMAL")
                ELSE mutexes

check_or_register_mutex(p) ==
    /\ MutexKnown(p)
    /\ IsStatic(p) => mutex_count < MaxMutexes
    /\ mutex_count' = IF IsStatic(p) THEN mutex_count + 1 ELSE mutex_count

\* Fault: pthread_mutex_destroy leaves the guest mutex as it was.
WriteWord_undestroyed(p, magic, id) ==
    mutex_word' = [mutex_word EXCEPT
                     ![p] = IF magic = "JUNK"
                            THEN [magic |-> "MUTX", id |-> MutexOf(p)]
                            ELSE [magic |-> magic, id |-> id]]

\* What the call leaves in guest memory.
WriteWord(p, magic, id) ==
    mutex_word' = [mutex_word EXCEPT ![p] = [magic |-> magic, id |-> id]]

=============================================================================
