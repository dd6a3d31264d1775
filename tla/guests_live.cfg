SPECIFICATION LiveSpec
CONSTANTS
    MaxThreads = 3
    MaxMutexes = 1
    MaxDepth = 2
    SemPtrs = {0, 1}
    SemValues = {0, 1}
    MaxPosted = 2
    CondPtrs = {0}
    InitialMagic = {"STATIC", "JUNK"}
    MutexPtrs = {0}
    GuestMutexTypes = {}
    Careless = FALSE
    MaxSuspend = 1
    GuestCalls <- AllGuests
INVARIANTS
    TypeOK
    ContextInv
    CurrentRunnable
    FinishedThreads
PROPERTIES
    GuestsProgress
    DeadlockReported
