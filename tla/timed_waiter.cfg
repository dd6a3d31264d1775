SPECIFICATION MisuseSpec
CONSTANTS
    MaxThreads = 2
    MaxMutexes = 1
    MaxDepth = 1
    SemPtrs = {}
    SemValues = {0}
    MaxPosted = 1
    CondPtrs = {0}
    InitialMagic = {"STATIC"}
    MutexPtrs = {0}
    GuestMutexTypes = {}
    Careless = TRUE
    MaxSuspend = 0
    GuestCalls <- MisuseGuest
INVARIANT
    BlockedMutexExists
