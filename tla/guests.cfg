SPECIFICATION GuestsSpec
CONSTANTS
    MaxThreads = 3
    MaxMutexes = 2
    MaxDepth = 2
    SemPtrs = {0, 1}
    SemValues = {0, 1}
    MaxPosted = 2
    CondPtrs = {0}
    InitialMagic = {"STATIC", "JUNK"}
    MutexPtrs = {0, 1}
    GuestMutexTypes = {"ERRORCHECK", "RECURSIVE"}
    Careless = FALSE
    MaxSuspend = 1
    GuestCalls <- AllGuests
INVARIANTS
    MutualExclusion
    MutexesCounted
    CondWaitersExact
    SemTokens
    NoHostPanic
    NoFalseDeadlock
