SPECIFICATION Spec
CHECK_DEADLOCK FALSE
CONSTANTS
    AnyCond = AnyCond
    NoOwner = NoOwner
INVARIANTS
    ObjectExclusive
    MutexesKept
    SemaphoresSound
    
    QueuesNested
PROPERTIES
    ExclusionImplements
