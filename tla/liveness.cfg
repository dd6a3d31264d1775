SPECIFICATION FairSpec
CHECK_DEADLOCK FALSE
CONSTANTS
    AnyCond = AnyCond
    NoOwner = NoOwner
INVARIANTS
    QueuesSound
PROPERTIES
    MonitorImplements
    LocksTaken
    
