CONSTANTS
    Buffers = {b1, b2}
    PrimesQueues = TRUE
    CallsFromCallbacks = {}
    SourceMayFail = FALSE
    PlaysOn = TRUE
    MaxQueues = 1
    MaxEnqueues = 3
SPECIFICATION Spec
CHECK_DEADLOCK FALSE
INVARIANT InSync
