SPECIFICATION Spec
CHECK_DEADLOCK FALSE
INVARIANTS
    
    WeakAndPools
    Dispatched
    ObservationSound
    ThreadObjectsSound
    ViewsSound
