SPECIFICATION Spec
CHECK_DEADLOCK FALSE
INVARIANTS
    TimersSound
    
    AudioSound
PROPERTIES
    CallbacksSound
