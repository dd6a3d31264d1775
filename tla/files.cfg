SPECIFICATION Spec
CHECK_DEADLOCK FALSE
CONSTANTS
    Closed = Closed
    None = None
INVARIANTS
    DescriptorsSound
    FilesMirrored
    StreamsSound
PROPERTIES
    TablesImplement
    NamesKept
