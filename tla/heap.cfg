SPECIFICATION Spec
CONSTANTS
    MIN_CHUNK_SIZE = 2
    PAGE_SIZE = 8
    Top = 24
    Sizes = {1, 3, 7, 9}
    Segments <- MCSegments
    ZeroOnFree = TRUE
INVARIANTS
    TypeOK HeapPartitioned FreshZeroed
