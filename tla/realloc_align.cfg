SPECIFICATION Spec
CONSTANTS
    MIN_CHUNK_SIZE = 2
    PAGE_SIZE = 8
    Top = 24
    Sizes = {1, 3}
    Segments <- NoSegments
    ZeroOnFree = TRUE
INVARIANT
    HeapAligned
