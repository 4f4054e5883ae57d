SPECIFICATION LiveSpec
CONSTANTS
    SIZE_MOD = 64
    N = 8
    Capacity = 5
    MaxLen = 5
INVARIANTS
    BytesInPlace
    MemoryBound
    EofExact
PROPERTIES
    Refines
    EventuallyAssembled
