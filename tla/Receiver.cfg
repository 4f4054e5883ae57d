SPECIFICATION Spec
CONSTANTS
    WRAP_MOD = 12
    SIZE_MOD = 64
    N = 13
    Capacity = 5
    ISNs = {0, 9}
    MaxLen = 4
INVARIANTS
    OutputInOrder
    AckIsFirstMissing
    NextByteAccepted
PROPERTY NeverShrinks
