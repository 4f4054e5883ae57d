SPECIFICATION Spec
CONSTANTS
    WRAP_MOD = 16
    UINT64_MOD = 64
    MAX_PAYLOAD_SIZE = 2
    N = 3
    SendCapacity = 3
    PeerCapacity = 3
    ISN = 13
    RTO = 1
    MaxRetx = 2
INVARIANTS
    OutstandingTiles
    TimerCoversOutstanding
    WithinWindowInOrder
