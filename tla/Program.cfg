SPECIFICATION Spec
CONSTANTS
    WRAP_MOD = 32
    SIZE_MOD = 64
    UINT64_MOD = 64
    UINT16_MAX = 63
    MAX_PAYLOAD_SIZE = 1
    MAX_RETX_ATTEMPTS = 2
    LINGER_FACTOR = 1
    rt_timeout = 1
    recv_capacity = 2
    send_capacity = 2
    PAIR_CAPACITY = 1
    COPY_CAPACITY = 2
    LocalISN = 30
    PeerISN = 14
    Sessions <- MCSessions
    MaxFaults = 1
INVARIANTS
    NothingLostBetween
    NoBrokenPipe
    CompleteAtExit
PROPERTIES
    LeavesNothingBehind
    Terminates
CHECK_DEADLOCK FALSE
