SPECIFICATION Spec
CONSTANTS
    WRAP_MOD = 32
    SIZE_MOD = 64
    UINT64_MOD = 64
    UINT16_MAX = 63
    MAX_PAYLOAD_SIZE = 1
    MAX_RETX_ATTEMPTS = 1
    LINGER_FACTOR = 0
    rt_timeout = 1
    recv_capacity = 2
    send_capacity = 2
    Client = Client
    Server = Server
    ClientISN = 30
    ServerISN = 14
    ClientLength = 2
    ServerLength = 0
    ISN <- MCISN
    Length <- MCLength
    Closers = {Client, Server}
    Destroyable = {Server}
    Timely = FALSE
    Prompt = FALSE
    Reorder = TRUE
    MaxFaults = 1
    MaxInFlight = 2
INVARIANTS
    PrefixDelivered
    AckedIsReceived
    NeverThrows
    CleanCloseComplete
    SomeoneLingers
PROPERTY StatesForward
CHECK_DEADLOCK FALSE
