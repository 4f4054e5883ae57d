SPECIFICATION Spec
CONSTANTS
    WRAP_MOD = 32
    SIZE_MOD = 64
    UINT64_MOD = 64
    UINT16_MAX = 63
    MAX_PAYLOAD_SIZE = 1
    MAX_RETX_ATTEMPTS = 2
    LINGER_FACTOR = 2
    rt_timeout = 1
    recv_capacity = 2
    send_capacity = 2
    Client = Client
    Server = Server
    ClientISN = 30
    ServerISN = 14
    ClientLength = 3
    ServerLength = 1
    ISN <- MCISN
    Length <- MCLength
    Closers = {Client, Server}
    Destroyable = {}
    Timely = TRUE
    Prompt = FALSE
    Reorder = FALSE
    MaxFaults = 0
    MaxInFlight = 6
INVARIANT EofComplete
CHECK_DEADLOCK FALSE
