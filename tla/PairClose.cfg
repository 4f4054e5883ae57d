SPECIFICATION BenchSpec
CONSTANTS
    WRAP_MOD = 32
    SIZE_MOD = 64
    UINT64_MOD = 64
    UINT16_MAX = 63
    MAX_PAYLOAD_SIZE = 1
    MAX_RETX_ATTEMPTS = 2
    LINGER_FACTOR = 2
    rt_timeout = 1
    recv_capacity = 3
    send_capacity = 3
    Client = Client
    Server = Server
    ClientISN = 30
    ServerISN = 14
    ClientLength = 5
    ServerLength = 2
    ISN <- MCISN
    Length <- MCLength
    Closers = {Client, Server}
    Destroyable = {}
    Timely = TRUE
    Prompt = TRUE
    Reorder = FALSE
    MaxFaults = 0
    MaxInFlight = 6
    BenchLengths = {0, 1, 2, 3, 4, 5, 6, 7, 8, 9, 10}
INVARIANTS
    EofComplete
PROPERTY BothClose
CHECK_DEADLOCK FALSE
