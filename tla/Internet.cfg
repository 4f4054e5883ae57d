SPECIFICATION NetSpec
CONSTANTS
    ETHERNET_BROADCAST = broadcast
    REQUEST_TIMEOUT = 1
    CACHE_TIMEOUT = 2
    ADDRESS_BITS = 3
    NO_HOP = no_hop
    ExtraRoutes <- const_ExtraRoutes
    Ttls = {0, 3}
    MaxDatagrams = 2
    Runs = {"simulator", "lab7"}
    MaxIdle = 3
    MaxStarts = 3
INVARIANTS
    OneCopyToItsHost
    LongestPrefixMatch
PROPERTIES
    ComesToRest
    SimulatorArrives
    GetsThrough
CHECK_DEADLOCK FALSE
