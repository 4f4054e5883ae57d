SPECIFICATION Spec
CONSTANTS
    ETHERNET_BROADCAST = broadcast
    REQUEST_TIMEOUT = 1
    CACHE_TIMEOUT = 2
    Neighbour = {n1, n2}
    NeighbourEth = {e1, e2}
    MaxTime = 4
    MaxSent = 3
INVARIANTS
    FifoPerHop
    WaitingIsAskedFor
PROPERTIES
    FreshAddress
