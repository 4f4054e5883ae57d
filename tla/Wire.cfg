SPECIFICATION Spec
CONSTANTS
    ETHERNET_BROADCAST <- MCBroadcast
    REQUEST_TIMEOUT = 1
    CACHE_TIMEOUT = 2
    Kinds = {"udp", "tun", "tap"}
    Clients <- MCClients
    Changes = {1, 16}
    MaxWrites <- MCMaxWrites
    MaxTime = 1
INVARIANTS Intact OnePeer UndamagedAccepted
CHECK_DEADLOCK FALSE
