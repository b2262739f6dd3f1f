CONSTANTS
    Ips = {ip1, ip2}
    Ports = {p1}
    Configs <- TcpAndUdp
    MaxInProgress = 2
    Permits = 1
    HandlerTimeouts = FALSE
    MaxConns = 3
    Threshold = 1
    BackoffCap = 1
    IdleLimit = 9
    MaxEntries = 2
    MaxExponent = 9
    MaxTime = 1
SPECIFICATION FairSpec
INVARIANTS
    TypeOK
    CountsExact
    RegistryExact
    SessionsBounded
    NothingOutlivesServe
PROPERTIES
    LimiterSpec
    HandshakesEnd
    ShutdownEnds
CHECK_DEADLOCK FALSE
