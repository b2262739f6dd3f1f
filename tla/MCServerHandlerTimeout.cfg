CONSTANTS
    Ips = {ip1}
    Ports = {p1}
    Configs <- JustTcp
    MaxInProgress = 2
    Permits = 1
    HandlerTimeouts = TRUE
    MaxConns = 3
    Threshold = 2
    BackoffCap = 1
    IdleLimit = 9
    MaxEntries = 2
    MaxExponent = 9
    MaxTime = 2
SPECIFICATION Spec
PROPERTY LimiterSpec
CHECK_DEADLOCK FALSE
