CONSTANTS
    Ips = {ip1, ip2, ip3}
    Threshold = 2
    BackoffCap = 3
    IdleLimit = 3
    MaxEntries = 2
    MaxExponent = 2
    MaxAttempts = 2
    MaxTime = 6
SPECIFICATION Spec
INVARIANTS
    TypeOK
    LockoutBounded
PROPERTY ForgetsOnlyExpired
