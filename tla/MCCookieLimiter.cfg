CONSTANTS
    Ips = {ip1, ip2, ip3}
    Capacity = 2
    Refill = 1
    MaxTable = 2
    MaxTime = 4
    MaxRequests = 4
SPECIFICATION Spec
INVARIANTS
    CookieTypeOK
    BucketExact
PROPERTY KeepsRecent
CHECK_DEADLOCK FALSE
