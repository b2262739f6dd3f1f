CONSTANTS
    Client = client
    Server = server
    Tasks = {t1}
    RecvTask = recv
    m1 = m1
    m2 = m2
    Msgs = {m1, m2}
    MsgLen <- TwoAndOne
    Salts = {s1, s2}
    HandshakeSalt = nonce
    ChunkLen = 1
    MaxFrames = 2
    MaxSeq = 2
    Workload <- Everything
    MaxCalls <- TwoAndOneCalls
    Reliable = TRUE
    CtrlLimit = 1
    HighWater = 9
    MaxFaults = 1
SPECIFICATION FairTcpSpec
INVARIANTS
    NonceUnique
    DirectionsApart
    DeliveredFromWire
PROPERTY ByeEndsSession
CHECK_DEADLOCK FALSE
