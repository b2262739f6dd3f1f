CONSTANTS
    Client = client
    Server = server
    Tasks = {t1}
    RecvTask = recv
    m1 = m1
    m2 = m2
    m3 = m3
    Msgs = {m1, m2, m3}
    MsgLen <- OneTwoThree
    Salts = {s1}
    HandshakeSalt = nonce
    ChunkLen = 1
    MaxFrames = 3
    MaxSeq = 3
    Workload <- ClientTalks
    MaxCalls <- TwoClientCalls
    Reliable = FALSE
    CtrlLimit = 1
    WindowSize = 2
    BufferCap = 1
    MaxAttempts = 2
    MaxFaults = 1
SPECIFICATION FairUdpSpec
INVARIANTS
    UdpTypeOK
    DeliveredOnce
    InOrder
PROPERTY CallsEnd
CHECK_DEADLOCK FALSE
