CONSTANTS
    Client = client
    Server = server
    Tasks = {t1, t2}
    RecvTask = recv
    m1 = m1
    m2 = m2
    Msgs = {m1, m2}
    MsgLen <- TwoAndOne
    Salts = {s1}
    HandshakeSalt = nonce
    ChunkLen = 1
    MaxFrames = 2
    MaxSeq = 9
    Workload <- ClientSends
    MaxCalls <- TwoClientCalls
    Reliable = TRUE
    CtrlLimit = 8
    HighWater = 9
    MaxFaults = 1
SPECIFICATION TcpSpec
INVARIANT DeliveredIntact
CHECK_DEADLOCK FALSE
