CONSTANTS
    Client = client
    Server = server
    Tasks = {t1, t2}
    RecvTask = recv
    m1 = m1
    m2 = m2
    Msgs = {m1, m2}
    MsgLen <- TwoAndEmpty
    Salts = {s1, s2}
    HandshakeSalt = nonce
    ChunkLen = 1
    MaxFrames = 2
    MaxSeq = 9
    Workload <- TalkAndRekey
    MaxCalls <- ThreeAndOne
    Reliable = TRUE
    CtrlLimit = 8
    HighWater = 1
    MaxFaults = 0
SPECIFICATION CarefulTcpSpec
INVARIANTS
    TcpTypeOK
    StaysInStep
PROPERTY ChannelSpec
CHECK_DEADLOCK FALSE
