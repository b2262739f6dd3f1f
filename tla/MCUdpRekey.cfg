CONSTANTS
    Client = client
    Server = server
    Tasks = {t1}
    RecvTask = recv
    m1 = m1
    m2 = m2
    m3 = m3
    Msgs = {m1, m2, m3}
    MsgLen <- OneTwoThree
    Salts = {s1}
    HandshakeSalt = nonce
    ChunkLen = 1
    MaxFrames = 3
    MaxSeq = 9
    Workload <- ClientRekeys
    MaxCalls <- TwoClientCalls
    Reliable = FALSE
    CtrlLimit = 8
    WindowSize = 64
    BufferCap = 2
    MaxAttempts = 5
    MaxFaults = 0
SPECIFICATION UdpSpec
INVARIANT UtackVerifiable
CHECK_DEADLOCK FALSE
