CONSTANTS
    Client = client
    Server = server
    Tasks = {t1, t2}
    RecvTask = recv
    m1 = m1
    m2 = m2
    Msgs = {m1, m2}
    MsgLen <- TwoAndOne
    Salts = {s1, s2}
    HandshakeSalt = nonce
    ChunkLen = 1
    MaxFrames = 2
    MaxSeq = 2
    Workload <- BothRekey
    MaxCalls <- ClientCalls
SPECIFICATION Spec
SYMMETRY Symmetry
INVARIANTS
    TypeOK
    NonceUnique
    OneWriter
    MessageUnbroken
CHECK_DEADLOCK FALSE
