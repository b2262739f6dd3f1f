CONSTANTS
    Psks = {"psk", "other", "none"}
    MaxStreams = 2
    MaxAttempts = 2
    BufferCap = 1
SPECIFICATION FairSpec
INVARIANTS
    HandshakeTypeOK
    Agreement
    ServerReady
    NotRejected
PROPERTIES
    HandshakeEnds
    Completes
CHECK_DEADLOCK FALSE
