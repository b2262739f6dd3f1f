CONSTANTS
    WindowSize = 3
    MaxSeq = 5
    MaxRekeys = 1
    BufferCap = 2
SPECIFICATION Spec
INVARIANTS
    TypeOK
    NoReplay
    WindowExact
    FilterKeepsFreshBeforeRekey
PROPERTY DropsOnlyStale
