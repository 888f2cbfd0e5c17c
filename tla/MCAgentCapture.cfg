SPECIFICATION FairSpec
CONSTANTS
    TestSend = FALSE
    CloseRing = FALSE
    ChanCap = 1
    BatchSize = 2
    BatchCap = 1
    MaxPackets = 3
    PerTick = 1
    RingCap = 2
    DrainMax = 2
    NoTransport = {}
INVARIANTS
    TypeOK
    Conservation
    SeqGapFree
PROPERTIES
    ImplementsOrderedFeed
    ShutdownReachesJoin
