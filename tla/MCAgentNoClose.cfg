SPECIFICATION FairSpec
CONSTANTS
    TestSend = FALSE
    CloseRing = FALSE
    ChanCap = 1
    BatchSize = 1
    BatchCap = 1
    MaxPackets = 1
    PerTick = 1
    RingCap = 1
    DrainMax = 1
    NoTransport = {}
PROPERTIES
    ShutdownCompletes
