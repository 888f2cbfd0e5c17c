SPECIFICATION FairSpec
CONSTANTS
    TestSend = FALSE
    CloseRing = TRUE
    ChanCap = 1
    BatchSize = 2
    BatchCap = 1
    MaxPackets = 2
    PerTick = 1
    RingCap = 2
    DrainMax = 1
    NoTransport = {}
INVARIANTS
    ExitAfterFlush
PROPERTIES
    ShutdownCompletes
    PacketsAreDelivered
