SPECIFICATION FairSpec
CONSTANTS
    TestSend = TRUE
    CloseRing = FALSE
    ChanCap = 1
    BatchSize = 2
    BatchCap = 1
    MaxPackets = 4
    PerTick = 2
    RingCap = 1
    DrainMax = 1
    NoTransport = {2}
INVARIANTS
    ExitAfterFlush
PROPERTIES
    ShutdownCompletes
    StreamEndsWithSource
