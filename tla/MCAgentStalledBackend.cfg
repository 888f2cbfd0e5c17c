SPECIFICATION StalledBackendSpec
CONSTANTS
    TestSend = TRUE
    CloseRing = FALSE
    ChanCap = 1
    BatchSize = 1
    BatchCap = 1
    MaxPackets = 4
    PerTick = 2
    RingCap = 1
    DrainMax = 1
    NoTransport = {}
PROPERTIES
    StreamExitsOnCancel
