SPECIFICATION FocusSpec
CONSTANTS
    w1 = w1
    w2 = w2
    h1 = h1
    h2 = h2
    p1 = p1
    p2 = p2
    s1 = s1
    s2 = s2
    MaxTime = 6
    RateSources = {s1}
    PktRate = 1
    Capacity = 2
    BytesRate = 1
    ConnRate = 1
    RateWindow = 3
    RateIdle = 3
    PacketSizes = {1, 2}
    MaxInspected = 5
    ScanWorkers = {w1, w2}
    ScanSources = {s1, s2}
    ScanPorts = {p1, p2}
    SrcHash <- MCHash
    ScanWindow = 2
    PortThreshold = 2
    SrcThreshold = 2
    MaxContacts = 3
    NotScanning = NotScanning
    SynWorkers = {w1, w2}
    Hosts = {h1, h2}
    SynMin = 2
    RatioThreshold = 2
    SynWindow = 1
    CountersTtl = 2
    HalfOpenThreshold = 2
    HalfOpenTtl = 2
    MaxSegments = 3
    Idle = Idle
SYMMETRY Symmetry
PROPERTIES
    RstOfTrackedIsQuiet
