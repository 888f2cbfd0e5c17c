SPECIFICATION FairSpec
CONSTANTS
    w1 = w1
    w2 = w2
    None = None
    Workers = {w1}
    Packets <- MixedPackets
    MaxRestarts = 1
    WellKnownPorts <- MCWellKnownPorts
    Persisters <- MCPersisters
PROPERTIES
    AnalysisCompletes
    LearningEnds
