SPECIFICATION Spec
CONSTANTS
    w1 = w1
    w2 = w2
    None = None
    Workers = {w1, w2}
    Packets <- CleanPackets
    MaxRestarts = 1
    WellKnownPorts <- MCWellKnownPorts
    Persisters <- MCPersisters
SYMMETRY WorkerSymmetry
INVARIANTS
    TypeOK
    FileIsNewest
    RefinementIsFrozen
