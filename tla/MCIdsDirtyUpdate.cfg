SPECIFICATION Spec
CONSTANTS
    w1 = w1
    w2 = w2
    None = None
    Workers = {w1}
    Packets <- MixedPackets
    MaxRestarts = 0
    WellKnownPorts <- MCWellKnownPorts
    Persisters <- MCPersisters
INVARIANTS
    OnlyCleanTrafficLearned
