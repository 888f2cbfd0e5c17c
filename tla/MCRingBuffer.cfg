SPECIFICATION FairSpec
CONSTANTS
    c1 = c1
    c2 = c2
    c3 = c3
    Consumers = {c1, c2, c3}
    Cap = 3
    MaxPush = 6
    DrainMax = 2
PROPERTIES
    EveryItemLeaves
    CloseEndsConsumers
    ImplementsDropOldestQueue
INVARIANTS
    TypeOK
    NoLostWakeup
    CloseWakesAll
    Conservation
    TakenInOrder
    DrainedBeforeEnd
