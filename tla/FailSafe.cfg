SPECIFICATION FairSpec
CONSTANTS
    w1 = w1
    w2 = w2
    Workers <- TwoWorkers
    DwellTicks = 2
    RingLen = 3
    MaxSamples = 3
INVARIANTS
    TypeOK
    NoStaleSamples
PROPERTIES
    ImplementsHysteresis
    Recovers
CHECK_DEADLOCK FALSE
