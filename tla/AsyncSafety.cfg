SPECIFICATION Spec
CONSTANTS
    w1 = w1
    w2 = w2
    Workers <- TwoWorkers
    Capacities = {0, 1}
    LbCapacity = 2
    MaxEvents = 2
    MaxOutliers = 1
SYMMETRY Symmetry
INVARIANTS
    NoTaskStranded
    SummaryHasAllSamples
    SnapshotCoversEarlier
PROPERTY
    ImplementsLife
CHECK_DEADLOCK FALSE
