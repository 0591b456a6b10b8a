SPECIFICATION FairSpec
CONSTANTS
    w1 = w1
    w2 = w2
    Workers <- TwoWorkers
    Capacities = {0, 1}
    MaxEvents = 2
    MaxOutliers = 1
INVARIANT
    SummaryIsComplete
PROPERTIES
    ImplementsLife
    ShutsDown
CHECK_DEADLOCK FALSE
