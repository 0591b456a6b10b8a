SPECIFICATION Spec
CONSTANTS
    w1 = w1
    w2 = w2
    Workers <- TwoWorkers
    Capacities = {2}
    LbCapacity = 1
    MaxEvents = 3
    MaxOutliers = 0
PROPERTY BotsYield
CHECK_DEADLOCK FALSE
