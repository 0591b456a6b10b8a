SPECIFICATION FairSpec
CONSTANTS
    w1 = w1
    w2 = w2
    Workers <- OneWorker
    Capacities = {0, 2}
    LbCapacity = 1
    MaxEvents = 3
    MaxOutliers = 0
PROPERTIES
    BotsYield
    ShutsDown
    LanesServed
CHECK_DEADLOCK FALSE
