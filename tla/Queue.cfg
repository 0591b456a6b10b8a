SPECIFICATION FairSpec
CONSTANTS
    w1 = w1
    w2 = w2
    Workers <- TwoWorkers
    Capacities = {0, 2}
    MaxPushes = 3
INVARIANTS
    Accounting
    FifoWithinClass
    HumansFirst
    EvictsBotsThenOldest
    WorkConserving
PROPERTIES
    TasksLeave
CHECK_DEADLOCK FALSE
