SPECIFICATION Spec
CONSTANTS
    a1 = a1
    a2 = a2
    a3 = a3
    b1 = b1
    b2 = b2
    AsyncConsumers <- Async
    BlockingConsumers <- Blocking
    Capacities = {0, 1, 2}
    MaxPushes = 6
SYMMETRY Symmetry
INVARIANTS
    TypeOK
    OldestFirst
    OverflowCountsLosses
    LoopersNotStranded
    BlockingNotStranded
PROPERTY
    ImplementsFifo
