SPECIFICATION FairSpec
CONSTANTS
    c1 = c1
    c2 = c2
    Clients <- TwoClients
    Files <- FourFiles
    Rates = {0, 10, 20}
    MaxAge = 3
INVARIANTS
    NeverEarly
PROPERTIES
    Streams
    ReturnsOnceAlone
CHECK_DEADLOCK FALSE
