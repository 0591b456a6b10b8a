SPECIFICATION FairIngestSpec
CONSTANTS
    Limits <- SomeLimits
    MaxBackoff = 3
    StaleTicks = 1
    Width = 16
    MaxData = 3
    MaxTime = 3
INVARIANTS
    WholeEvents
    NoFalseAlarm
PROPERTIES
    ImplementsSource
    Returns
CHECK_DEADLOCK FALSE
