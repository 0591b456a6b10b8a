SPECIFICATION FairIngestSpec
CONSTANTS
    Limits <- SomeLimits
    MaxBackoff = 12
    MaxEvents = 5
    MaxFailures = 6
INVARIANTS
    BackoffCountsFailures
    LimitHonest
PROPERTIES
    ImplementsSource
    CancelReturns
CHECK_DEADLOCK FALSE
