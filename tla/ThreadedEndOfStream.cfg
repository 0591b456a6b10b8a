SPECIFICATION IngestSpec
CONSTANTS
    Limits <- Unlimited
    MaxBackoff = 3
    StaleTicks = 1
    Width = 16
    MaxData = 2
    MaxTime = 1
INVARIANT LimitHonest
CHECK_DEADLOCK FALSE
