SPECIFICATION FairRecordSpec
CONSTANT MaxEvents = 5
INVARIANTS
    RecordingLoads
PROPERTY Ends
CHECK_DEADLOCK FALSE
