CONSTANTS
    Kinds <- MCKinds
    MaxLen = 74
    MaxVarint = 2
    Counts = {0, 5}
SPECIFICATION MCSpec
INVARIANTS
    FileIsReadAsWritten
    SegmentIsFound
    RecordingIsRead
    
PROPERTY FailureHoldsItsPlace
CHECK_DEADLOCK FALSE
