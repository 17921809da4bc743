CONSTANTS
    QueueCap = 1
    Recording = FALSE
    FlushMayFail = FALSE
    MaxPackets = 1
    MaxLost = 0
SPECIFICATION Spec
INVARIANT LostOnlyWhatWasLost
CHECK_DEADLOCK FALSE
