CONSTANTS
    QueueCap = 1
    Recording = TRUE
    FlushMayFail = FALSE
    MaxPackets = 2
    MaxLost = 1
SPECIFICATION FairSpec
PROPERTIES
    EveryCloseReturns
    WaitersAreLetGo
CHECK_DEADLOCK FALSE
