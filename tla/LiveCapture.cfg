CONSTANTS
    QueueCap = 1
    Recording = TRUE
    FlushMayFail = TRUE
    MaxPackets = 2
    MaxLost = 1
    p1 = p1
    p2 = p2
    p3 = p3
    Procs <- MCProcs
    Pids = {1, 2}
    Foreign <- MCForeign
    FirstSize = 1
    MayFail = TRUE
SYMMETRY MCSymmetry
SPECIFICATION MCSpec
INVARIANTS
    TypeOK
    EveryPacketAccounted
    LeavesNothingRunning
    LostIsAll
    StaleAreStopped
PROPERTIES
    CauseIsTrue
    OthersRunOn
CHECK_DEADLOCK FALSE
