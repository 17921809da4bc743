CONSTANTS
    h1 = h1
    h2 = h2
    h3 = h3
    h4 = h4
    Asked = {"this", "held", "turn", "burst", "both"}
    NoKey = NoKey
    Keys <- MCKeys
    Times <- MCTimes1
    FrameKinds <- MCHuntKinds
    LockIdle = 0
    CloseGrace = 1
    MaxStreams = 3
    MaxEarly = 2
    KnownFrames = 2
    CombatFrames = 1
    Configs <- MCConfigs
    Ordered = FALSE
    Ends = FALSE
    Controls <- MCOnlyPayload
    MaxBorn = 3
    MaxLocks = 1
    MaxBurst = 1
    MaxFrames = 3
    MaxResyncs = 0
    MaxPieces = 0
SYMMETRY MCSymmetry
SPECIFICATION MCSpec
INVARIANTS
    TypeOK
    HeldToTheEnd
PROPERTIES
    FramesAreKept
    
CHECK_DEADLOCK FALSE
