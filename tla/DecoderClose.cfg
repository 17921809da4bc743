CONSTANTS
    h1 = h1
    h2 = h2
    h3 = h3
    h4 = h4
    Asked = {"this", "table", "pair", "next"}
    NoKey = NoKey
    Keys <- MCKeys
    Times <- MCTimes2
    FrameKinds <- MCKnown
    LockIdle = 0
    CloseGrace = 1
    MaxStreams = 3
    MaxEarly = 1
    KnownFrames = 1
    CombatFrames = 1
    Configs <- MCConfig
    Ordered = FALSE
    Ends = FALSE
    Controls <- MCAllControls
    MaxBorn = 3
    MaxLocks = 1
    MaxBurst = 1
    MaxFrames = 1
    MaxResyncs = 0
    MaxPieces = 0
SYMMETRY MCSymmetry
SPECIFICATION MCSpec
INVARIANTS
    LockedOnPair
    NoDanglingPointer
    DirectionsAreThePairs
    TableIsKept
PROPERTIES
    OnlyACauseEndsIt
    ImplementsFlowLock
