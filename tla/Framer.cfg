CONSTANTS
    Base = 8
    VarintLen = 2
    TopLimit = 7
    HeadLen = 2
    MaxFrame = 14
    StallLimit = 12
    MinBundle = 5
    MinEnvelope = 3
    MaxEnvelope = 9
    FlagBytes <- MCFlagBytes
    Families <- MCFamilies
    Known <- MCKnown
    KnownOnly = FALSE
    MaxBuf = 14
    Probation = 2
    MaxDepth = 2
    MaxPlain = 8
    MaxGrowth = 8
    Lz4 <- MCLz4
    MaxFed = 40
    Streams <- MCStreams
    MaxCut = 4
    MaxGap = 3
    MaxGaps = 2
SPECIFICATION MCSpec
INVARIANTS
    FramesAreTheStreams
    PlaceIsKept
    RefusalsStand
CHECK_DEADLOCK FALSE
