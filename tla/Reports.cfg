CONSTANTS
    Mod = 8
    Ends <- MCEnds
    StartSeqs <- MCStartSeqs
    N = 1
    CopyGap = 1
    MaxUses = 2
    MaxSyns = 2
    MaxPackets = 5
    Messages <- CastMessages
    Times = {0, 1, 2}
    MaxMessages = 4
    Flows <- TeeFlows
    Servers = {"server"}
    Recorded <- Ups
    FirstSeqs = {6}
    MaxBehind = 2
    MaxAhead = 1
    Sizes = {1, 2}
    Ops = {1}
    Ticks = {0}
    MaxBack = 0
    MaxSegments = 3
    MaxRead = 3
    Second = 2
    BurstGap = 1
    Asked <- TeeAsked
SPECIFICATION MCSpec
INVARIANTS
    BytesAreTheHosts
    FatesAreTold
    TraceIsWhole
    SessionIsWhole
    AnswersCountOnce
CHECK_DEADLOCK FALSE
