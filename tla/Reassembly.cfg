CONSTANTS
    Mod = 16
    N = 4
    MaxLen = 3
    StartSeqs <- MCStartSeqs
    Times <- MCTimes
    MaxHeld = 2
    MaxHeldBytes = 2
    MaxGapWait = 2
    MaxConns = 2
SPECIFICATION Spec
INVARIANTS
    QueueInPlace
    NoneWaitsTooLong
PROPERTIES
    HeldIsKept
    AckGivesUpWhatItCovers
    ImplementsByteStream
