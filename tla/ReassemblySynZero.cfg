CONSTANTS
    Mod = 16
    N = 5
    MaxLen = 3
    StartSeqs <- MCStartSeqsZero
    Times <- MCTimes
    MaxHeld = 2
    MaxHeldBytes = 3
    MaxGapWait = 2
    MaxConns = 2
SPECIFICATION Spec
INVARIANT SynStartsAfresh
