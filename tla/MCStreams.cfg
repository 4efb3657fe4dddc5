SPECIFICATION Spec
CONSTANTS
    MaxSeq = 1
    MaxSeed = 1
    MaxClock = 2
    MaxMinted = 2
    Emits = {e1, e2}
    Given <- MCGiven
    MaxAttempts = 2
    MaxRecords = 2
    MaxMessages = 3
    MaxExpired = 1
    MaxLate = 1
SYMMETRY Symmetry
INVARIANTS
    NilMeansStored
    StoredOnce
    AckedWasReplayed
    ReplayedOnce
PROPERTIES
    IdsIncrease
CHECK_DEADLOCK FALSE
