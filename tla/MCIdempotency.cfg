SPECIFICATION Spec
CONSTANTS
    Runs = {r1, r2, r3}
    ProcessingTTL = 1
    StoreTTL <- RedisTTL
    MaxNow = 3
SYMMETRY Symmetric
INVARIANTS
    AtMostOnce
    DuplicateIsHonest
CHECK_DEADLOCK FALSE
