SPECIFICATION RLSpec
CONSTANTS
    Calls = {k1, k2, k3, k4}
    Configs <- MCConfigs
    Period = 2
    Absent = absent
    MaxClock = 5
    MaxSends = 2
SYMMETRY Symmetric
INVARIANTS
    RunsWithinRate
PROPERTIES
    TokenBucketSpec
CHECK_DEADLOCK FALSE
