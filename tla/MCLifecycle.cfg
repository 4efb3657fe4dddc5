SPECIFICATION LiveSpec
CONSTANTS
    Units = {u1, u2}
    Callers = {c1, c2}
    NoParent = none
INVARIANTS
    NoLostWakeup
PROPERTIES
    GracefulStopSpec
    DrainReturns
CHECK_DEADLOCK FALSE
