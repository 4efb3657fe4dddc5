SPECIFICATION Spec
CONSTANTS
    e1 = e1
    e2 = e2
    e3 = e3
    c1 = c1
    Emits <- MCEmits
    Handlers = 1
    MaxConcurrent = 1
    QueueSize = 1
    Policies <- MCPolicies
    Callers = {c1}
    NoParent = none
SYMMETRY Symmetry
INVARIANTS
    FateOnce
    TokensExact
    DrainedMeansSettled
    GracefulLosesNothing
CHECK_DEADLOCK FALSE
