SPECIFICATION RSpec
CONSTANTS
    Invocations = {i1, i2}
    Calls <- MCCalls
    MaxAttempts = 3
    HistorySize = 2
    BaseDelay = 2
    MaxDelay = 3
    Width = 4
    HandlerResults <- MCResults
    FailureThreshold = 2
    SuccessThreshold = 2
    OpenTimeout = 1
    MaxNow = 5
    NoTransition = none
SYMMETRY Symmetric
INVARIANTS
    SlotHeldByOneProbe
    ProbeSpacing
    GaugeConverges
    FailureTruthful
    RetriesSpaced
CHECK_DEADLOCK FALSE
