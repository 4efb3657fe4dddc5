SPECIFICATION LiveSpec
CONSTANTS
    MaxSignals = 4
    Keys = {a, b}
    Windows <- MCWindows
    soMaxKeys = 1
    NoEntry = none
    MaxNow = 2
    MaxFlushes = 1
INVARIANTS
    EveryRecordAccounted
PROPERTIES
    SummaryArrives
    QuietWindow
CHECK_DEADLOCK FALSE
