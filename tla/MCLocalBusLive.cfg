SPECIFICATION LiveSpec
CONSTANTS
    e1 = e1
    e2 = e2
    e3 = e3
    c1 = c1
    Emits <- MCTwo
    Handlers = 2
    MaxConcurrent = 1
    QueueSize = 1
    Policies <- MCBlock
    Callers = {c1}
    NoParent = none
PROPERTIES
    EmitsReturn
    InterruptFrees
CHECK_DEADLOCK FALSE
