SPECIFICATION LiveSpec
CONSTANTS
    Kinds <- MCKinds
    Subs = {s1}
    Msgs = {m1}
    Callers = {c1, c2}
    NoParent = none
PROPERTIES
    ForceFreesAll
    DrainReturns
CHECK_DEADLOCK FALSE
