SPECIFICATION Spec
CONSTANTS
    Kinds <- MCKinds
    Subs = {s1, s2}
    Msgs = {m1, m2}
    Callers = {c1, c2}
    NoParent = none
SYMMETRY Symmetric
INVARIANTS
    NilMeansActed
    RepliesGoOut
    NoneEscapes
    DrainIsShared
CHECK_DEADLOCK FALSE
