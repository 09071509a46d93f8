\* A row may be inserted after a read that its time precedes.
CONSTANTS
    Msgs = {m1, m2, m3}
    Conns = {k1, k2}
    NoConn = NoConn
    MaxTime = 3
    MaxRetry = 2
    Faults = {"lateCommit"}
SPECIFICATION Spec
SYMMETRY Symmetry
INVARIANTS
    NothingVanishes
CHECK_DEADLOCK FALSE
