\* Connections may overlap; rows are inserted before the next read and carry
\* distinct times.  The messages are finitely many: the model comes to rest.
CONSTANTS
    Msgs = {m1, m2, m3}
    Conns = {k1, k2}
    NoConn = NoConn
    MaxTime = 3
    MaxRetry = 2
    Faults = {"overlap"}
SPECIFICATION Spec
SYMMETRY Symmetry
INVARIANTS
    NothingVanishes
    PendingFirstInOrder
    DuplicateOnlyIfReread
CHECK_DEADLOCK FALSE
