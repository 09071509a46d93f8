\* No fault of the deployment: a connection closes while it drains.
CONSTANTS
    Msgs = {m1, m2, m3}
    Conns = {k1, k2}
    NoConn = NoConn
    MaxTime = 3
    MaxRetry = 2
    Faults = {}
SPECIFICATION Spec
SYMMETRY Symmetry
INVARIANTS
    ConsumeLosesNothing
CHECK_DEADLOCK FALSE
