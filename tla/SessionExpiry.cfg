\* The only fault is a lost message.
CONSTANTS
    Containers = {c1, c2}
    Conns = {k1, k2}
    NoConn = NoConn
    NoHolder = NoHolder
    NoRecord = NoRecord
    Faults = {"loss"}
SPECIFICATION Spec
INVARIANTS
    ExpiredMeansNoReconnect
CHECK_DEADLOCK FALSE
