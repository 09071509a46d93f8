\* Everything the environment may do at once, but for refused timers.
CONSTANTS
    Containers = {c1, c2}
    Conns = {k1, k2}
    NoConn = NoConn
    NoHolder = NoHolder
    NoRecord = NoRecord
    Faults = {"overlap", "earlyClose", "shutdownRace", "loss", "delay", "lapse", "race", "dbError"}
SPECIFICATION Spec
SYMMETRY Symmetry
INVARIANTS
    HubEntriesAreTimed
    HolderMatchesStatus
CHECK_DEADLOCK FALSE
