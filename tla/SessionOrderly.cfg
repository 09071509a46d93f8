\* One connection after the other, each after the signals of the last were
\* handled; the third reconnects after a reconnect.  Two long polls that may
\* overlap, on at most two connections at a time.
CONSTANTS
    Containers = {c1, c2}
    Conns = {k1, k2, k3}
    NoConn = NoConn
    NoHolder = NoHolder
    NoRecord = NoRecord
    Faults = {"refuse"}
    LPConns = {l1, l2}
    NoLPConn = NoLPConn
    Polls = {p1, p2}
    LPMessages = 2
    Batch = 2
SPECIFICATION EdgeSpec
INVARIANTS
    LiveSessionIsRoutable
    NoTimerOverLiveSession
    PollKeepsItsConnection
    
PROPERTIES
    
    AbandonedSessionIsForgotten
    AbandonedConnectionCloses
CHECK_DEADLOCK FALSE
