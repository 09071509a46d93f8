\* Two connections race for one slot; two peers may go silent in the middle of
\* a frame, with three workers; one user with two sessions and one token.
CONSTANTS
    Conns = {k1, k2}
    MaxConns = 1
    Sockets = {s1, s2}
    PoolWorkers = 3
    IdleAfter = 1
    PongTimeout = 2
    Sessions = {me, other}
    Me = me
    Handlers = {h1}
    Burst = 1
    TTL = 2
SPECIFICATION WebSocketSpec
INVARIANTS
    SlotsExact
    ReadIsSafe
    OnCloseOnce
PROPERTIES
    
    SilentPeerIsClosed
    RepeatsGetThrough
CHECK_DEADLOCK FALSE
