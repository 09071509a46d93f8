\* Two containers, two sessions of a user and an anonymous one are sent to.
CONSTANTS
    Nodes = {n1, n2}
    NoNode = NoNode
    Origin = n1
    UserSessions = {a, b}
    Strangers = {}
    Anonymous = {x}
\* Drops enough to exhaust one subscription's attempts and to begin the other's.
    Channels = {own, broadcast}
    MaxRetries = 3
    MaxDrops = 4
\* A batch of one and one retry: what a deletion finds takes several calls.
    StoreUsers = {u1, u2}
    StoreInstances = {i1}
    StoreHolders = {h1}
    Stamps = {1, 2}
    Backends = {"postgres", "dynamodb"}
    HeartbeatCutoff = 2
    RecordTTL = 2
    PendingMsgTTL = 2
    BatchSize = 1
    Depth = 1
    MaxClock = 3
\* Two replicas of any two releases.
    Replicas = {r1, r2}
    NoReplica = NoReplica
    MaxVersion = 2
    TableCount = 2
    MaxRestarts = 1
    Settings <- MCSettings
\* Three calls for tokens from two addresses, two upgrades for one token.
    Bits <- MCBits
    Ips = {p1, p2}
    GateUsers = {s1}
    AnonymousIds = {a1}
    NoId = NoId
    Tokens = {t1}
    NoToken = NoToken
    Requests = {q1, q2, q3}
    Upgrades = {g1, g2}
    TokenTTL = 1
    InstanceMaxAge = 1
    LimiterTTL = 1
    RefillRate = 1
    Burst = 1
    PruneEvery = 2
    MaxTime = 2
    MaxConns = 2
    MaxWork = 2
SPECIFICATION BackplaneSpec
SYMMETRY Symmetry
INVARIANTS
    
    
    QuietReturnMeansGone
    StartsOnItsSchema
    DefaultsSettle
    TokenOpensOnce
    ForgettingGivesNothing
    
CHECK_DEADLOCK FALSE
