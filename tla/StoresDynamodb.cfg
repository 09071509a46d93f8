\* A session that lives through one listing.
CONSTANTS
    StoreUsers = {u1, u2}
    StoreInstances = {i1}
    StoreHolders = {h1}
    Stamps = {1, 2, 3}
    Backends = {"dynamodb"}
    HeartbeatCutoff = 2
    RecordTTL = 2
    PendingMsgTTL = 2
    BatchSize = 1
    Depth = 1
    MaxClock = 3
SPECIFICATION StoreSpec
INVARIANTS
    ListsEverySteadySession
CHECK_DEADLOCK FALSE
