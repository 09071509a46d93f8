\* Acks meet only in Shutdown, so one ack id with every routing of it over
\* three containers is the interesting instance.  Two hooks with a breaker that
\* opens at two failures; three events for a queue of two.
CONSTANTS
    Containers = {c1, c2, c3}
    AckIDs = {a1}
    NoContainer = NoContainer
    Calls = {h1, h2}
    Threshold = 2
    Cooldown = 1
    MaxOpen = 2
    FailThreshold = 2
    RetryMaxes = {0, 2}
    Events = {e1, e2, e3}
    NoEvent = NoEvent
    AsyncQueueSize = 2
    AsyncRetryMax = 2
SPECIFICATION CallsSpec
INVARIANTS
    ChannelClosedOnce
    NoPendingLeak
    
    RoutedAckReachesCaller
    CleanExitAttemptsAll
PROPERTIES
    EveryCallReturns
    HooksFailClosed
    RecoveryIsNoticed
    ImplementsTransport
CHECK_DEADLOCK FALSE
