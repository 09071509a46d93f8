\* Buffer 4 is the smallest whose derived thresholds (3 and 1) can both be
\* crossed; five tasks overfill the queue.
\* A pool that was closed comes to rest.
CONSTANTS
    Tasks = {t1, t2, t3, t4, t5}
    Workers = {w1, w2}
    Buffer = 4
    Idle = Idle
    Exited = Exited
SPECIFICATION FairSpec
INVARIANTS
    NoSendOnClosedQueue
    DrainedWhenCloseReturns
    HealthFollowsQueue
PROPERTIES
    AcceptedTaskRuns
    BecomesHealthy
CHECK_DEADLOCK FALSE
