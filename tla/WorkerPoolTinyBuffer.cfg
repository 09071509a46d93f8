\* Buffer 2 derives the thresholds 1 and 0.
CONSTANTS
    Tasks = {t1, t2}
    Workers = {w1}
    Buffer = 2
    Idle = Idle
    Exited = Exited
SPECIFICATION FairSpec
PROPERTIES
    BecomesHealthy
CHECK_DEADLOCK FALSE
