SPECIFICATION CvSpec
CONSTANTS
    t1 = t1
    t2 = t2
    t3 = t3
    t4 = t4
    Threads = {t1, t2, t3, t4}
    Mutexes = {m1}
    BasePrio <- MCPrio
    CONFIG_PRIORITY_CEILING <- NoCeiling
    Nested = FALSE
    MaxDepth = 2
    NULL = NULL
    CvMutex = m1
    MaxItems = 2
INVARIANT TimedOutLockReturns
CHECK_DEADLOCK FALSE

