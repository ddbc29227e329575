SPECIFICATION FairSpec
CONSTANTS
    t1 = t1
    t2 = t2
    t3 = t3
    Threads = {t1, t2, t3}
    Prio <- MCPrio
    Limit = 2
    InitialCount = 1
    CONFIG_SMP = FALSE
    CPUs = 1
    NULL = NULL
INVARIANT TypeOK
PROPERTIES ResultMatchesWakeup FirstComeFirstServed TimedTakeReturns
CHECK_DEADLOCK FALSE
