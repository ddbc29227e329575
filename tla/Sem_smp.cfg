SPECIFICATION Spec
CONSTANTS
    t1 = t1
    t2 = t2
    t3 = t3
    Threads = {t1, t2, t3}
    Prio <- MCPrio
    Limit = 1
    InitialCount = 1
    CONFIG_SMP = TRUE
    CPUs = 2
    NULL = NULL
INVARIANTS NoWaitWithToken NobodyForgotten
CHECK_DEADLOCK FALSE
SYMMETRY Symmetry
