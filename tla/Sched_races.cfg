SPECIFICATION Spec
CONSTANTS
    t1 = t1
    t2 = t2
    t3 = t3
    Threads = {t1, t2, t3}
    CPUs = {c1, c2}
    StartPrio <- MCPrio
    NewPrios <- MCNewPrios
    Unstarted = {t3}
    Lockers = {t2}
    Apps <- RacyApps
    NULL = NULL
INVARIANT RunQueueSane
CHECK_DEADLOCK FALSE
SYMMETRY Symmetry
