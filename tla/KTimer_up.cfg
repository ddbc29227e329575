SPECIFICATION TimerSpec
CONSTANTS
    Timeouts = {t1, t2}
    Timers = {t1}
    CPUs = {c1}
    Durations = {0, 2}
    Starters = {s1, s2}
    Periods = {0, 1, 3}
    Absolutes = {3}
    MaxHw = 7
    CONFIG_SMP = FALSE
    NULL = NULL
INVARIANTS TypeOK OnTime NoWaiterStranded
PROPERTIES SyncTellsTruth
CHECK_DEADLOCK FALSE
SYMMETRY Symmetry
