SPECIFICATION FairSpec
CONSTANTS
    Timeouts = {t1, t2}
    CPUs = {c1, c2}
    Durations = {0, 2}
    Absolutes = {3}
    MaxHw = 7
    CONFIG_SMP = TRUE
    NULL = NULL
INVARIANTS TickConservation NeverLate AlarmArmed
PROPERTIES ImplementsTimeoutSpec EveryTimeoutEnds
