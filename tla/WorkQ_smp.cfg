SPECIFICATION Spec
CONSTANTS
    Works = {d1}
    Delayables = {d1}
    Queues = {q1, q2}
    Threads = {t1, t2}
    CPUs = 2
    NULL = NULL
INVARIANTS NoLostWakeup WaitersCovered DelayedIsArmed
CHECK_DEADLOCK FALSE
