SPECIFICATION FairSpec
CONSTANTS
    Works = {w1, d1}
    Delayables = {d1}
    Queues = {q1, q2}
    Threads = {t1}
    CPUs = 1
    NULL = NULL
INVARIANTS TypeOK QueuedOnce NotReentered WaitsForInstances PluggedIsQuiet DelayedIffArmed
PROPERTIES CancelLeavesIdle SyncCallsReturn DrainReturns
