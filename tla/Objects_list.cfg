SPECIFICATION Spec
CONSTANTS
    t1 = t1
    t2 = t2
    t3 = t3
    Threads = {t1, t2, t3}
    Items = {a, b, c}
    Prio <- MCPrio
    NULL = NULL
    EventBits = {e1, e2}
    AsyncMsgs = {x1}
    PollObjects = {p1, p2}
    Pollers = {t1, t3}
    MaxMsgs = 2
    MaxEntries = 2
    PipeSize = 2
    MaxXfer = 2
    HeapUnits = 4
    MaxRequest = 3
    Kinds = {"queue"}
INVARIANT NoWaiterLost
SYMMETRY Symmetry
CHECK_DEADLOCK FALSE
