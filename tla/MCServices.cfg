CONSTANTS
    Callers = {c1, c2}
    FailureThreshold = 2
    MaxAttemptsPerTool = 2
    MaxAbandoned = 1
    MaxProgress = 1
    EventLimit = 2
    MaxLost = 1
    Requesters = {r1, r2}
    Checker = h
    Limit <- MCLimit
    MaxOutages = 1
SPECIFICATION Spec
CHECK_DEADLOCK FALSE
INVARIANTS BreakerInv NotifyInv GuardInv
PROPERTIES BreakerCloses EventsArrive SnapshotSettles RedisComesBack
