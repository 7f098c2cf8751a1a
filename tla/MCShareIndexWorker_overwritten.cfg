CONSTANTS
    MaxVersion = 2
    MaxAttempts = 2
    AllowActive = TRUE
    Owners = {w1, w2, r1}
    Workers = {w1, w2}
    Requests = {r1}
    Likers = {}
    Nobody = Nobody
    MaxFaults = 0
    MaxCrashes = 0
    MaxStalls = 0
SPECIFICATION WorkerSpec
CHECK_DEADLOCK FALSE
INVARIANT ReadyIsIndexed
