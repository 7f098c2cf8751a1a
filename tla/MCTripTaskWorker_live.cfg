CONSTANTS
    Tasks = {t1}
    Workers = {w1, w2}
    Users = {u1}
    Keys = {k1}
    Requests = {r1}
    Marks <- MCMarks
    MarkOf <- MCMarkOf
    Backend = "mysql"
    None = None
    Goal = 1
    MaxSteps = 2
    MaxStalls = 0
    MaxCrashes = 1
    MaxDbErrors = 1
SPECIFICATION FairSpec
CHECK_DEADLOCK FALSE
VIEW LogFree
INVARIANTS SingleExecutor OutcomeMatchesSession DeletedStaysDeleted
PROPERTIES CheckpointsAdvance EventuallySettled CancellationSettlesFaultless
