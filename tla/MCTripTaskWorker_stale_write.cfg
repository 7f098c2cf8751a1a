CONSTANTS
    Tasks = {t1}
    Workers = {w1, w2}
    Users = {u1}
    Keys = {k1}
    Requests = {r1}
    Marks <- MCMarks
    MarkOf <- MCMarkOf
    Backend = "mysql"
    None = None
    Goal = 1
    MaxSteps = 2
    MaxStalls = 1
    MaxCrashes = 0
    MaxDbErrors = 0
SPECIFICATION RuntimeSpec
CHECK_DEADLOCK FALSE
VIEW LogFree
PROPERTIES NoStaleOverwrite
