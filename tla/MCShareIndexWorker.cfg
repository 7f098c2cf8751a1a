CONSTANTS
    MaxVersion = 2
    MaxAttempts = 2
    AllowActive = TRUE
    Owners = {w1, r1}
    Workers = {w1}
    Requests = {r1}
    Likers = {u1}
    Nobody = Nobody
    MaxFaults = 1
    MaxCrashes = 1
    MaxStalls = 1
SPECIFICATION MaintSpec
CHECK_DEADLOCK FALSE
INVARIANTS IndexInv WorkHasJob IndexedWithoutTool CleanReportIsTrue
PROPERTIES AuthorDecides JobsClose
