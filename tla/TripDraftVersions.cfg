CONSTANTS
    Drafts = {d1, d2}
    Threads = 2
    MaxRequests = 5
    MaxDeaths = 0
    Backends = {"mysql"}
SPECIFICATION DraftSpec
CHECK_DEADLOCK FALSE
PROPERTY
    ConfirmedIsKept
