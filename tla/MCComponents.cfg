CONSTANTS
    Drafts = {d1}
    Threads = 2
    MaxRequests = 5
    MaxDeaths = 1
    Backends = {"mysql", "sqlite"}
    Sessions = {s1, s2}
    AnswerTtl = 3
    UnavailableTtl = 1
    MinTtl = 2
    MaxTtl = 3
    MaxDelay = 1
    RowCount = 2
    MaxBatches = 2
    MaxStops = 1
    MaxServiceWrites = 1
    MaxCommands = 2
    Guides = {1, 2, 3}
    Own = 3
    Contents <- MCContents
    FirstPublished <- MCFirstPublished
    CandidateLimit = 1
    TopK = 2
    MaxChars = 3
    MaxEdits = 2
    MaxFailures = 1
    Spot <- MCSpot
    HotelAt = 0
    Roads <- MCRoads
    Restaurant <- MCRestaurant
    Storms = {2}
    DayStart = 18
    DayEnd = 40
    LunchFrom = 23
    LunchUntil = 27
    LunchTime = 2
    Noon = 24
    Midnight = 48
    RouteBuffer = 0
    RestBuffer = 1
    BreakfastAt = 15
    DinnerAt = 36
    MealTime = 2
    MinutesPerUnit <- MCMinutes
    CommuteLimit <- MCLimits
    SoftLimit = 2
    MaxAnchors = 4
    LongLeg = 4
    LongDay = 8
    LongDistance = 5
    LowAverage = 5
    NoRoutePenalty = 20
    FirstPlans <- MCFirstPlans
    FirstPools <- MCFirstPools
    TravelDays = 3
    AskedMode = "walking"
    Nearby <- MCNearby
    MaxCandidates = 4
    MaxSources = 20
    MinImprove = 10
    MinTotal = 2
    DefaultStay = 4
    MaxSearches = 1
    FirstRadius = 2
    MaxRadius = 3
    PoolMax = 4
    AskedTrips <- MCAskedTrips
    LlmPlans <- MCLlmPlans
    Catalogs <- MCCatalogs
    Alike <- MCAlike
    Estimates <- MCEstimates
    Evaluations <- MCEvaluations
    MinContent = 2
    MaxChanges = 1
    MaxRepairs = 2
    Partial <- MCPartial
SPECIFICATION Spec
SYMMETRY SessionSymmetry
CHECK_DEADLOCK FALSE
INVARIANTS DraftInv CacheInv MigrationInv RetrievalInv PlanInv ValidationInv
PROPERTIES NothingConfirmedIsLost ServiceRowsAreKept OptimizersLoseNothing
