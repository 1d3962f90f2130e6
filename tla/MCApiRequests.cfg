SPECIFICATION FairSpec
CONSTANTS
    p = p
    q = q
    r = r
    long = long
    Callers = {c1, c2}
    None = None
    PerCallTimeout = None
    EnvTimeout <- NoTimeout
    EarlyClose = FALSE
    Places = {p, q, r, long}
    LongPlaces = {long}
    Coordinates = {there}
    NotFound = NotFound
    Torn = Torn
    maxCacheEntries = 2
    Requests <- SomeRequests
    ThroughServer = FALSE
    MaxRequests = 3
    MaxRestarts = 1
CHECK_DEADLOCK FALSE
INVARIANTS
    CacheSaysWhatWasTold
    PlacesAreAsTold
PROPERTIES
    EvictsOnlyForANewPlace
    SavedCacheSurvives
    EveryRequestIsAnswered
