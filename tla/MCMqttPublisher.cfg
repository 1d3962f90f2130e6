SPECIFICATION FairSpec
CONSTANTS
    k1 = k1
    k2 = k2
    Callers = {k1, k2}
    None = None
    PerCallTimeout = None
    EnvTimeout <- NoTimeout
    EarlyClose = FALSE
    MaxDrops = 1
    MaxTimers = 1
    MaxAsks = 2
CHECK_DEADLOCK FALSE
INVARIANTS
    AvailabilityFollowsTheConnection
    StatusMatchesSections
PROPERTIES
    RetainedNeverGoesBack
    EveryConnectionIsReported
