SPECIFICATION FairSpec
CONSTANTS
    k1 = k1
    k2 = k2
    Callers = {k1, k2}
    None = None
    PerCallTimeout = None
    EnvTimeout <- NoTimeout
    EarlyClose = TRUE
    MaxDrops = 0
    MaxTimers = 1
    MaxAsks = 1
CHECK_DEADLOCK FALSE
PROPERTIES
    TicksEnd
