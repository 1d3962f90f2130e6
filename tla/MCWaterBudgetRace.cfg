\* Two first polls of a day overlap.
SPECIFICATION Spec
CONSTANTS
    om = om
    st = st
    NaN = NaN
    NoState = NoState
    None = None
    Cent = 5
    BaseKc = 9
    MaxScale = 150
    RunoffFactor = 8
    RainBankCapDays = 2
    GapResetDays = 1
    HISTORY_CAP = 2
    Locations = {home}
    Requests = {r1, r2}
    Providers = {om}
    LeastLag <- LagsFrom
    MostLag <- LagsTo
    MillisProviders = {}
    TicksPerDay = 1
    MaxDay = 1
    MaxSteps = 3
    Etos <- OneEto
    Precips <- Rains
    Baselines = {2}
    DefaultRefEto = 1
    SeasonKcs = {9}
    OverrideKcs = {12}
    Ceilings = {}
PROPERTY DayIsLocked
