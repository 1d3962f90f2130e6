\* Two overlapping requests with windows of two dates, crashes and failed writes.
SPECIFICATION Spec
CONSTANTS
    om = om
    st = st
    NaN = NaN
    NoState = NoState
    None = None
    Cent = 5
    BaseKc = 9
    MaxScale = 120
    RunoffFactor = 8
    RainBankCapDays = 1
    GapResetDays = 1
    HISTORY_CAP = 2
    Locations = {home}
    Requests = {r1, r2}
    Providers = {om, st}
    LeastLag <- LagsFrom
    MostLag <- LagsFrom
    MillisProviders = {}
    TicksPerDay = 1
    MaxDay = 0
    MaxSteps = 2
    Etos <- OneEto
    Precips <- Rains
    Baselines = {2}
    DefaultRefEto = 2
    SeasonKcs = {9}
    OverrideKcs = {12}
    Ceilings = {}
SYMMETRY Symmetry
INVARIANTS
    HistoryExplainsBank
PROPERTIES
    AnswersAgreeWithStore
