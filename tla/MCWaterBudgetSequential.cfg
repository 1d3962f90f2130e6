\* One request at a time, a window that moves within the day, two days, crashes.
SPECIFICATION Spec
CONSTANTS
    om = om
    st = st
    NaN = NaN
    NoState = NoState
    None = None
    Cent = 5
    BaseKc = 9
    MaxScale = 150
    RunoffFactor = 8
    RainBankCapDays = 2
    GapResetDays = 1
    HISTORY_CAP = 2
    Locations = {home}
    Requests = {r1}
    Providers = {st}
    LeastLag <- LagsFrom
    MostLag <- LagsTo
    MillisProviders = {}
    TicksPerDay = 2
    MaxDay = 1
    MaxSteps = 4
    Etos <- AnyEtos
    Precips <- Rains
    Baselines = {2}
    DefaultRefEto = 1
    SeasonKcs = {9}
    OverrideKcs = {12}
    Ceilings = {100}
INVARIANTS
    TypeOK
    BankedRainComesFirst
    HistoryExplainsBank
    RainIsNotInvented
    AdvancesKeepPace
    NoDateChargedTwice
PROPERTIES
    AnswersAgreeWithStore
    DayIsLocked
