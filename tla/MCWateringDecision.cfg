\* Two overlapping calls for a station with a chain and for a key without a
\* station, which differ in nothing else the skip memo looks at.
SPECIFICATION Spec
CONSTANTS
    r1 = r1
    r2 = r2
    Requests = {r1, r2}
    Home = Home
    Away = Away
    Locations = {Home, Away}
    Station = Station
    PwsIds = {Station}
    KeyOnly = KeyOnly
    Primary1 = Primary1
    Backup = Backup
    Other = Other
    Providers = {Primary1, Backup, Other}
    DefaultProvider = Primary1
    PwsProvider = PwsProvider
    Cacheable <- Caching
    PwsFallbackEnabled = TRUE
    Scales = {80}
    SkipSigns <- Storm
    Queries <- Neighbours
    SecondsPerDay = 2
    LastSecond = 2
    SkipTtl = 2
    None = None
SYMMETRY RequestSymmetry
INVARIANTS
    TypeOK
    OnlyPrimaryIsCached
    CachedScaleIsOfToday
    SkipIsNotPinned
    SkipWeatherIsFresh
    SkipWeatherIsOfOwnPlace
    BypassIsVisible
