SPECIFICATION Spec
CONSTANTS
    Day = 2
    MinSpan = 1
    Hour = 1
    Readings <- ThreeReadings
    NowDates = FALSE
    TokenExpected = FALSE
    LOCAL_PERSISTENCE = TRUE
    MaxTime = 4
    MaxRain = 2
    MaxCaptures = 3
    MaxRestarts = 1
    Torn = Torn
    None = None
CHECK_DEADLOCK FALSE
INVARIANTS
    RainIsCountedOnce
    ReportedRainFell
    WindowIsTrueSpan
