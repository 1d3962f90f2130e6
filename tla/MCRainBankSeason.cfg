SPECIFICATION SeasonSpec
CHECK_DEADLOCK FALSE
CONSTANTS
    NaN = NaN
    NoState = NoState
    Cent = 5
    BaseKc = 9
    MaxScale = 120
    RunoffFactor = 8
    RainBankCapDays = 2
    GapResetDays = 2
    HISTORY_CAP = 1
    SeasonEtos <- MCEtos
    SeasonRains <- MCRains
    SeasonReferences = {0, 1, 2}
    SeasonCoefficients = {9, 12}
    SeasonGaps = {1, 3}
    LastDate = 4
INVARIANTS
    SeasonTypeOK
    MoreRainNeverWatersMore
    WaterBalance
