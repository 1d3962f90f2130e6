SPECIFICATION Spec
CONSTANTS
    Warmth <- Cosine
    None = None
    Calls = {c1, c2}
    Keys = {home}
    Chains <- SomeChains
    Settings <- SomeSettings
    Days <- SomeDays
    Forecasts <- SomeForecasts
    ENABLE_FORECAST = TRUE
    FreshTtl = 1
    StaleTtl = 2
    MaxTime = 4
SYMMETRY Alike
INVARIANTS
    RainNeverWatersMore
PROPERTIES
    ForecastIsUsable
    FetchesOnlyWhenStale
