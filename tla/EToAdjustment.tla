----------------------------- MODULE EToAdjustment -----------------------------
(***************************************************************************)
(* The ETo adjustment method (adjustmentMethods/EToAdjustmentMethod.ts)     *)
(* with the forecasts it asks for: the local station's, kept in the         *)
(* process-wide cache of weatherProviders/ForecastCache.ts and served stale *)
(* when a refresh fails, and OpenMeteo's own, which are not kept.           *)
(*                                                                          *)
(* A call waits for the weather of the last day and then perhaps for a      *)
(* forecast, so calls overlap at both.  The evapotranspiration of a day is  *)
(* a number of hundredths of an inch, and so is rain that fell; forecast    *)
(* rain is in tenths.  How a day's number comes from its weather is left    *)
(* out.                                                                     *)
(***************************************************************************)
EXTENDS CropCoefficient, FiniteSets

CONSTANTS
    Calls,           \* bound: calls in flight at once
    Keys,            \* places with a number of days
    Chains,          \* provider chains, of "local", "OpenMeteo" and "other"
    Settings,        \* adjustment options with their defaults (below)
    Days,            \* the weather a provider can report of the last day
    Forecasts,       \* the forecasts OpenMeteo can send
    ENABLE_FORECAST,
    FreshTtl,        \* freshTtlMs and staleTtlMs, in ticks of the clock
    StaleTtl,
    MaxTime          \* bound: the last tick

\* eto is the day's evapotranspiration; a forecast is of kind "high" or "medium"
\* confidence, "gaps" when its first day lacks a value, or "empty".
DayType == [eto : Nat, precip : Nat, temp : Int, day : 1 .. 366]
ForecastType ==
    [kind : {"high", "medium", "gaps", "empty"}, eto : Nat, rain : Nat]

\* baseETo is None when it is missing or not a number.
SettingType ==
    [baseETo : Int \cup {None}, crop : BOOLEAN, custom : Int \cup {None},
     plant : STRING, grass : STRING, variety : STRING, zone : Nat, level : STRING,
     system : STRING]

ASSUME EToAssumption ==
    /\ Chains \subseteq Seq({"local", "OpenMeteo", "other"})
    /\ Settings \subseteq SettingType
    /\ Days \subseteq DayType
    /\ \A d \in Days : Warmth(d.day) \in 0 .. 100
    /\ Forecasts \subseteq ForecastType
    /\ ENABLE_FORECAST \in BOOLEAN
    /\ FreshTtl \in Nat
    /\ StaleTtl \in Nat
    /\ FreshTtl <= StaleTtl
    /\ MaxTime \in Nat
    /\ None \notin Int \cup ForecastType \cup [data : Forecasts, fetchedAt : Nat]

VARIABLES
    now,
    cache,     \* [Keys -> the cached forecast with its time, or None]
    call,      \* [Calls -> what the call is doing or has answered]
    fetched    \* history: [Keys -> when a fetch last succeeded, or None]

etoVars == <<now, cache, call, fetched>>
----------------------------------------------------------------------------
(* The scales.  An adjustment for rain is in thousandths, a weight in       *)
(* hundredths.                                                              *)

getIrrigationEfficiency(system) ==
    CASE system = "drip" -> 90 [] system = "micro" -> 85 [] system = "manual" -> 60
      [] OTHER -> 75

\* FORECAST_PRECIP_THRESHOLD, half an inch, in tenths.
precipThreshold == 5

\* Mutant: the ratio of the rain to the threshold is upside down.
RainUpsideDown(rain, cut, most, floor) ==
    IF rain <= precipThreshold THEN 1000
    ELSE Clamp(floor, 1000, 1000 - (cut * Clamp(0, most, (10 * precipThreshold) \div rain)) \div 10)

\* Rain above the threshold cuts the scale by `cut` for each threshold of rain,
\* as far as `most` tenths of a threshold and never below `floor`.
rainAdjustment(rain, cut, most, floor) ==
    IF rain <= precipThreshold THEN 1000
    ELSE Clamp(floor, 1000, 1000 - (cut * Clamp(0, most * precipThreshold, 10 * rain))
                                      \div (10 * precipThreshold))

\* What is needed, cut by the forecast's rain, against the baseline.  `need` is
\* in hundredths of hundredths of hundredths of an inch.
ScaleOf(need, precip, settings, adjustment) ==
    Clamp(0, 200,
          (Clamp(0, need, need - precip * 10000) * adjustment)
             \div (getIrrigationEfficiency(settings.system) * settings.baseETo * 1000))

CropOf(settings, d) == IF settings.crop THEN resolveCropCoefficient(settings, d) ELSE 100

\* The last day and the forecast's days by their weights.
Combined(d, f, kc, weight) == (d.eto * (100 - weight) + f.eto * weight) * kc

calculateHistoricalOnlyScaleWithCrop(settings, d) ==
    ScaleOf(Combined(d, d, CropOf(settings, d), 0), d.precip, settings, 1000)

calculateFullForecastScaleWithCrop(settings, d, f) ==
    ScaleOf(Combined(d, f, CropOf(settings, d), 30), d.precip, settings,
            rainAdjustment(f.rain, 300, 30, 100))

calculateHybridForecastScaleWithCrop(settings, d, f) ==
    ScaleOf(Combined(d, f, CropOf(settings, d), 21), d.precip, settings,
            rainAdjustment(f.rain, 200, 20, 200))

calculatePrecipForecastScaleWithCrop(settings, d, f) ==
    ScaleOf(Combined(d, d, CropOf(settings, d), 0), d.precip, settings,
            rainAdjustment(f.rain, 250, 25, 150))

getBestForecastMethod(f) ==
    CASE f.kind = "high" -> "full"
      [] f.kind = "medium" -> "hybrid"
      [] f.kind = "gaps" -> "precip"
      [] f.kind = "empty" -> "none"

\* The scale with the forecast f; None is no forecast at all.
EToScale(settings, d, f) ==
    IF f = None THEN calculateHistoricalOnlyScaleWithCrop(settings, d)
    ELSE CASE getBestForecastMethod(f) = "full" -> calculateFullForecastScaleWithCrop(settings, d, f)
           [] getBestForecastMethod(f) = "hybrid" -> calculateHybridForecastScaleWithCrop(settings, d, f)
           [] getBestForecastMethod(f) = "precip" -> calculatePrecipForecastScaleWithCrop(settings, d, f)
           [] OTHER -> calculateHistoricalOnlyScaleWithCrop(settings, d)
----------------------------------------------------------------------------
(* The cache *)

Age(key) == now - cache[key].fetchedAt

\* Mutant: an entry is kept for good.
LooksUpForGood(key) == cache[key] # None

\* ForecastCache.get: an entry beyond the stale window is not there any more.
LooksUp(key) == cache[key] # None /\ Age(key) <= StaleTtl

\* ... and is deleted.
Swept(key) == IF LooksUp(key) THEN cache ELSE [cache EXCEPT ![key] = None]

\* Mutant: an entry is refreshed at the end of its fresh window, not after it.
IsFreshBefore(key) == LooksUp(key) /\ Age(key) < FreshTtl

\* ForecastCache.getFresh finds something.
IsFresh(key) == LooksUp(key) /\ Age(key) <= FreshTtl

\* The first provider of a chain that forecasts, or None.
forecastChild(chain) ==
    LET able == {i \in DOMAIN chain : chain[i] = "OpenMeteo" \/ (chain[i] = "local" /\ ENABLE_FORECAST)}
    IN  IF able = {} THEN None ELSE chain[CHOOSE i \in able : \A j \in able : i <= j]
----------------------------------------------------------------------------
(* The calls *)

Idle == [step |-> "idle"]
Refused == [step |-> "refused"]

\* What an answer used: the weather, the forecast with its age at that time, and
\* how the call's own fetch went: "none", "done" or "failed".
Answer(asked, d, f, age, fetch) ==
    [step |-> "answered", asked |-> asked, weather |-> d, forecast |-> f, age |-> age,
     fetch |-> fetch, scale |-> EToScale(asked.settings, d, f)]

Asked(key, child, settings) == [key |-> key, child |-> child, settings |-> settings]

TypeOK ==
    /\ now \in 0 .. MaxTime
    /\ cache \in [Keys -> [data : Forecasts, fetchedAt : 0 .. MaxTime] \cup {None}]
    /\ fetched \in [Keys -> (0 .. MaxTime) \cup {None}]
    /\ DOMAIN call = Calls

Init ==
    /\ now = 0
    /\ cache = [key \in Keys |-> None]
    /\ call = [c \in Calls |-> Idle]
    /\ fetched = [key \in Keys |-> None]

\* A base that is missing, no number or not positive is refused before anything
\* is asked.
Begins(c) ==
    /\ call[c].step \in {"idle", "answered", "refused"}
    /\ \E key \in Keys, chain \in Chains, settings \in Settings :
          call' = [call EXCEPT ![c] =
                     IF settings.baseETo = None \/ settings.baseETo <= 0 THEN Refused
                     ELSE [step |-> "weather", asked |-> Asked(key, forecastChild(chain), settings)]]
    /\ UNCHANGED <<now, cache, fetched>>

\* The weather of the last day is there.  Without a forecast the call answers; a
\* fresh one is served from the cache; else the call goes out for it.
WeatherReturns(c) ==
    /\ call[c].step = "weather"
    /\ \E d \in Days :
          LET asked == call[c].asked
              fetching == [step |-> "forecast", asked |-> asked, weather |-> d]
          IN  \/ /\ asked.child = None \/ ~ENABLE_FORECAST
                 /\ call' = [call EXCEPT ![c] = Answer(asked, d, None, 0, "none")]
                 /\ UNCHANGED cache
              \/ /\ asked.child = "local" /\ ENABLE_FORECAST
                 /\ call' = [call EXCEPT ![c] =
                               IF IsFresh(asked.key)
                               THEN Answer(asked, d, cache[asked.key].data, Age(asked.key), "none")
                               ELSE fetching]
                 /\ cache' = Swept(asked.key)
              \/ /\ asked.child = "OpenMeteo" /\ ENABLE_FORECAST
                 /\ call' = [call EXCEPT ![c] = fetching]
                 /\ UNCHANGED cache
    /\ UNCHANGED <<now, fetched>>

\* getEToData fails, and the call with it.
WeatherFails(c) ==
    /\ call[c].step = "weather"
    /\ call' = [call EXCEPT ![c] = Refused]
    /\ UNCHANGED <<now, cache, fetched>>

\* A forecast arrives; the local station's is kept as fetched now.
ForecastReturns(c) ==
    /\ call[c].step = "forecast"
    /\ \E f \in Forecasts :
          LET asked == call[c].asked
              kept == asked.child = "local"
          IN  /\ call' = [call EXCEPT ![c] = Answer(asked, call[c].weather, f, 0, "done")]
              /\ cache' = IF kept
                          THEN [cache EXCEPT ![asked.key] = [data |-> f, fetchedAt |-> now]]
                          ELSE cache
              /\ fetched' = IF kept THEN [fetched EXCEPT ![asked.key] = now] ELSE fetched
    /\ UNCHANGED now

\* The fetch fails, times out, or its body lacks the daily or hourly part: a
\* stale forecast is served, and without one the last day's weather has to do.
ForecastFails(c) ==
    /\ call[c].step = "forecast"
    /\ LET asked == call[c].asked
           d == call[c].weather
       IN  \/ /\ asked.child = "local"
              /\ call' = [call EXCEPT ![c] =
                            IF LooksUp(asked.key)
                            THEN Answer(asked, d, cache[asked.key].data, Age(asked.key), "failed")
                            ELSE Answer(asked, d, None, 0, "failed")]
              /\ cache' = Swept(asked.key)
           \/ /\ asked.child = "OpenMeteo"
              /\ call' = [call EXCEPT ![c] = Answer(asked, d, None, 0, "failed")]
              /\ UNCHANGED cache
    /\ UNCHANGED <<now, fetched>>

Tick ==
    /\ now < MaxTime
    /\ now' = now + 1
    /\ UNCHANGED <<cache, call, fetched>>

Next ==
    \/ \E c \in Calls :
          \/ Begins(c)
          \/ WeatherReturns(c)
          \/ WeatherFails(c)
          \/ ForecastReturns(c)
          \/ ForecastFails(c)
    \/ Tick

Spec == Init /\ [][Next]_etoVars
----------------------------------------------------------------------------
(* Properties *)

\* ForecastCache.ts: serve the last good forecast when a refresh fails, within
\* the stale window.  Every answer that used a forecast used one that was fresh,
\* or one that was stale after its own fetch had failed; an answer without one
\* after a failed fetch was given only if no fetch had succeeded in that time.
Fetching(c) == call[c].step = "forecast"
Answers(c) == call'[c].step = "answered" /\ call'[c] # call[c]

ForecastIsUsable ==
    [][\A c \in Calls : Answers(c) /\ ENABLE_FORECAST /\ call'[c].asked.child # None =>
          LET a == call'[c]
              key == a.asked.key
          IN  IF a.forecast # None
              THEN a.age <= FreshTtl \/ (a.fetch = "failed" /\ Fetching(c) /\ a.age <= StaleTtl)
              ELSE /\ a.fetch = "failed" /\ Fetching(c)
                   /\ a.asked.child = "local" =>
                         fetched[key] = None \/ now - fetched[key] > StaleTtl]_etoVars

\* The forecast fetch is kept off the hot path: a call of the local station goes
\* out for a forecast only when no fetch for its key, by whichever call, has
\* succeeded in the fresh window.
FetchesOnlyWhenStale ==
    [][\A c \in Calls :
          (~Fetching(c) /\ Fetching(c)' /\ call'[c].asked.child = "local") =>
             LET key == call'[c].asked.key
             IN  fetched[key] = None \/ now - fetched[key] > FreshTtl]_etoVars

\* Neither more rain that fell nor more rain to come raises an answer's scale,
\* through the crop coefficient, the balance or the forecast's adjustment, and a
\* forecast of no evapotranspiration above the last day's never does.
RainNeverWatersMore ==
    \A c \in Calls : call[c].step = "answered" =>
       LET a == call[c]
           s == a.asked.settings
       IN  /\ \A r \in 0 .. a.weather.precip - 1 :
                 EToScale(s, [a.weather EXCEPT !.precip = r], a.forecast) >= a.scale
           /\ a.forecast # None =>
                 /\ \A r \in 0 .. a.forecast.rain - 1 :
                       EToScale(s, a.weather, [a.forecast EXCEPT !.rain = r]) >= a.scale
                 /\ a.forecast.eto <= a.weather.eto => a.scale <= EToScale(s, a.weather, None)
=============================================================================
