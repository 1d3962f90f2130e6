# OpenSprinkler weather service: a TLA+ verification project

This directory models the parts of the weather service whose correctness depends on order, failure and long
histories, checks them with TLC on small instances and proves the most important properties with TLAPS for every
value of the constants. All paths below are relative to the repository root, `src/`.

## 1. The system

One Node.js process (`server.ts`) answers irrigation controllers that ask how much to water. JavaScript runs one
callback at a time; requests interleave only where a handler awaits something that leaves the event loop. State is
kept in module variables and in three small files.

| Component | State it keeps | Operations | Interacts with |
|---|---|---|---|
| Water-Budget model, `routes/adjustmentMethods/SoilMoistureModel.ts` | none (pure) | `step` | called by the request code |
| Water-Budget requests, `routes/adjustmentMethods/WaterBudgetAdjustmentMethod.ts` | the state store | `calculateWaterBudgetScale`, `getBudgetState` | weather provider (awaited), baseline file (awaited), state store |
| State store, `routes/state/StateStore.ts` | map, `loaded`, `writeSeq`, state file, temporary files | `get`, `set` | file system |
| Baseline evapotranspiration, `routes/baselineETo.ts` | file header | `getBaselineDailyETo`, HTTP handler | data file, geocoder |
| Watering decision, `routes/weather.ts:378-439` | none of its own | `computeWateringDecision`, `resolveWeatherProvider` | cache, provider, method, skips |
| Watering-scale cache, `WateringScaleCache.ts` | entries with a time to live | store, get | watering decision |
| Weather skips, `routes/skips/` | memo of recent weather | `applyWeatherSkips`, `fetchSkipWeather` | provider |
| Fallback provider, `routes/weatherProviders/FallbackWeatherProvider.ts` | `servedIndex`, `lastFallbackReason` | `run` over a chain | remote providers |
| Remote providers, `routes/weatherProviders/*.ts` | none | `getWateringData`, `getEToData`, `getWeatherData` | HTTP client |
| Local station, `routes/weatherProviders/local.ts`, `ForecastCache.ts` | observation queue, rain counter, forecast cache, a file | capture, windows, save, load | HTTP, file system |
| Other methods, `routes/adjustmentMethods/` | none | `calculateWateringScale` | provider |
| HTTP client and handlers, `routes/weather.ts`, `routes/v1/` | none | requests, responses | everything above |
| MQTT publisher, `mqtt/MqttPublisher.ts` | `inFlight` | `tick`, `onConnect` | broker, watering decision |
| Geocoder, `routes/geocoders/Geocoder.ts` | bounded cache, a file | `getLocation`, periodic save | geocoding service |

What is hard here, and what would make each component correct:

* **Water budget.** A location's rain bank advances once a day from the state of the day before. Requests overlap at
  two awaits; the state read before the second is written after it. Weather fails, is incomplete, or comes from
  different providers; writes fail; the process restarts. Correct means: banked rain is used before watering, each
  day is decided once, as far as the windows of the weather keep to a date a day, a decided day stays locked, every answer is the stored scale under the request's ceiling, and
  the history explains the state.
* **State store.** Four system calls can fail, and the process can die between any two. Correct means: the file is
  always whole, a resolved write saved everything, and nothing is lost that could be read.
* **Watering decision.** A scale is cached until local midnight; fallback flags describe a provider's latest call,
  not the one that produced the scale. Correct means: a cached scale belongs to today and to its key, a fallback's
  scale is not cached, and a skip always wins.
* **Local station.** Uploads are lost, repeated, delayed over midnight or undated; the file is written in place.
  Correct means: rain is counted once across resets, gaps and restarts, and a 24-hour window is reported only when
  there is one.
* **ETo method and forecasts.** Calls overlap at two waits and share a cache with a fresh and a stale window. Correct
  means: a forecast is served only as old as it may be, is fetched only when it must be, and rain never raises a scale.
* **HTTP client.** One promise, settled by whichever event comes first. Correct means: it is always settled.
* **MQTT publisher.** Ticks come from a timer and from connections; connections are lost inside a tick's messages.
  Correct means: a tick always ends, so that ticks do not stop for ever; what is retained agrees with the connection
  and with itself.
* **Geocoder.** Overlapping lookups share a bounded cache that is saved now and then. Correct means: the cache says
  what the service said, stays within its bound, costs a place its entry only for a new one, and is saved whole or not
  at all, wherever a save fails or the process dies in it.
* **Handlers.** Every request shares the geocoder and waits for services that fail. Correct means: it is answered, it
  goes on only with coordinates the service gave for its place, and a failed lookup never passes for an unknown place.

`PROJECT.json` lists these components with what is modelled of each, and every hazard at its line.

## 2. Modules

```
SoilMoistureModel        step and its helpers, pure                    SnapshotStore    what a state store promises
   |          \                                                          |        \
   |           RainBankSeason   two banks, two weathers                   |         FileStateStore  implements it
   |                                                                      |
   +------------------------ WaterBudget ----------------------- Store == INSTANCE

WateringDecision         the decision around any adjustment method: cache, skip memo, provider chain
CropCoefficient          pure  --- EXTENDED BY --->  EToAdjustment   the ETo method and the forecast cache
LocalStation             captures, the queue, its answers and its file
HttpRequest              one exchange  --- EXTENDED BY --->  MqttPublisher   ticks, the broker's retained topics
   |
   +--- with Geocoder --- EXTENDED BY --->  ApiRequests   routes and handlers, from a request to its answer
```

* **SoilMoistureModel** is `SoilMoistureModel.ts` as operators: `step`, `Outcome` (the arithmetic of one day),
  `Decision` (its record), `BankBefore` (cold start, gap reset), `BankAfter` (drain and cap), `ScaleFor` (normalise, round, clamp), `LastOf`
  (the history cap). Depths are integers and coefficients tenths. The code rounds every depth of a
  decision's record to two decimals (`round2`) but keeps the bank and computes the scale unrounded: `Cent` is the
  number of units in a hundredth, so that the state and its record differ as they do in the code, and what a property
  reads from a record it states up to that rounding. `NaN` stands for a missing or non-finite field. `Decisions`, `States` and `Inputs` are the code's `DecisionRecord`, `BudgetState`
  and `StepInput`.
* **RainBankSeason** steps two banks through the same days with different rain. A statement about how the answer
  depends on the weather compares two runs, so it needs both in one state.
* **SnapshotStore** is the abstract store: `mem` (reads its own writes), `disk` (what the next process would load),
  `up`. A `Put` changes `mem` and may or may not reach `disk`; `Flush` copies the whole map; `Start` may find the
  copy unreadable.
* **FileStateStore** is `StateStore.ts`, one action per system call: `Load` or `LoadFails`, `SetMemory`, `OpenTmp`,
  `WriteTmp`, `RenameTmp`, `SetFails` and `Crash`. `get` and `set` contain no `await`, so calls do not interleave;
  the steps are there for failures and crashes. Temporary names are reused after a restart, the worst case of the
  process id in the name.
* **WaterBudget** is `calculateWaterBudgetScale`. A request is `idle`, waits for the `weather` (line 140) or for the
  `baseline` (line 199), and does everything between two awaits in one action: `Begin`, `WeatherFails`,
  `WeatherArrives` (which holds, answers from the store, or reads the state and goes on), `Advance` (which steps from
  the state read before the wait, stores and answers). `safeGet` and `safeSet` await functions that do no
  asynchronous work, so no other request's input or output falls between them and their caller. The clock,
  restarts and crashes are actions of the environment. `WindowDate` is the date of the provider's data window, the
  key under which a day is decided. Most providers ask for yesterday; AccuWeather for the 24 hours before the request
  (`AccuWeather.ts:208`), the local station from its oldest observation (`local.ts:331`), DWD for a date of another
  zone (`DWD.ts:167`, `DWD.ts:218`), so their date moves on within the local day. `window` is where each provider's
  window starts now, any date from `MostLag` to `LeastLag` days back that does not go back itself: 1 to 1 for most,
  0 to 1 for AccuWeather and the station, 1 to 2 for DWD. A failed write is the case of `Put` that leaves `disk` alone, because
  `safeSet` swallows it.
* **WateringDecision** is `computeWateringDecision` with the watering-scale cache, the skip memo and the provider
  chain. A call waits for one provider at a time, first in phase `method`, then in phase `skips`: `BeginCached` and
  `BeginFresh` are the code up to the first wait, `FallThrough` is the loop of `FallbackWeatherProvider.run` after an
  error that a fallback may repair, `MethodReturns`, `MethodThrows` and `MethodHolds` (the Water-Budget method's held
  scale) end the first phase, store and go on into the skips (`Overlay`), `SkipsReturn` and `SkipsThrow` end the
  second. A decision is known by its scale, the provider it came from and the marks in its raw data. `Chain` is
  `buildFallbackChain` as the set of places whose provider is new, so that a place greater than 0 is exactly
  `servedIndex > 0`. `Expiry`, `MayHit` and `MayMiss` are node-cache as it is used here: a time to live of 0 never
  ends. A query is the cache's key; two queries that differ only in API keys are two queries. The comparisons with
  the skip thresholds are abstracted to the set of skips that weather calls for, and a method's waits for forecasts
  or baselines are part of its wait for the provider.
* **CropCoefficient** is the `TurfgrassManager` and `PlantCoefficients.ts`: the zone table, the base coefficient by
  grass, variety and management, the seasonal curve, the adjustments for temperature, moisture and growth stage, and
  the choice among a custom value, a plant and turf. Coefficients are hundredths; the cosine of the seasonal curve is
  the constant `Warmth`.
* **EToAdjustment** is the ETo method with the forecast path of the local station. A call refuses, waits for the
  weather (`Begins`), then answers, answers from a fresh cached forecast, or waits for a fetch (`WeatherReturns`);
  the fetch ends in `ForecastReturns` or, with the stale forecast or none, in `ForecastFails`. `Swept` is the deletion
  that `ForecastCache.get` does while reading. `EToScale` is the choice among the four scales and their arithmetic;
  `forecastChild` is the member of a chain that forecasts. The evapotranspiration of a day is an input: the
  Penman-Monteith and Hargreaves formulas are not modelled. `fetched` is history.
* **LocalStation** is `local.ts` with the station and the network as its environment. The station counts the rain of
  its day from midnight and has one upload on the wire, which may be lost, delayed or captured twice. An observation's
  number is its place in the queue; `since` and `upto` (how much rain had fallen when the counts it rests on were
  read) are history. `filterQueue` runs in every answer and in every save, as in the code. The answers
  (`getWeatherData`, `getWateringData`, `getEToData`) are operators over the state: the properties speak of what an
  answer would be in every state.
* **HttpRequest** is `httpRequest`: an exchange is sent, its head arrives, and it is resolved or rejected by the
  first event that settles the promise. `EarlyClose` is the event that settles nothing: a connection closed in an
  orderly way inside the body.
* **MqttPublisher** is `tick`, `onConnect`, `gatherState` and `buildStatePayloads`. A gathering waits in one of three
  steps (the place, the decision, the weather) and publishes everything in the action that ends it, sections first,
  status last. `Unused` is only where a gathering is kept. The client library and the broker are external, with the
  behaviours MQTT gives them: messages in order, the outbox lost with the connection, the last will when the broker
  gives up a connection or the client comes back before that.
* **Geocoder** is the cache as a sequence (a JavaScript Map keeps the order of first insertion), its limit, negative
  entries, the load, and the save: `OpensTemporary`, `WriteEnds`, `Renames` and `SaveFails` are its system calls, and
  `Loads` may come between any two. The calls are synchronous, so no request runs between them. What a crash leaves
  of a temporary file stays for the next process, which may have the same number. A loss of power that undoes a rename
  or a write (nothing calls `fsync`) is not modelled.
* **ApiRequests** composes both with the handlers of `weather.ts`, `v1/index.ts` and `baselineETo.ts`: validation in
  the order of the code (`Refusal`), the place (`resolveCoordinates`, `getLocation`, `LookupReturns`), then the weather
  (`Decides`, `DecisionReturns`), whose exchanges follow each other and are one here. `at` is the coordinates a handler
  works with. A provider may refuse before any exchange (`ProviderRefuses`: no key, no station, a short local queue, an
  unsupported method) or fail after some (`FailsAsked`: also with what AccuWeather's own lookup of a place throws, or
  with the refusal of a chain's last member); `"WeatherError"` stands for the codes that no handler tells apart. `Routed` is the server's routing when `ThroughServer` is true; without it the
  handlers are called directly, as the tests do. What a decision is made of is WateringDecision's; here it succeeds,
  fails with one of its codes, or succeeds although the exchange failed (a held scale, manual). Whether the baseline
  file's header is there is free in each request. The rate limit is a library's and left out.
* `MC*.tla` give the constants values for TLC; `*_proofs.tla` hold the theorems.

`PROJECT.json` maps every definition to the lines it models.

## 3. What the runs check

| Run | Question | Bounds |
|---|---|---|
| `file_state_store` | the five properties of the store, with the refinement to `SnapshotStore` | two locations with two states each (enough for one write to lose or mix another location), two writes per process, any number of restarts |
| `budget_sequential` | all properties of the budget when requests do not overlap | one request at a time, two days of two ticks, a provider whose window moves within the day (so three dates: cold start, next day, gap reset), history cap 2 (so that it is reached), four steps per process (one more than the property allows), rain 0 or 6 of which 0.8 count, missing evapotranspiration, two coefficients, a ceiling, five units to a hundredth |
| `budget_overlap` | what survives overlap | two requests, two providers whose windows start on two dates, two steps per process, crashes and lost writes, rain or none, an override coefficient, a bank of one day |
| `rain_season` | two weathers compared, water balance | polls of both banks up to the fourth date; evapotranspiration, rain and baseline negative, zero, missing and positive; gaps on both sides of the reset; most depths are rounded on record |
| `budget_race` | *violated*: the day lock under overlap | two requests, two days, one provider |
| `decision` | pinning, staleness and sharing of cached scales and skip weather; the mark of a bypassed station | two overlapping calls of a station's query with a chain (duplicate and unknown keys in it) and of one that names a key and no station; two days of two seconds, a memo of two |
| `mqtt_publisher` | what the broker retains, and that every connection is reported | one lost connection, one firing of the timer beside the ticks of connections, two exchanges per section, every exchange failing or timing out |
| `mqtt_stalls` | *violated*: ticks end | no lost connection, one exchange per section, a body cut short |
| `local_station` | rain and windows | two midnights (days of two ticks), two units of rain, three captures, one restart, uploads without a count or a date |
| `eto_forecast` | the forecast cache and monotony in rain | two overlapping calls, three chains, four kinds of forecast, a fresh window of one tick and a stale one of two, four ticks; an answer is compared with those for every smaller rain |
| `api` | the geocoder's cache and every answer | two callers, three requests out of eight, one for every way through the handlers; three cacheable places for a cache of two, one too long for it, a pair of coordinates; saves at any time, failing at any call; a restart |
| `api_routes` | *violated*: errors of /v1 use status codes | the same requests, through the routes |

Time is short in every run, but each event of the code (a store, a wait, a lookup, an upload) can fall on either side
of every boundary, and on it; the order of these events is all that the properties tell apart. Requests are symmetric in `budget_overlap` and
`decision`, and calls in `eto_forecast`: all the properties there are invariants and action properties.

The properties, from the strongest conditions to the weakest:

* **Whatever overlaps, fails or restarts, whatever the windows:** `BankedRainComesFirst`, `HistoryExplainsBank` (no
  state mixes two decisions: the bank rounds to the recorded one, the scale is that of depths which round to the
  recorded ones), `RainIsNotInvented` (no day leaves more than it found and rained less the demand it met; five
  recorded depths take part, each at most half a hundredth off), `AnswersAgreeWithStore` (action property over every
  path: held, cached, locked, advanced, error).
* **One request at a time, one provider or windows that always start alike:** `AdvancesKeepPace` (any run of days is
  charged at most once per day, and as often again as the window's lag varies by), `DayIsLocked`, `NoDateChargedTwice`
  (also across crashes and lost writes). Over a chain of providers with different windows they do not hold: see the
  first of the smaller behaviours below.
* **The store:** `FileNeverTorn`, `ResolvedSetSavesAll`, `OnlyUnreadStateIsLost`, `ImplementsSnapshotStore`.
* **The decision, whatever overlaps:** `OnlyPrimaryIsCached` (a fallback's scale is never pinned),
  `CachedScaleIsOfToday` (for every entry that has a time to live), `SkipIsNotPinned`, `SkipWeatherIsFresh`,
  `SkipWeatherIsOfOwnPlace`, `BypassIsVisible`.
* **Over the weather:** `MoreRainNeverWatersMore`, `WaterBalance`, `SeasonTypeOK`; for the ETo method
  `RainNeverWatersMore`.
* **The station:** `RainIsCountedOnce`, `ReportedRainFell`, `WindowIsTrueSpan`.
* **Forecasts:** `ForecastIsUsable` (its fresh and stale windows, after whose failure), `FetchesOnlyWhenStale`.
* **The publisher:** `AvailabilityFollowsTheConnection`, `StatusMatchesSections` (across a connection lost between two
  messages), `RetainedNeverGoesBack`, `EveryConnectionIsReported` (liveness).
* **Requests:** `CacheSaysWhatWasTold`, `EvictsOnlyForANewPlace`, `SavedCacheSurvives` (between all calls of a save),
  `PlacesAreAsTold` (overlapping lookups, evictions and restarts), `EveryRequestIsAnswered` (liveness).

Deadlock is checked except where the bounds end a behaviour: `rain_season` after its last date, `local_station`,
`mqtt_publisher`, `mqtt_stalls`, `api` and `api_routes` after their last restarts, connections and requests.

### Fairness

`EventLoopIsFair` (in `MqttPublisher` and in `ApiRequests`) is weak fairness of what Node does by itself: it runs the
continuation of a settled promise (`StepSettles`, `LookupReturns`, `DecisionReturns`), the system calls of a save
that has begun return (`~Runs /\ Saves`), and it fires a timer that is due
(`TimeoutFires`: `httpRequest` sets one on every request, and no documented setting can turn it off, which is what the
mutant of `requestTimeoutMs` does). The publisher's specification adds that the broker reads an open connection
(`Delivers`). A save begins only when no continuation is left to run, because Node runs those before its timers; a
save that kept pre-empting them would be a behaviour Node does not have. Nothing is assumed of the network, of the
services, of the timer of ticks, nor that a save ever begins or goes well. The liveness
properties hold with `EarlyClose = FALSE`; `mqtt_stalls` shows what one early close does to them. The other
specifications claim no liveness and assume no fairness.

### Disagreements found

1. **The day lock under overlap** (`budget_race`). `calculateWaterBudgetScale` steps from the state it read at line
   160, before it awaits the baseline at line 199. Two first polls of a day that overlap both advance; the second
   replaces the day's decision, coefficient included. `docs/v1-api.md:31` and `docs/per-plant-kc.md:58` say that a
   re-poll of the day recomputes nothing.
2. **A tick that never ends** (`mqtt_stalls`). `weather.ts:681` bounds a request by the idle timer of its socket. When
   the peer closes the connection in an orderly way inside the body, Node closes the socket with its timer and tells
   only the response (`aborted`, `close`), on which nothing listens. The promise is never settled, `inFlight` stays
   set, and no later tick runs. `docs/superpowers/specs/2026-06-06-mqtt-publisher-design.md:94` bounds a hanging call
   by its timeout.
3. **The routes of /v1** (`api_routes`). `app.get( /(\d+)/, ... )` (`server.ts:53`) is not anchored, precedes
   `app.use( "/v1", ... )`, and matches the digit of `/v1`: every request of the JSON API is answered by the legacy
   handler, as method 1, with errors as status 200. `docs/v1-api.md:4-5` promises JSON and status codes.

The models also show, or reading for them did, smaller behaviours that no run is spent on:

* a day is recognised by equality with the date of the provider's window. Those of AccuWeather, DWD and the local
  station move on within a local day, so that a first and a later poll of one day can both advance, against
  `docs/water-budget.md:34` (the term `MostLag - LeastLag` of `AdvancesKeepPace`); and DWD's can start a local day
  before the others', so that a fallback chain can decide an earlier date after a later one;
* the recorded bank is rounded and the carried one is not, so a history does not add up to the last digit
  (`SoilMoistureModel.ts:133-144`; the tolerances above);
* the status of an error in /v1 does not tell whose fault it was: a missing key, a missing station and the short queue
  of the local station answer 502 although nothing upstream was asked; AccuWeather's `NoLocationFound`
  (`AccuWeather.ts:33`, `AccuWeather.ts:150`) answers 400, also for a pair of coordinates; a chain whose last member
  does not support the method answers 422 after another member's exchange failed. `docs/v1-api.md:68-73` describes
  400 as the request's, 422 as the provider's and 502 as an upstream failure;
* `OWM.ts:164` returns milliseconds where the interface asks for seconds (`EToAdjustmentMethod.ts:854`), so its date
  moves on every 86 seconds and every poll advances the budget (`MillisProviders`, `FarDate`);
* a scale stored in the last second of a day has a time to live of 0, which node-cache keeps for good, where
  `WateringScaleCache.ts:12` promises the end of the day (`Expiry`);
* of two overlapping misses of the cache the later store wins, where the comment at `WateringScaleCache.ts:13-14`
  says that it has no effect;
* the skip memo's key has the class of the provider, which is the same for every chain, so requests that differ only
  in their fallbacks share an entry (places and stations do not: `SkipWeatherIsOfOwnPlace`);
* `servedFallback` and `pwsBypassed` of the response are read after the skip weather was fetched through the same
  chain, so a cached scale can carry them (the mark in the raw data is right: `BypassIsVisible`);
* a scale computed before midnight and stored after it is kept for the whole next day;
* the Water-Budget method's held scale, which no provider served, is cached for the day after a single failed poll;
* the handlers of /v1 pass only provider, station and key on, so `method=3` always lacks its baseline (400) and
  `budgetKc` and `budgetMaxScale` (`docs/v1-api.md:9-16`) have no effect there;
* the legacy handler's errors of location and options are text even with `format=json`;
* a reply of the Google service without results is kept as "no such place" until it is evicted, and a late negative
  answer replaces coordinates that an overlapping lookup found;
* a crash while `observations.json` is written in place loses the queue, and answers fail until 23 hours have passed;
* between the spring transition and the summer stress of some zones `getSeasonalKc` (`EToAdjustmentMethod.ts:178`)
  falls through to the value of late autumn;
* the branch of the hybrid forecast for many estimated fields cannot be reached.

## 4. What is proved

Every theorem holds for any number of locations, requests and days and for any settings that satisfy the named
assumptions (`BudgetAssumption`, `AbsentAssumption`, `NoneAssumption`, `StoreAssumption`, `ContentAssumption`,
`SeasonAssumption`, `DecisionAssumption`, `OptionAssumption`, `TimeoutAssumption`, `PublisherAssumption`,
`NothingAssumption`, `StationAssumption`, `EToAssumption`, `GeocoderAssumption`, and `RequestAssumption` of
`WaterBudget` and of `ApiRequests`). The assumptions give settings the ranges the code forces and say that the values
for "absent" are none of the others; TLC evaluates them in the runs. Every safety property of every passing run is a
theorem; one theorem more says of the handlers what `api_routes` refutes of the server.

* **FileStateStore_proofs.** `FileNeverTorn` is not inductive: the rename installs whatever the temporary file holds.
  `IInv` adds where a running call stands (`CallInv`: at the rename, the temporary file of this sequence number is
  the map), what a resolved write guarantees until the next change (`SettledInv`) and that the map covers the file
  unless the load failed (`CoverInv`). From it follow `TypeCorrect`, `NeverTorn`, `ResolvedSetIsDurable`,
  `LossNeedsFailedLoad` and, step by step, `Refinement`.
* **SoilMoistureModel_proofs.** Lemmas about one step for all inputs: rounding (`RoundFacts`: at most half a hundredth, and
  `RoundIsMonotone`), the day's arithmetic and its balance (`OutcomeFacts`), what of it survives in the rounded record
  (`DecisionFacts`, with `Balanced`, `Drained` and `Banked`), what the capped history keeps (`LastOfFacts`) and what a
  step preserves (`FreshStepFacts`).
  The second part is about `RainBankSeason`: `MoreRainIsSafe` rests on `OutcomeIsMonotone`, that more water to start
  with leaves more in the bank and asks for no higher scale. The invariant also says that the two banks are always
  polled on the same dates. `WaterIsBalanced` and `SeasonTypeCorrect` follow from the same invariant.
* **WaterBudget_proofs.** `BudgetInv` says that stored states *and* the states that waiting requests hold are sound,
  and that those states have another date than the request (otherwise `step` would return the old state). It gives
  `BudgetTypeCorrect`, `BankFirst`, `HistoryIsSound` and `AnswersAgree` for any number of overlapping requests.
  Soundness of a state includes that each day of its history balances (`Explained`), which gives `NoRainIsInvented`:
  stated link by link, from one decision's bank to the next, because the sum over a history would need induction. Under
  `Sequential` (one request at a time, which `budget_race` drops; one provider, whose window may move as its lags
  allow, or several whose lags are one and the same; none in milliseconds) `SequentialInv` adds that the state in
  memory is the one the request holds and not later than its window, and counts the steps of every run of days by the
  dates they moved the state over (`Charged`): from the earliest window of its first day to the stored date. It gives
  `SequentialPace`, `SequentialDates` and `SequentialLock`.
* **WateringDecision_proofs.** `DecisionInv` describes each piece of state as it is held: an entry of the cache
  (`EntrySound`: the primary's or nobody's, without a skip, expiring at the end of the day it was stored on), of the
  memo (`MemoSound`: the key's place and station, expiring within the time to live of its weather), a waiting call
  (`CallSound`: it asks a place of its chain, and the decision it holds has no skip yet and its true mark) and the
  answer. The calls must be part of it because a decision passes through them on its way to the answer. `SameDay` is
  the arithmetic of the day for every length. All properties of `decision` are theorems.
* **MqttPublisher_proofs.** `PublisherInv` describes the messages between the client and the broker: `outbox` is in
  the order of ticks, no message in it is older than what is retained, a status that says ok follows its own sections,
  and an announcement is either there or has been taken. Without it nothing could be said of what the next delivery
  retains. It also says that exactly the tick in flight gathers. It gives `PublisherTypeCorrect`, `AvailabilityIsTrue`,
  `StatusIsTrue` and `RetainedOnlyAdvances`: all safety properties of `mqtt_publisher`.
* **LocalStation_proofs.** `RainIsCountedOnce` is not inductive, because the next observation depends on the counter
  and on the count in flight. `StationInv` adds `CountsAgree` (the rain since the last known count, as the station
  would count it, has fallen since then, also over midnight) and the same soundness of the file, from which a restart
  takes its queue. It gives `StationTypeCorrect` and `NoRainTwice`. `TimesInv` is a second invariant: the places of the
  queue are distinct and run with their dates, none in the future, also of the upload on its way and of the file; it is
  what makes the newest and the oldest place of an answer the ends of its window (`WindowIsHonest`; that a finite queue
  has such ends is the least-element principle, `LeastNatural`). The rain of an answer is stated as the number of its
  units, `RainOf`, so that `NoMoreRainThanFell` counts instead of adding: by `RainIsCountedOnce` the units map one to
  one into the rain that fell since the oldest observation's last count.
* **EToAdjustment_proofs.** `CacheInv` relates the cache to the history of fetches: an entry is of the last fetch that
  succeeded, and an entry that is missing was swept after its stale window. It gives `ServedForecastIsUsable` and
  `HotPathStaysLocal` for any windows, keys and calls. `RainIsSafe` follows the arithmetic from the crop coefficient
  (`GrassFacts`, `PlantFacts`: never negative, and for grass no lower where less rain fell) through each of the four
  scales, with division and clamping shown monotone (`DivMonotone`, `ClampFacts`): `MoreRain` for the rain that fell,
  `ForecastNeverRaises` for the rain that is forecast. `ScaleInv` carries it to the answers: `ScalesAreThoseAsked`
  says that every answer's scale is that of the call's own settings, weather and forecast, whatever other calls do to
  the cache between its two waits.
* **ApiRequests_proofs.** `ApiInv` has two parts. `GeocoderInv` says of the cache and of its file that they are
  sequences within the limit, with each place once (`Distinct`) and nothing the service has not said (`Truthful`); the
  lemmas about `setCacheEntry` follow what it does to the order (`SetsAgain`: nothing moves, `SetsNew`: one at the end,
  `DropsFirst`: the eviction). `CallSound` says of a request that the coordinates it goes on with are some the service
  has told for its place (`Located`), and of its answer, when it never had any, that it is a refusal, an error of the
  lookup or a "no result" that was told; what the service has told only grows, so it is kept by other requests' steps
  and by restarts. It gives `CacheIsTruthful`, `PlacesAreHonest`, `EvictionsAreRight` and `SavesAreWhole`. The last
  needs an invariant: the temporary file that is renamed holds the cache, although a crash may have left another
  there, because the save emptied it first and nothing else runs while the save does. `HandlersUseStatusCodes` proves the property of disagreement 3 for the handlers called directly:
  the routing alone breaks it.

Only model-checked: the two liveness properties, `EveryConnectionIsReported` and `EveryRequestIsAnswered`, because
fairness is out of the prover's reach; and what the runs that expect a violation show, which are behaviours and not
theorems. Induction over data is out of its reach too. Where a property is about a sum, the model counts (`RainOf`) or
speaks of each link (`RainIsNotInvented`), which implies the sum, with the tolerance of each link, and can be proved; no module needs a recursive
definition.

## 5. Not modelled

* **Conversions of vendor responses** in `routes/weatherProviders/` (Apple, AccuWeather, DWD, OpenMeteo,
  PirateWeather, WUnderground, OWM): data handling of one response at a time, without state. What the other modules
  need of it, the date of the window and missing fields, is in `WaterBudget`.
* **Formulas over reals**: Penman-Monteith, Hargreaves, solar radiation; Zimmerman's sum and its limits, rain delay
  and manual are only outcomes of a decision.
* **Formatting**: shapers, text bodies, sunrise and sunset, the encoding of time zones (`weather.ts:700`, where a
  negative offset that is not a whole hour is floored and its minutes are added to it), log lines.
* **The parsing of configuration**, read once at the start; the **dashboard**, the development server and the offline
  data tool, which share no state with the service; the baseline file's pixel arithmetic.

What could still be added: Zimmerman's limits as pure operators and the rate limit before the routes.
