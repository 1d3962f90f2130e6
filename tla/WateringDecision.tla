-------------------------- MODULE WateringDecision --------------------------
(***************************************************************************)
(* computeWateringDecision (routes/weather.ts) with what it reads and       *)
(* writes: the daily watering-scale cache (WateringScaleCache.ts), the      *)
(* short-lived memo of the weather skips (routes/skips/SkipGuard.ts) and    *)
(* the provider chain of the request                                        *)
(* (routes/weatherProviders/FallbackWeatherProvider.ts).                    *)
(*                                                                          *)
(* A call runs alone between two awaits of a provider, so each provider     *)
(* call of a chain is a wait of its own, first for the adjustment method    *)
(* and then for the skips.  One tick of the clock is one second, the        *)
(* resolution of the cache's time to live.                                  *)
(***************************************************************************)
EXTENDS Integers, Sequences

CONSTANTS
    Requests,            \* bound: calls that can be in flight at once
    Queries,             \* what a call asks (below); also the cache's key
    Locations,
    PwsIds,              \* personal weather stations; KeyOnly has no id
    KeyOnly,
    Providers,           \* registered providers
    DefaultProvider,     \* "Apple"
    PwsProvider,         \* the instance that serves stations
    Cacheable,           \* providers whose shouldCacheWateringScale is true
    PwsFallbackEnabled,  \* PWS_FALLBACK_ENABLED
    Scales,              \* scales an adjustment method can return
    SkipSigns,           \* the sets of skips that weather can call for
    SecondsPerDay,       \* bound: seconds of a local day
    LastSecond,          \* bound: the last second of the clock
    SkipTtl,             \* SKIP_WEATHER_TTL in seconds
    None

Rules == {"freeze", "wind", "rain"}
Instances == Providers \cup {PwsProvider}

\* The parts of a query that steer the decision: the adjustment method, the
\* restriction bit, the place, the station, the provider key and the fallback
\* keys as resolved from the request or the environment, unknown keys (None)
\* included, and the skips enabled by either.
QueryType ==
    [method : {"manual", "weather", "budget"}, checkRestrictions : BOOLEAN,
     loc : Locations, pws : PwsIds \cup {KeyOnly, None},
     provider : Providers \cup {None}, fallbacks : Seq(Providers \cup {None}),
     rules : SUBSET Rules]

ASSUME DecisionAssumption ==
    /\ Queries \subseteq QueryType
    /\ KeyOnly \notin PwsIds
    /\ None \notin PwsIds \cup {KeyOnly}
    /\ None \notin Instances
    /\ None \notin Rules
    /\ None \notin Scales
    /\ SkipSigns \subseteq SUBSET Rules
    /\ PwsProvider \notin Providers
    /\ DefaultProvider \in Providers
    /\ Cacheable \subseteq Instances
    /\ PwsFallbackEnabled \in BOOLEAN
    /\ SecondsPerDay \in Nat \ {0}
    /\ LastSecond \in Nat
    /\ SkipTtl \in Nat \ {0}

VARIABLES
    clock,
    cache,     \* [Queries -> entry or None]
    memo,      \* [memo key -> entry or None]
    call,      \* [Requests -> call in flight or None]
    answer     \* the response the last step sent; None if it sent none

decisionVars == <<clock, cache, memo, call, answer>>
----------------------------------------------------------------------------
(* resolveWeatherProvider: the chain of a query is its primary at place 0  *)
(* and those of its fallback keys, at their places, that add a provider.   *)

HasStation(q) == q.pws \in PwsIds

Primary(q) ==
    IF HasStation(q) THEN PwsProvider
    ELSE IF q.provider \in Providers THEN q.provider ELSE DefaultProvider

Fallbacks(q) ==
    IF HasStation(q) /\ ~PwsFallbackEnabled THEN <<>> ELSE q.fallbacks

Chain(q) ==
    {0} \cup {i \in 1 .. Len(Fallbacks(q)) :
                /\ Fallbacks(q)[i] \in Providers \ {Primary(q)}
                /\ \A j \in 1 .. (i - 1) : Fallbacks(q)[j] # Fallbacks(q)[i]}

ProviderAt(q, i) == IF i = 0 THEN Primary(q) ELSE Fallbacks(q)[i]

\* Mutant: the next place, though it may be past the end or unknown.
NextPlace(q, i) == {i + 1}

\* The place tried after i, if there is one.
NextIn(q, i) ==
    {j \in Chain(q) : i < j /\ \A k \in Chain(q) : i < k => j <= k}

IsComposite(q) == Chain(q) # {0}

\* Cache eligibility follows the primary.
shouldCacheWateringScale(q) == Primary(q) \in Cacheable

\* The composite's view of the provider that answered last; -1 before any.
servedFallback(servedIndex) == servedIndex > 0

\* Mutant: the station's own answer counts as a bypass.
pwsBypassedByAny(q, servedIndex) == HasStation(q) /\ servedIndex >= 0

pwsBypassed(q, servedIndex) == HasStation(q) /\ servedIndex > 0
----------------------------------------------------------------------------
(* The watering-scale cache                                                *)

Day(t) == t \div SecondsPerDay
EndOfDay(t) == (Day(t) + 1) * SecondsPerDay - 1

\* node-cache keeps an entry of time to live 0 for good, and any other until
\* somewhere in the second its time ends.
Forever == -1
Expiry(ttl) == IF ttl = 0 THEN Forever ELSE clock + ttl

MayHit(e) == e # None /\ (e.expires = Forever \/ clock <= e.expires)
MayMiss(e) == e # None => e.expires # Forever /\ clock >= e.expires

\* Mutant: a scale that a fallback served is cached like any other.
storeAnyScale(q, servedIndex, d) ==
    cache' = IF shouldCacheWateringScale(q)
             THEN [cache EXCEPT ![q] = [decision |-> d, stored |-> clock,
                                        expires |-> Expiry(EndOfDay(clock) - clock)]]
             ELSE cache

\* Mutant: the time to live runs a whole day.
storeForADay(q, servedIndex, d) ==
    cache' = IF shouldCacheWateringScale(q) /\ ~servedFallback(servedIndex)
             THEN [cache EXCEPT ![q] = [decision |-> d, stored |-> clock,
                                        expires |-> Expiry(SecondsPerDay - 1)]]
             ELSE cache

\* The store that ends a fresh calculation: until the local day ends, over what
\* the cache holds, and never what a fallback served.
storeWateringScale(q, servedIndex, d) ==
    cache' = IF shouldCacheWateringScale(q) /\ ~servedFallback(servedIndex)
             THEN [cache EXCEPT ![q] = [decision |-> d, stored |-> clock,
                                        expires |-> Expiry(EndOfDay(clock) - clock)]]
             ELSE cache
----------------------------------------------------------------------------
(* The weather skips                                                       *)

\* The restriction bit of a query forces the rain skip.
resolveSkipConfig(q) == q.rules \cup IF q.checkRestrictions THEN {"rain"} ELSE {}

\* Mutant: the station is missing from the key.
memoKeyWithoutStation(q) ==
    [class |-> IF IsComposite(q) THEN "composite" ELSE Primary(q),
     selected |-> q.provider, loc |-> q.loc, pws |-> None]

\* Two bare providers have different classes; every chain has the same one.
skipMemoKey(q) ==
    [class |-> IF IsComposite(q) THEN "composite" ELSE Primary(q),
     selected |-> q.provider, loc |-> q.loc, pws |-> q.pws]

MemoKeys == {skipMemoKey(q) : q \in Queries}

\* Mutant: an entry serves in the second in which it expires.
MemoHitLate(q) == LET m == memo[skipMemoKey(q)] IN m # None /\ m.expires >= clock

MemoHit(q) == LET m == memo[skipMemoKey(q)] IN m # None /\ m.expires > clock

\* The skips that weather calls for are tried in the order freeze, wind, rain.
SkipOrder == [freeze |-> 1, wind |-> 2, rain |-> 3]

evaluateSkips(weather, cfg) ==
    LET due == weather.signs \cap cfg
    IN  IF due = {} THEN None
        ELSE CHOOSE rule \in due : \A other \in due : SkipOrder[rule] <= SkipOrder[other]

\* The overlay on a decision: fail-open without weather, else a fresh decision.
applyWeatherSkips(d, weather, cfg) ==
    IF weather = None \/ evaluateSkips(weather, cfg) = None THEN d
    ELSE [d EXCEPT !.scale = 0, !.skip = evaluateSkips(weather, cfg)]
----------------------------------------------------------------------------
(* A decision is known by its scale, the provider its weather came from    *)
(* (None: none was needed, or a stored scale was held), and the marks in    *)
(* its raw data.                                                            *)

Decisions ==
    [scale : Scales \cup {0, None}, by : Instances \cup {None},
     bypassed : BOOLEAN, skip : Rules \cup {None}]

Entries == [decision : Decisions, stored : Nat, expires : Nat \cup {Forever}]

Weathers ==
    [signs : SkipSigns, by : Instances, loc : Locations,
     pws : PwsIds \cup {KeyOnly, None}, at : Nat]

MemoEntries == [weather : Weathers, expires : Nat]

Calls ==
    [query : Queries, phase : {"method", "skips"}, link : Nat, servedIndex : Int,
     decision : Decisions \cup {None}, hit : BOOLEAN, asked : Nat]

Answers ==
    [query : Queries, decision : Decisions, hit : BOOLEAN, servedFallback : BOOLEAN,
     pwsBypassed : BOOLEAN, restricted : BOOLEAN, weather : Weathers \cup {None}]

ASSUME OptionAssumption ==
    None \notin Entries \cup MemoEntries \cup Weathers \cup Calls \cup Answers \cup Decisions

TypeOK ==
    /\ clock \in 0 .. LastSecond
    /\ cache \in [Queries -> Entries \cup {None}]
    /\ memo \in [MemoKeys -> MemoEntries \cup {None}]
    /\ call \in [Requests -> Calls \cup {None}]
    /\ \A r \in Requests : call[r] # None =>
          /\ call[r].link \in Chain(call[r].query)
          /\ call[r].phase = "skips" => call[r].decision # None
    /\ answer \in Answers \cup {None}

Init ==
    /\ clock = 0
    /\ cache = [q \in Queries |-> None]
    /\ memo = [k \in MemoKeys |-> None]
    /\ call = [r \in Requests |-> None]
    /\ answer = None

\* The decision of a method that the provider at place i served.
MethodDecision(q, i, scale) ==
    [scale |-> scale, by |-> ProviderAt(q, i), bypassed |-> pwsBypassed(q, i), skip |-> None]

\* A decision that no provider served: the manual method's, and the scale the
\* Water-Budget method holds when the weather fails.
UnservedDecision(scale) == [scale |-> scale, by |-> None, bypassed |-> FALSE, skip |-> None]

\* The response, with the flags read from the provider as it is now.
Respond(r, q, servedIndex, d, hit, weather) ==
    LET final == applyWeatherSkips(d, weather, resolveSkipConfig(q))
    IN  /\ call' = [call EXCEPT ![r] = None]
        /\ answer' =
             [query |-> q, decision |-> final, hit |-> hit,
              servedFallback |-> servedFallback(servedIndex),
              pwsBypassed |-> pwsBypassed(q, servedIndex),
              restricted |-> q.checkRestrictions /\ final.skip # None,
              weather |-> weather]

\* What follows once a decision is there: the answer, when no skip is enabled
\* or the memo has the weather; otherwise a call for the weather.
Overlay(r, q, servedIndex, d, hit) ==
    \/ /\ resolveSkipConfig(q) = {}
       /\ Respond(r, q, servedIndex, d, hit, None)
    \/ /\ resolveSkipConfig(q) # {}
       /\ MemoHit(q)
       /\ Respond(r, q, servedIndex, d, hit, memo[skipMemoKey(q)].weather)
    \/ /\ resolveSkipConfig(q) # {}
       /\ ~MemoHit(q)
       /\ call' = [call EXCEPT ![r] =
            [query |-> q, phase |-> "skips", link |-> 0, servedIndex |-> servedIndex,
             decision |-> d, hit |-> hit, asked |-> clock]]
       /\ answer' = None
----------------------------------------------------------------------------
\* A call starts and the cache answers for its method.
BeginCached(r, q) ==
    /\ call[r] = None
    /\ shouldCacheWateringScale(q)
    /\ MayHit(cache[q])
    /\ Overlay(r, q, -1, cache[q].decision, TRUE)
    /\ UNCHANGED <<clock, cache, memo>>

\* A call starts without a cached scale: the manual method returns at once, the
\* others ask the first provider of the chain.
BeginFresh(r, q) ==
    /\ call[r] = None
    /\ shouldCacheWateringScale(q) => MayMiss(cache[q])
    /\ \/ /\ q.method = "manual"
          /\ storeWateringScale(q, -1, UnservedDecision(None))
          /\ Overlay(r, q, -1, UnservedDecision(None), FALSE)
       \/ /\ q.method # "manual"
          /\ call' = [call EXCEPT ![r] =
               [query |-> q, phase |-> "method", link |-> 0, servedIndex |-> -1,
                decision |-> None, hit |-> FALSE, asked |-> 0]]
          /\ answer' = None
          /\ UNCHANGED cache
    /\ UNCHANGED <<clock, memo>>

\* The provider that was asked fails in a way that a fallback may repair.
FallThrough(r) ==
    /\ call[r] # None
    /\ \E next \in NextIn(call[r].query, call[r].link) :
          call' = [call EXCEPT ![r].link = next]
    /\ answer' = None
    /\ UNCHANGED <<clock, cache, memo>>

\* The provider serves the method, whose decision is stored.
MethodReturns(r, scale) ==
    LET q == call[r].query
        i == call[r].link
    IN  /\ call[r] # None
        /\ call[r].phase = "method"
        /\ storeWateringScale(q, i, MethodDecision(q, i, scale))
        /\ Overlay(r, q, i, MethodDecision(q, i, scale), FALSE)
        /\ UNCHANGED <<clock, memo>>

\* The method throws: its last provider failed, an error is not one a fallback
\* may repair, or the data do not do.
MethodThrows(r) ==
    /\ call[r] # None
    /\ call[r].phase = "method"
    /\ call' = [call EXCEPT ![r] = None]
    /\ answer' = None
    /\ UNCHANGED <<clock, cache, memo>>

\* The Water-Budget method holds its stored scale instead of throwing.
MethodHolds(r, scale) ==
    LET q == call[r].query
    IN  /\ call[r] # None
        /\ call[r].phase = "method"
        /\ q.method = "budget"
        /\ storeWateringScale(q, -1, UnservedDecision(scale))
        /\ Overlay(r, q, -1, UnservedDecision(scale), FALSE)
        /\ UNCHANGED <<clock, memo>>

\* Mutant: the overlay writes into the cached decision.
SkipsReturnIntoCache(r, signs) ==
    LET c == call[r]
        q == c.query
        weather == [signs |-> signs, by |-> ProviderAt(q, c.link), loc |-> q.loc,
                    pws |-> q.pws, at |-> clock]
    IN  /\ c # None
        /\ c.phase = "skips"
        /\ memo' = [memo EXCEPT ![skipMemoKey(q)] =
                      [weather |-> weather, expires |-> c.asked + SkipTtl]]
        /\ Respond(r, q, c.link, c.decision, c.hit, weather)
        /\ cache' = IF c.hit
                    THEN [cache EXCEPT ![q].decision =
                            applyWeatherSkips(c.decision, weather, resolveSkipConfig(q))]
                    ELSE cache
        /\ UNCHANGED clock

\* The provider serves the skips' weather, which is kept from when it was asked.
SkipsReturn(r, signs) ==
    LET c == call[r]
        q == c.query
        weather == [signs |-> signs, by |-> ProviderAt(q, c.link), loc |-> q.loc,
                    pws |-> q.pws, at |-> clock]
    IN  /\ c # None
        /\ c.phase = "skips"
        /\ memo' = [memo EXCEPT ![skipMemoKey(q)] =
                      [weather |-> weather, expires |-> c.asked + SkipTtl]]
        /\ Respond(r, q, c.link, c.decision, c.hit, weather)
        /\ UNCHANGED <<clock, cache>>

\* The skips' weather fails: no skip, and nothing is kept of the failure.
SkipsThrow(r) ==
    LET c == call[r]
    IN  /\ c # None
        /\ c.phase = "skips"
        /\ Respond(r, c.query, c.servedIndex, c.decision, c.hit, None)
        /\ UNCHANGED <<clock, cache, memo>>

Tick ==
    /\ clock < LastSecond
    /\ clock' = clock + 1
    /\ answer' = None
    /\ UNCHANGED <<cache, memo, call>>

Next ==
    \/ \E r \in Requests, q \in Queries : BeginCached(r, q) \/ BeginFresh(r, q)
    \/ \E r \in Requests : FallThrough(r) \/ MethodThrows(r) \/ SkipsThrow(r)
    \/ \E r \in Requests, scale \in Scales : MethodReturns(r, scale) \/ MethodHolds(r, scale)
    \/ \E r \in Requests, signs \in SkipSigns : SkipsReturn(r, signs)
    \/ Tick

Spec == Init /\ [][Next]_decisionVars
----------------------------------------------------------------------------
(* Properties *)

\* docs/weather-provider-fallback.md: a scale that a fallback served is never
\* pinned for the day.  Only the request's own primary, one whose scales may be
\* cached, ever fills the cache, however calls overlap.
OnlyPrimaryIsCached ==
    \A q \in Queries : cache[q] # None =>
        /\ Primary(q) \in Cacheable
        /\ cache[q].decision.by \in {Primary(q), None}

\* A cached scale that has a time to live answers only on the local day it was
\* stored on.
CachedScaleIsOfToday ==
    \A q \in Queries :
        (MayHit(cache[q]) /\ cache[q].expires # Forever) =>
            Day(cache[q].stored) = Day(clock)

\* docs/weather-skips.md: skips are live.  A skip is never remembered with the
\* scale, in the cache or in a call that still waits for its weather, so a
\* morning freeze does not stop the evening's watering.
SkipIsNotPinned ==
    /\ \A q \in Queries : cache[q] # None => cache[q].decision.skip = None
    /\ \A r \in Requests :
          (call[r] # None /\ call[r].decision # None) => call[r].decision.skip = None

\* The weather behind an answer is younger than the memo's time to live.
SkipWeatherIsFresh ==
    (answer # None /\ answer.weather # None) => clock - answer.weather.at < SkipTtl

\* The memo never gives a query the weather of another place or station.
SkipWeatherIsOfOwnPlace ==
    (answer # None /\ answer.weather # None) =>
        /\ answer.weather.loc = answer.query.loc
        /\ answer.weather.pws = answer.query.pws

\* docs/weather-provider-fallback.md: a bypassed station is visible.  On every
\* path, cached scales included, the raw data say so exactly when another
\* provider served the scale of a request for a station.
BypassIsVisible ==
    answer # None =>
        LET d == answer.decision
        IN  d.bypassed <=> HasStation(answer.query) /\ d.by \notin {PwsProvider, None}
============================================================================
