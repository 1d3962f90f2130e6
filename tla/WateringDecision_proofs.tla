----------------------- MODULE WateringDecision_proofs -----------------------
(***************************************************************************)
(* Proofs about WateringDecision, for any queries, providers and number of  *)
(* calls in flight, any length of the day and any time to live of the memo. *)
(***************************************************************************)
EXTENDS WateringDecision, TLAPS

----------------------------------------------------------------------------
(* The chain of a query *)

LEMMA QueryFacts ==
    ASSUME NEW q \in Queries
    PROVE  /\ q.loc \in Locations
           /\ q.pws \in PwsIds \cup {KeyOnly, None}
           /\ q.checkRestrictions \in BOOLEAN
           /\ q.fallbacks \in Seq(Providers \cup {None})
           /\ q.rules \in SUBSET Rules
           /\ Primary(q) \in Instances
           /\ HasStation(q) <=> Primary(q) = PwsProvider
<1>1. q \in QueryType
  BY DecisionAssumption
<1> QED
  BY <1>1, DecisionAssumption DEF QueryType, Primary, HasStation, Instances

\* A place of the chain other than the primary's holds a registered provider,
\* never the one that serves stations (FallbackWeatherProvider.ts:62-73).
LEMMA ChainFacts ==
    ASSUME NEW q \in Queries, NEW i \in Chain(q)
    PROVE  /\ i \in Nat
           /\ ProviderAt(q, i) \in Instances
           /\ i = 0 => ProviderAt(q, i) = Primary(q)
           /\ i # 0 => ProviderAt(q, i) \in Providers
           /\ NextIn(q, i) \subseteq Chain(q)
<1>1. i # 0 => i \in 1 .. Len(Fallbacks(q)) /\ Fallbacks(q)[i] \in Providers
  BY DEF Chain
<1>2. Fallbacks(q) \in Seq(Providers \cup {None})
  BY QueryFacts DEF Fallbacks
<1>3. Len(Fallbacks(q)) \in Nat
  BY <1>2
<1> QED
  BY <1>1, <1>3, QueryFacts DEF ProviderAt, NextIn, Instances

LEMMA PrimaryIsFirst == ASSUME NEW q \in Queries PROVE 0 \in Chain(q)
BY DEF Chain
----------------------------------------------------------------------------
(* The local day *)

LEMMA DayFacts ==
    ASSUME NEW t \in Nat
    PROVE  /\ Day(t) \in Nat
           /\ EndOfDay(t) \in Nat
           /\ t <= EndOfDay(t)
           /\ EndOfDay(t) < (Day(t) + 1) * SecondsPerDay
<1>1. SecondsPerDay \in Nat \ {0}
  BY DecisionAssumption
<1>2. /\ Day(t) \in Nat
      /\ t < (Day(t) + 1) * SecondsPerDay
  BY <1>1 DEF Day
<1>3. (Day(t) + 1) * SecondsPerDay \in Nat
  BY <1>1, <1>2
<1> QED
  BY <1>2, <1>3 DEF EndOfDay

\* Until the day of s ends, it is the day of s.
LEMMA SameDay ==
    ASSUME NEW s \in Nat, NEW t \in Nat, s <= t, t <= EndOfDay(s)
    PROVE  Day(s) = Day(t)
<1>1. SecondsPerDay \in Nat \ {0}
  BY DecisionAssumption
<1>2. Day(s) \in Nat /\ Day(t) \in Nat /\ t < (Day(s) + 1) * SecondsPerDay
  <2>1. Day(s) \in Nat /\ EndOfDay(s) \in Nat /\ EndOfDay(s) < (Day(s) + 1) * SecondsPerDay
    BY DayFacts
  <2>2. Day(t) \in Nat
    BY DayFacts
  <2>3. (Day(s) + 1) * SecondsPerDay \in Nat
    BY <1>1, <2>1
  <2> QED
    BY <2>1, <2>2, <2>3
<1>3. Day(s) <= Day(t)
  BY <1>1 DEF Day
<1>4. SecondsPerDay * Day(t) <= t
  BY <1>1 DEF Day
<1>5. Day(t) < Day(s) + 1
  <2>1. ASSUME Day(s) + 1 <= Day(t) PROVE FALSE
    <3>1. SecondsPerDay * (Day(t) - (Day(s) + 1)) >= 0
      BY <1>1, <1>2, <2>1
    <3> QED
      BY <1>1, <1>2, <1>4, <3>1
  <2> QED
    BY <1>2, <2>1
<1> QED
  BY <1>2, <1>3, <1>5
----------------------------------------------------------------------------
(* Decisions *)

\* A decision before the overlay has no skip, and marks a bypassed station
\* exactly when another provider served it.
DecisionSound(q, d) ==
    /\ d \in Decisions
    /\ d.skip = None
    /\ d.bypassed <=> HasStation(q) /\ d.by \notin {PwsProvider, None}

LEMMA MethodDecisionSound ==
    ASSUME NEW q \in Queries, NEW i \in Chain(q), NEW scale \in Scales
    PROVE  DecisionSound(q, MethodDecision(q, i, scale))
<1>1. pwsBypassed(q, i) <=> HasStation(q) /\ ProviderAt(q, i) \notin {PwsProvider, None}
  BY ChainFacts, QueryFacts, DecisionAssumption DEF pwsBypassed, Instances
<1>2. pwsBypassed(q, i) \in BOOLEAN
  BY DEF pwsBypassed, HasStation
<1> QED
  BY <1>1, <1>2, ChainFacts DEF DecisionSound, MethodDecision, Decisions

LEMMA UnservedDecisionSound ==
    ASSUME NEW q \in Queries, NEW scale \in Scales \cup {None}
    PROVE  DecisionSound(q, UnservedDecision(scale))
BY DEF DecisionSound, UnservedDecision, Decisions

LEMMA ConfigType == ASSUME NEW q \in Queries PROVE resolveSkipConfig(q) \in SUBSET Rules
BY QueryFacts DEF resolveSkipConfig, Rules

\* Every set of skips that are due has a first one.
LEMMA FirstSkip ==
    ASSUME NEW due \in SUBSET Rules, due # {}
    PROVE  \E rule \in due : \A other \in due : SkipOrder[rule] <= SkipOrder[other]
<1>1. SkipOrder["freeze"] = 1 /\ SkipOrder["wind"] = 2 /\ SkipOrder["rain"] = 3
  BY DEF SkipOrder
<1>2. CASE "freeze" \in due
  BY <1>1, <1>2 DEF Rules
<1>3. CASE "freeze" \notin due /\ "wind" \in due
  BY <1>1, <1>3 DEF Rules
<1>4. CASE "freeze" \notin due /\ "wind" \notin due
  <2>1. due = {"rain"}
    BY <1>4 DEF Rules
  <2> QED
    BY <1>1, <2>1
<1> QED
  BY <1>2, <1>3, <1>4

LEMMA SkipType ==
    ASSUME NEW weather \in Weathers, NEW cfg \in SUBSET Rules
    PROVE  evaluateSkips(weather, cfg) \in Rules \cup {None}
<1> DEFINE due == weather.signs \cap cfg
<1>1. due \in SUBSET Rules
  OBVIOUS
<1>2. CASE due = {}
  BY <1>2 DEF evaluateSkips
<1>3. CASE due # {}
  BY <1>1, <1>3, FirstSkip DEF evaluateSkips
<1> QED
  BY <1>2, <1>3

\* The overlay keeps where a decision came from.
LEMMA OverlayKeepsSource ==
    ASSUME NEW d \in Decisions, NEW weather \in Weathers \cup {None}, NEW cfg \in SUBSET Rules
    PROVE  LET final == applyWeatherSkips(d, weather, cfg)
           IN  final \in Decisions /\ final.by = d.by /\ final.bypassed = d.bypassed
<1>1. CASE weather = None \/ evaluateSkips(weather, cfg) = None
  BY <1>1 DEF applyWeatherSkips
<1>2. CASE ~(weather = None \/ evaluateSkips(weather, cfg) = None)
  <2>1. evaluateSkips(weather, cfg) \in Rules \cup {None}
    BY <1>2, SkipType
  <2>2. applyWeatherSkips(d, weather, cfg) =
          [d EXCEPT !.scale = 0, !.skip = evaluateSkips(weather, cfg)]
    BY <1>2 DEF applyWeatherSkips
  <2> QED
    BY <2>1, <2>2 DEF Decisions
<1> QED
  BY <1>1, <1>2
----------------------------------------------------------------------------
(* The inductive invariant, at a time t *)

EntrySound(q, e, t) ==
    /\ e \in Entries
    /\ Primary(q) \in Cacheable
    /\ e.decision.by \in {Primary(q), None}
    /\ DecisionSound(q, e.decision)
    /\ e.stored <= t
    /\ e.expires \in {Forever, EndOfDay(e.stored)}

\* The weather is of the place and the station, and not of the future.
WeatherSound(loc, pws, weather, t) ==
    /\ weather \in Weathers
    /\ weather.loc = loc
    /\ weather.pws = pws
    /\ weather.at <= t

MemoSound(k, m, t) ==
    /\ m \in MemoEntries
    /\ WeatherSound(k.loc, k.pws, m.weather, t)
    /\ m.expires <= m.weather.at + SkipTtl

CallSound(c, t) ==
    /\ c \in Calls
    /\ c.link \in Chain(c.query)
    /\ c.asked <= t
    /\ c.phase = "skips" => c.decision # None
    /\ c.decision # None => DecisionSound(c.query, c.decision)

\* The weather behind an answer to q at time t.
AnswerWeatherSound(q, weather, t) ==
    weather # None => WeatherSound(q.loc, q.pws, weather, t) /\ t - weather.at < SkipTtl

AnswerSound(a, t) ==
    /\ a \in Answers
    /\ a.decision.bypassed <=> HasStation(a.query) /\ a.decision.by \notin {PwsProvider, None}
    /\ AnswerWeatherSound(a.query, a.weather, t)

CacheInv ==
    /\ cache \in [Queries -> Entries \cup {None}]
    /\ \A q \in Queries : cache[q] # None => EntrySound(q, cache[q], clock)

MemoInv ==
    /\ memo \in [MemoKeys -> MemoEntries \cup {None}]
    /\ \A k \in MemoKeys : memo[k] # None => MemoSound(k, memo[k], clock)

CallInv ==
    /\ call \in [Requests -> Calls \cup {None}]
    /\ \A r \in Requests : call[r] # None => CallSound(call[r], clock)

AnswerInv == answer \in Answers \cup {None} /\ (answer # None => AnswerSound(answer, clock))

DecisionInv ==
    /\ clock \in 0 .. LastSecond
    /\ CacheInv
    /\ MemoInv
    /\ CallInv
    /\ AnswerInv

LEMMA DecisionInit == Init => DecisionInv
<1> SUFFICES ASSUME Init PROVE DecisionInv
  OBVIOUS
<1> USE DEF Init
<1>1. clock \in 0 .. LastSecond
  BY DecisionAssumption
<1>2. CacheInv
  BY DEF CacheInv
<1>3. MemoInv
  BY DEF MemoInv
<1>4. CallInv
  BY DEF CallInv
<1>5. AnswerInv
  BY DEF AnswerInv
<1> QED
  BY <1>1, <1>2, <1>3, <1>4, <1>5 DEF DecisionInv
----------------------------------------------------------------------------
(* What the parts of a step keep *)

\* Storing a decision whose source is the provider at place i of the chain, or
\* no provider: only the primary's reaches the cache.
LEMMA StoreKeepsCache ==
    ASSUME CacheInv, NEW q \in Queries, NEW servedIndex, NEW d, clock \in Nat,
           DecisionSound(q, d),
           ~servedFallback(servedIndex) => d.by \in {Primary(q), None},
           storeWateringScale(q, servedIndex, d), clock' = clock
    PROVE  CacheInv'
<1> DEFINE stores == shouldCacheWateringScale(q) /\ ~servedFallback(servedIndex)
           e == [decision |-> d, stored |-> clock, expires |-> Expiry(EndOfDay(clock) - clock)]
<1>1. CASE ~stores
  BY <1>1 DEF storeWateringScale, CacheInv, EntrySound
<1>2. CASE stores
  <2>1. EndOfDay(clock) \in Nat /\ clock <= EndOfDay(clock)
    BY DayFacts
  <2>2. Expiry(EndOfDay(clock) - clock) \in {Forever, EndOfDay(clock)}
    BY <2>1 DEF Expiry
  <2>3. e \in Entries
    BY <2>1, <2>2 DEF Entries, DecisionSound
  <2>4. EntrySound(q, e, clock)
    BY <1>2, <2>2, <2>3 DEF EntrySound, shouldCacheWateringScale
  <2>5. cache' = [cache EXCEPT ![q] = e]
    BY <1>2 DEF storeWateringScale
  <2> HIDE DEF e
  <2>6. cache' \in [Queries -> Entries \cup {None}]
    BY <2>3, <2>5 DEF CacheInv
  <2>7. ASSUME NEW p \in Queries, cache'[p] # None
        PROVE  EntrySound(p, cache'[p], clock)
    <3>1. CASE p = q
      BY <2>4, <2>5, <3>1 DEF CacheInv
    <3>2. CASE p # q
      BY <2>5, <2>7, <3>2 DEF CacheInv
    <3> QED
      BY <3>1, <3>2
  <2> QED
    BY <2>6, <2>7 DEF CacheInv, EntrySound
<1> QED
  BY <1>1, <1>2

LEMMA EndingACallKeepsCalls ==
    ASSUME CallInv, NEW r \in Requests, call' = [call EXCEPT ![r] = None], clock' = clock
    PROVE  CallInv'
BY DEF CallInv, CallSound

LEMMA ChangingACallKeepsCalls ==
    ASSUME CallInv, NEW r \in Requests, NEW c, CallSound(c, clock),
           call' = [call EXCEPT ![r] = c], clock' = clock
    PROVE  CallInv'
<1>1. c \in Calls
  BY DEF CallSound
<1>2. call' \in [Requests -> Calls \cup {None}]
  BY <1>1 DEF CallInv
<1>3. ASSUME NEW p \in Requests, call'[p] # None PROVE CallSound(call'[p], clock)
  <2>1. CASE p = r
    BY <2>1 DEF CallInv
  <2>2. CASE p # r
    BY <1>3, <2>2 DEF CallInv
  <2> QED
    BY <2>1, <2>2
<1> QED
  BY <1>2, <1>3 DEF CallInv, CallSound

LEMMA RespondKeeps ==
    ASSUME CallInv, NEW r \in Requests, NEW q \in Queries, NEW servedIndex \in Int, NEW d,
           NEW hit \in BOOLEAN, NEW weather,
           DecisionSound(q, d), AnswerWeatherSound(q, weather, clock),
           Respond(r, q, servedIndex, d, hit, weather), clock' = clock
    PROVE  CallInv' /\ AnswerInv'
<1> DEFINE final == applyWeatherSkips(d, weather, resolveSkipConfig(q))
<1>1. CallInv'
  BY EndingACallKeepsCalls DEF Respond
<1>2. weather \in Weathers \cup {None}
  BY DEF AnswerWeatherSound, WeatherSound
<1>3. final \in Decisions /\ final.by = d.by /\ final.bypassed = d.bypassed
  BY <1>2, ConfigType, OverlayKeepsSource DEF DecisionSound
<1>4. /\ answer' \in Answers
      /\ answer'.query = q
      /\ answer'.decision = final
      /\ answer'.weather = weather
  <2>1. servedFallback(servedIndex) \in BOOLEAN /\ pwsBypassed(q, servedIndex) \in BOOLEAN
    BY DEF servedFallback, pwsBypassed, HasStation
  <2>2. (q.checkRestrictions /\ final.skip # None) \in BOOLEAN
    BY QueryFacts
  <2> HIDE DEF final
  <2>3. answer' = [query |-> q, decision |-> final, hit |-> hit,
                   servedFallback |-> servedFallback(servedIndex),
                   pwsBypassed |-> pwsBypassed(q, servedIndex),
                   restricted |-> q.checkRestrictions /\ final.skip # None,
                   weather |-> weather]
    BY DEF Respond, final
  <2> QED
    BY <1>2, <1>3, <2>1, <2>2, <2>3 DEF Answers
<1>5. AnswerSound(answer', clock)
  <2> HIDE DEF final
  <2> QED
    BY <1>3, <1>4 DEF AnswerSound, DecisionSound
<1>6. AnswerInv'
  BY <1>4, <1>5 DEF AnswerInv, AnswerSound
<1> QED
  BY <1>1, <1>6

LEMMA MemoKeyFacts ==
    ASSUME NEW q \in Queries
    PROVE  /\ skipMemoKey(q) \in MemoKeys
           /\ skipMemoKey(q).loc = q.loc
           /\ skipMemoKey(q).pws = q.pws
BY DEF MemoKeys, skipMemoKey

\* A memo entry is used only while its weather is younger than the time to
\* live, and only for the place and station it was fetched for.
LEMMA MemoHitIsSound ==
    ASSUME MemoInv, clock \in Nat, NEW q \in Queries, MemoHit(q)
    PROVE  AnswerWeatherSound(q, memo[skipMemoKey(q)].weather, clock)
<1> DEFINE m == memo[skipMemoKey(q)]
<1>1. m # None /\ m.expires > clock
  BY DEF MemoHit
<1>2. MemoSound(skipMemoKey(q), m, clock)
  BY <1>1, MemoKeyFacts DEF MemoInv
<1>3. m.weather.at \in Nat /\ m.expires \in Nat /\ SkipTtl \in Nat
  BY <1>2, DecisionAssumption DEF MemoSound, WeatherSound, MemoEntries, Weathers
<1> HIDE DEF m
<1>4. clock - m.weather.at < SkipTtl
  BY <1>1, <1>2, <1>3 DEF MemoSound
<1>5. WeatherSound(q.loc, q.pws, m.weather, clock)
  BY <1>2, MemoKeyFacts DEF MemoSound
<1>6. AnswerWeatherSound(q, m.weather, clock)
  BY <1>4, <1>5 DEF AnswerWeatherSound
<1> QED
  BY <1>6 DEF m

LEMMA OverlayKeeps ==
    ASSUME CallInv, MemoInv, clock \in Nat, NEW r \in Requests, NEW q \in Queries,
           NEW servedIndex \in Int, NEW d, NEW hit \in BOOLEAN, DecisionSound(q, d),
           Overlay(r, q, servedIndex, d, hit), clock' = clock
    PROVE  CallInv' /\ AnswerInv'
<1>1. CASE resolveSkipConfig(q) = {}
  <2>1. Respond(r, q, servedIndex, d, hit, None)
    BY <1>1 DEF Overlay
  <2>2. AnswerWeatherSound(q, None, clock)
    BY DEF AnswerWeatherSound
  <2> QED
    BY <2>1, <2>2, RespondKeeps
<1>2. CASE resolveSkipConfig(q) # {} /\ MemoHit(q)
  <2>1. Respond(r, q, servedIndex, d, hit, memo[skipMemoKey(q)].weather)
    BY <1>2 DEF Overlay
  <2>2. AnswerWeatherSound(q, memo[skipMemoKey(q)].weather, clock)
    BY <1>2, MemoHitIsSound
  <2> QED
    BY <2>1, <2>2, RespondKeeps
<1>3. CASE resolveSkipConfig(q) # {} /\ ~MemoHit(q)
  <2> DEFINE c == [query |-> q, phase |-> "skips", link |-> 0, servedIndex |-> servedIndex,
                   decision |-> d, hit |-> hit, asked |-> clock]
  <2>1. call' = [call EXCEPT ![r] = c] /\ answer' = None
    BY <1>3 DEF Overlay
  <2>2. d # None
    BY OptionAssumption DEF DecisionSound
  <2>3. CallSound(c, clock)
    BY <2>2, PrimaryIsFirst DEF CallSound, Calls, DecisionSound
  <2> HIDE DEF c
  <2> QED
    BY <2>1, <2>3, ChangingACallKeepsCalls DEF AnswerInv
<1> QED
  BY <1>1, <1>2, <1>3

\* The same for a decision that no provider served.
LEMMA UnservedOverlayKeeps ==
    ASSUME CallInv, MemoInv, clock \in Nat, NEW r \in Requests, NEW q \in Queries,
           NEW d, NEW hit \in BOOLEAN, DecisionSound(q, d),
           Overlay(r, q, -1, d, hit), clock' = clock
    PROVE  CallInv' /\ AnswerInv'
<1>1. PICK servedIndex \in Int : servedIndex = -1
  OBVIOUS
<1>2. Overlay(r, q, servedIndex, d, hit)
  BY <1>1
<1> QED
  BY <1>2, OverlayKeeps
----------------------------------------------------------------------------
(* Every step keeps the invariant *)

\* Time only passes: nothing is of the future, and no answer is sent.
LEMMA TickKeeps ==
    ASSUME DecisionInv, Tick
    PROVE  DecisionInv'
<1>1. clock \in Nat /\ clock' = clock + 1 /\ clock' \in 0 .. LastSecond
  BY DecisionAssumption DEF DecisionInv, Tick
<1>2. CacheInv'
  <2>1. ASSUME NEW q \in Queries, NEW e, EntrySound(q, e, clock)
        PROVE  EntrySound(q, e, clock + 1)
    BY <1>1, <2>1 DEF EntrySound, Entries
  <2> QED
    BY <1>1, <2>1 DEF DecisionInv, CacheInv, Tick
<1>3. MemoInv'
  <2>1. ASSUME NEW k, NEW m, MemoSound(k, m, clock) PROVE MemoSound(k, m, clock + 1)
    <3>1. m.weather.at \in Nat
      BY <2>1 DEF MemoSound, WeatherSound, Weathers
    <3> QED
      BY <1>1, <2>1, <3>1 DEF MemoSound, WeatherSound
  <2> QED
    BY <1>1, <2>1 DEF DecisionInv, MemoInv, Tick
<1>4. CallInv'
  <2>1. ASSUME NEW c, CallSound(c, clock) PROVE CallSound(c, clock + 1)
    BY <1>1, <2>1 DEF CallSound, Calls
  <2> QED
    BY <1>1, <2>1 DEF DecisionInv, CallInv, Tick
<1>5. AnswerInv'
  BY DEF Tick, AnswerInv
<1> QED
  BY <1>1, <1>2, <1>3, <1>4, <1>5 DEF DecisionInv

LEMMA StepKeepsInv == DecisionInv /\ [Next]_decisionVars => DecisionInv'
<1> SUFFICES ASSUME DecisionInv, [Next]_decisionVars PROVE DecisionInv'
  OBVIOUS
<1>0. /\ clock \in Nat /\ clock \in 0 .. LastSecond
      /\ CacheInv /\ MemoInv /\ CallInv /\ AnswerInv
  BY DecisionAssumption DEF DecisionInv
<1>1. ASSUME NEW r \in Requests, NEW q \in Queries, BeginCached(r, q) PROVE DecisionInv'
  <2>1. EntrySound(q, cache[q], clock)
    BY <1>0, <1>1 DEF BeginCached, MayHit, CacheInv
  <2>2. CallInv' /\ AnswerInv'
    BY <1>0, <1>1, <2>1, UnservedOverlayKeeps DEF BeginCached, EntrySound
  <2> QED
    BY <1>0, <1>1, <2>2 DEF DecisionInv, BeginCached, CacheInv, MemoInv
<1>2. ASSUME NEW r \in Requests, NEW q \in Queries, BeginFresh(r, q) PROVE DecisionInv'
  <2>1. clock' = clock /\ MemoInv'
    BY <1>0, <1>2 DEF BeginFresh, MemoInv
  <2>2. CASE q.method = "manual"
    <3>1. /\ storeWateringScale(q, -1, UnservedDecision(None))
          /\ Overlay(r, q, -1, UnservedDecision(None), FALSE)
      BY <1>2, <2>2 DEF BeginFresh
    <3>2. DecisionSound(q, UnservedDecision(None)) /\ UnservedDecision(None).by = None
      BY UnservedDecisionSound DEF UnservedDecision
    <3>3. CacheInv'
      BY <1>0, <2>1, <3>1, <3>2, StoreKeepsCache
    <3>4. CallInv' /\ AnswerInv'
      BY <1>0, <2>1, <3>1, <3>2, UnservedOverlayKeeps
    <3> QED
      BY <1>0, <2>1, <3>3, <3>4 DEF DecisionInv
  <2>3. CASE q.method # "manual"
    <3> DEFINE c == [query |-> q, phase |-> "method", link |-> 0, servedIndex |-> -1,
                     decision |-> None, hit |-> FALSE, asked |-> 0]
    <3>1. call' = [call EXCEPT ![r] = c] /\ answer' = None /\ cache' = cache
      BY <1>2, <2>3 DEF BeginFresh
    <3>2. CallSound(c, clock)
      BY <1>0, PrimaryIsFirst DEF CallSound, Calls
    <3> HIDE DEF c
    <3>3. CallInv'
      BY <1>0, <2>1, <3>1, <3>2, ChangingACallKeepsCalls
    <3> QED
      BY <1>0, <2>1, <3>1, <3>3 DEF DecisionInv, CacheInv, AnswerInv
  <2> QED
    BY <2>2, <2>3
<1>3. ASSUME NEW r \in Requests, FallThrough(r) PROVE DecisionInv'
  <2>1. PICK next \in NextIn(call[r].query, call[r].link) :
            call' = [call EXCEPT ![r].link = next]
    BY <1>3 DEF FallThrough
  <2> DEFINE c == [call[r] EXCEPT !.link = next]
  <2>2. CallSound(call[r], clock)
    BY <1>0, <1>3 DEF FallThrough, CallInv
  <2>3. next \in Chain(call[r].query) /\ next \in Nat
    <3>1. call[r].query \in Queries /\ call[r].link \in Chain(call[r].query)
      BY <2>2 DEF CallSound, Calls
    <3>2. next \in Chain(call[r].query)
      BY <2>1, <3>1, ChainFacts
    <3> QED
      BY <3>1, <3>2, ChainFacts
  <2>4. CallSound(c, clock)
    BY <2>2, <2>3 DEF CallSound, Calls
  <2>5. call' = [call EXCEPT ![r] = c]
    BY <1>0, <2>1 DEF CallInv
  <2> HIDE DEF c
  <2>6. CallInv'
    BY <1>0, <1>3, <2>4, <2>5, ChangingACallKeepsCalls DEF FallThrough
  <2> QED
    BY <1>0, <1>3, <2>6 DEF DecisionInv, FallThrough, CacheInv, MemoInv, AnswerInv
<1>4. ASSUME NEW r \in Requests, MethodThrows(r) PROVE DecisionInv'
  <2>1. CallInv'
    BY <1>0, <1>4, EndingACallKeepsCalls DEF MethodThrows
  <2> QED
    BY <1>0, <1>4, <2>1 DEF DecisionInv, MethodThrows, CacheInv, MemoInv, AnswerInv
<1>5. ASSUME NEW r \in Requests, SkipsThrow(r) PROVE DecisionInv'
  <2>1. CallSound(call[r], clock) /\ call[r].phase = "skips"
    BY <1>0, <1>5 DEF SkipsThrow, CallInv
  <2>2. /\ call[r].query \in Queries
        /\ call[r].servedIndex \in Int
        /\ call[r].hit \in BOOLEAN
        /\ DecisionSound(call[r].query, call[r].decision)
    BY <2>1 DEF CallSound, Calls
  <2>3. AnswerWeatherSound(call[r].query, None, clock)
    BY DEF AnswerWeatherSound
  <2>4. CallInv' /\ AnswerInv'
    BY <1>0, <1>5, <2>2, <2>3, RespondKeeps DEF SkipsThrow
  <2> QED
    BY <1>0, <1>5, <2>4 DEF DecisionInv, SkipsThrow, CacheInv, MemoInv
<1>6. ASSUME NEW r \in Requests, NEW scale \in Scales, MethodReturns(r, scale)
      PROVE  DecisionInv'
  <2> DEFINE q == call[r].query
             i == call[r].link
             d == MethodDecision(q, i, scale)
  <2>1. CallSound(call[r], clock)
    BY <1>0, <1>6 DEF MethodReturns, CallInv
  <2>2. q \in Queries /\ i \in Chain(q) /\ i \in Int
    BY <2>1 DEF CallSound, Calls
  <2>3. DecisionSound(q, d)
    BY <2>2, MethodDecisionSound
  <2>4. ~servedFallback(i) => d.by \in {Primary(q), None}
    BY <2>2, ChainFacts DEF servedFallback, MethodDecision
  <2>5. /\ storeWateringScale(q, i, d)
        /\ Overlay(r, q, i, d, FALSE)
        /\ clock' = clock /\ memo' = memo
    BY <1>6 DEF MethodReturns
  <2> HIDE DEF q, i, d
  <2>6. CacheInv'
    BY <1>0, <2>2, <2>3, <2>4, <2>5, StoreKeepsCache
  <2>7. CallInv' /\ AnswerInv'
    BY <1>0, <2>2, <2>3, <2>5, OverlayKeeps
  <2> QED
    BY <1>0, <2>5, <2>6, <2>7 DEF DecisionInv, MemoInv
<1>7. ASSUME NEW r \in Requests, NEW scale \in Scales, MethodHolds(r, scale)
      PROVE  DecisionInv'
  <2> DEFINE q == call[r].query
             d == UnservedDecision(scale)
  <2>1. q \in Queries
    BY <1>0, <1>7 DEF MethodHolds, CallInv, CallSound, Calls
  <2>2. DecisionSound(q, d) /\ d.by = None
    BY <2>1, UnservedDecisionSound DEF UnservedDecision
  <2>3. /\ storeWateringScale(q, -1, d)
        /\ Overlay(r, q, -1, d, FALSE)
        /\ clock' = clock /\ memo' = memo
    BY <1>7 DEF MethodHolds
  <2> HIDE DEF q, d
  <2>4. CacheInv'
    BY <1>0, <2>1, <2>2, <2>3, StoreKeepsCache
  <2>5. CallInv' /\ AnswerInv'
    BY <1>0, <2>1, <2>2, <2>3, UnservedOverlayKeeps
  <2> QED
    BY <1>0, <2>3, <2>4, <2>5 DEF DecisionInv, MemoInv
<1>8. ASSUME NEW r \in Requests, NEW signs \in SkipSigns, SkipsReturn(r, signs)
      PROVE  DecisionInv'
  <2> DEFINE c == call[r]
             q == c.query
             weather == [signs |-> signs, by |-> ProviderAt(q, c.link), loc |-> q.loc,
                         pws |-> q.pws, at |-> clock]
             m == [weather |-> weather, expires |-> c.asked + SkipTtl]
  <2>1. CallSound(c, clock) /\ c.phase = "skips"
    BY <1>0, <1>8 DEF SkipsReturn, CallInv
  <2>2. /\ q \in Queries /\ c.link \in Chain(q) /\ c.link \in Int
        /\ c.hit \in BOOLEAN
        /\ DecisionSound(q, c.decision)
        /\ c.asked \in Nat /\ c.asked <= clock
    BY <2>1 DEF CallSound, Calls
  <2>3. /\ memo' = [memo EXCEPT ![skipMemoKey(q)] = m]
        /\ Respond(r, q, c.link, c.decision, c.hit, weather)
        /\ clock' = clock /\ cache' = cache
    BY <1>8 DEF SkipsReturn
  <2>4. WeatherSound(q.loc, q.pws, weather, clock) /\ weather.at = clock
    <3>1. ProviderAt(q, c.link) \in Instances
      BY <2>2, ChainFacts
    <3>2. q.loc \in Locations /\ q.pws \in PwsIds \cup {KeyOnly, None}
      BY <2>2, QueryFacts
    <3> HIDE DEF c, q
    <3> QED
      BY <1>0, <3>1, <3>2 DEF WeatherSound, Weathers
  <2> HIDE DEF weather
  <2>5. AnswerWeatherSound(q, weather, clock)
    BY <1>0, <2>4, DecisionAssumption DEF AnswerWeatherSound
  <2>6. CallInv' /\ AnswerInv'
    <3> HIDE DEF c, q
    <3> QED
      BY <1>0, <2>2, <2>3, <2>5, RespondKeeps
  <2>7. MemoSound(skipMemoKey(q), m, clock)
    <3>1. m \in MemoEntries
      BY <2>2, <2>4, DecisionAssumption DEF MemoEntries, WeatherSound
    <3>2. m.expires <= weather.at + SkipTtl
      BY <1>0, <2>2, <2>4, DecisionAssumption
    <3> QED
      BY <2>2, <2>4, <3>1, <3>2, MemoKeyFacts DEF MemoSound
  <2>8. MemoInv'
    <3>1. skipMemoKey(q) \in MemoKeys /\ m \in MemoEntries
      BY <2>2, <2>7, MemoKeyFacts DEF MemoSound
    <3> HIDE DEF c, q, m
    <3>2. memo' \in [MemoKeys -> MemoEntries \cup {None}]
      BY <1>0, <2>3, <3>1 DEF MemoInv
    <3>3. ASSUME NEW k \in MemoKeys, memo'[k] # None PROVE MemoSound(k, memo'[k], clock)
      <4>1. CASE k = skipMemoKey(q)
        BY <1>0, <2>3, <2>7, <4>1 DEF MemoInv
      <4>2. CASE k # skipMemoKey(q)
        BY <1>0, <2>3, <3>3, <4>2 DEF MemoInv
      <4> QED
        BY <4>1, <4>2
    <3> QED
      BY <2>3, <3>2, <3>3 DEF MemoInv, MemoSound, WeatherSound
  <2> QED
    BY <1>0, <2>3, <2>6, <2>8 DEF DecisionInv, CacheInv
<1>9. CASE Tick
  BY <1>9, TickKeeps
<1>10. CASE UNCHANGED decisionVars
  BY <1>0, <1>10 DEF decisionVars, DecisionInv, CacheInv, MemoInv, CallInv, AnswerInv
<1> QED
  BY <1>1, <1>2, <1>3, <1>4, <1>5, <1>6, <1>7, <1>8, <1>9, <1>10 DEF Next

LEMMA Invariant == Spec => []DecisionInv
BY DecisionInit, StepKeepsInv, PTL DEF Spec
----------------------------------------------------------------------------
(* The theorems *)

\* The cache, the memo, the calls in flight and the answer are well typed, and
\* a call that waits asks a provider of its chain (weather.ts:378-439).
THEOREM DecisionTypeCorrect == Spec => []TypeOK
<1>1. DecisionInv => TypeOK
  BY DEF DecisionInv, CacheInv, MemoInv, CallInv, CallSound, AnswerInv, TypeOK
<1> QED
  BY Invariant, <1>1, PTL

\* What a fallback served never reaches the cache, whatever calls overlap
\* (weather.ts:414).
THEOREM FallbackIsNotPinned == Spec => []OnlyPrimaryIsCached
<1>1. DecisionInv => OnlyPrimaryIsCached
  BY DEF DecisionInv, CacheInv, EntrySound, OnlyPrimaryIsCached
<1> QED
  BY Invariant, <1>1, PTL

\* A cached scale that has a time to live is of the local day it answers on,
\* for every length of the day (WateringScaleCache.ts:30-33).
THEOREM CacheEndsWithTheDay == Spec => []CachedScaleIsOfToday
<1>1. DecisionInv => CachedScaleIsOfToday
  <2> SUFFICES ASSUME DecisionInv, NEW q \in Queries, MayHit(cache[q]),
                      cache[q].expires # Forever
               PROVE  Day(cache[q].stored) = Day(clock)
    BY DEF CachedScaleIsOfToday
  <2>1. EntrySound(q, cache[q], clock)
    BY DEF DecisionInv, CacheInv, MayHit
  <2>2. /\ clock \in Nat /\ cache[q].stored \in Nat
        /\ cache[q].stored <= clock /\ clock <= EndOfDay(cache[q].stored)
    BY <2>1, DecisionAssumption DEF EntrySound, Entries, MayHit, DecisionInv
  <2> QED
    BY <2>2, SameDay
<1> QED
  BY Invariant, <1>1, PTL

\* A skip is remembered neither in the cache nor in a call that waits for its
\* weather (SkipGuard.ts:60-81).
THEOREM SkipsAreLive == Spec => []SkipIsNotPinned
<1>1. DecisionInv => SkipIsNotPinned
  BY DEF DecisionInv, CacheInv, EntrySound, CallInv, CallSound, DecisionSound, SkipIsNotPinned
<1> QED
  BY Invariant, <1>1, PTL

\* The weather behind an answer is younger than the memo's time to live, though
\* a slow fetch is kept from when it was asked (SkipGuard.ts:45-56).
THEOREM SkipWeatherStaysFresh == Spec => []SkipWeatherIsFresh
<1>1. DecisionInv => SkipWeatherIsFresh
  BY DEF DecisionInv, AnswerInv, AnswerSound, AnswerWeatherSound, SkipWeatherIsFresh
<1> QED
  BY Invariant, <1>1, PTL

\* The memo never serves the weather of another place or station
\* (SkipGuard.ts:25-35).
THEOREM SkipWeatherStaysHome == Spec => []SkipWeatherIsOfOwnPlace
<1>1. DecisionInv => SkipWeatherIsOfOwnPlace
  BY DEF DecisionInv, AnswerInv, AnswerSound, AnswerWeatherSound, WeatherSound,
     SkipWeatherIsOfOwnPlace
<1> QED
  BY Invariant, <1>1, PTL

\* On every path the raw data of an answer mark a bypassed station exactly when
\* another provider served its scale (weather.ts:407-413).
THEOREM BypassIsAlwaysVisible == Spec => []BypassIsVisible
<1>1. DecisionInv => BypassIsVisible
  BY DEF DecisionInv, AnswerInv, AnswerSound, BypassIsVisible
<1> QED
  BY Invariant, <1>1, PTL
============================================================================
