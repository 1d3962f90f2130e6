-------------------------- MODULE EToAdjustment_proofs --------------------------
(***************************************************************************)
(* Proofs about the forecasts of the ETo method: for any number of calls,   *)
(* places and lengths of the fresh and stale windows, a forecast that is    *)
(* served is as young as the cache promises.                                *)
(***************************************************************************)
EXTENDS EToAdjustment, TLAPS

Entries == [data : Forecasts, fetchedAt : Nat]

\* The key a call waits for.
CallSound(r) == r.step \in {"weather", "forecast"} => r.asked.key \in Keys

\* The cache holds the last fetch of a key at least as long as it may be served.
Holds(entry, last, time) ==
    /\ entry # None => last = entry.fetchedAt
    /\ last # None =>
          /\ last \in Nat
          /\ last <= time
          /\ time - last <= StaleTtl => entry # None

CacheInv ==
    /\ now \in Nat
    /\ cache \in [Keys -> Entries \cup {None}]
    /\ fetched = [key \in Keys |-> fetched[key]]
    /\ call = [c \in Calls |-> call[c]]
    /\ \A c \in Calls : CallSound(call[c])
    /\ \A key \in Keys : Holds(cache[key], fetched[key], now)

LEMMA NoneIsNothing ==
    /\ None \notin Entries
    /\ None \notin Nat
    /\ None \notin Forecasts
    /\ None \notin ForecastType
  BY EToAssumption DEF Entries

LEMMA CacheInit ==
    ASSUME Init
    PROVE  CacheInv
  <1>1. call = [c \in Calls |-> call[c]] /\ \A c \in Calls : call[c] = Idle
    BY DEF Init
  <1>2. \A c \in Calls : CallSound(call[c])
    BY <1>1 DEF CallSound, Idle
  <1>3. cache = [key \in Keys |-> None] /\ fetched = [key \in Keys |-> None] /\ now = 0
    BY DEF Init
  <1>4. \A key \in Keys : Holds(cache[key], fetched[key], now)
    BY <1>3 DEF Holds
  <1>5. QED
    BY <1>1, <1>2, <1>3, <1>4 DEF CacheInv

\* Sweeping an entry that is too old loses nothing that may be served.
LEMMA SweptHolds ==
    ASSUME CacheInv, NEW key \in Keys
    PROVE  /\ Swept(key) \in [Keys -> Entries \cup {None}]
           /\ \A k \in Keys : Holds(Swept(key)[k], fetched[k], now)
  <1>1. CASE LooksUp(key)
    BY <1>1 DEF Swept, CacheInv
  <1>2. CASE ~LooksUp(key)
    <2>1. Swept(key) = [cache EXCEPT ![key] = None]
      BY <1>2 DEF Swept
    <2>2. PICK new : new = Swept(key)
      OBVIOUS
    <2>3. /\ new \in [Keys -> Entries \cup {None}] /\ new[key] = None
          /\ \A k \in Keys : k # key => new[k] = cache[k]
      BY <2>1, <2>2 DEF CacheInv
    <2>4. Holds(new[key], fetched[key], now)
      <3>1. Holds(cache[key], fetched[key], now)
        BY DEF CacheInv
      <3>2. CASE cache[key] = None
        BY <2>3, <3>1, <3>2
      <3>3. CASE cache[key] # None
        <4>1. fetched[key] = cache[key].fetchedAt
          BY <3>1, <3>3 DEF Holds
        <4>2. cache[key].fetchedAt \in Nat
          BY <3>3 DEF CacheInv, Entries
        <4>3. ~(now - cache[key].fetchedAt <= StaleTtl)
          BY <1>2, <3>3 DEF LooksUp, Age
        <4>4. QED
          BY <2>3, <3>1, <4>1, <4>2, <4>3 DEF Holds
      <3>4. QED
        BY <3>2, <3>3
    <2>5. QED
      BY <2>2, <2>3, <2>4 DEF CacheInv
  <1>3. QED
    BY <1>1, <1>2

\* An entry that is found is the last fetch, and no older than the window.
LEMMA LooksUpFacts ==
    ASSUME CacheInv, NEW key \in Keys
    PROVE  /\ LooksUp(key) => /\ cache[key].data \in Forecasts
                              /\ Age(key) <= StaleTtl
                              /\ fetched[key] \in Nat /\ Age(key) = now - fetched[key]
           /\ ~LooksUp(key) => fetched[key] = None \/ now - fetched[key] > StaleTtl
  <1>1. Holds(cache[key], fetched[key], now) /\ cache[key] \in Entries \cup {None} /\ now \in Nat
    BY DEF CacheInv
  <1>2. CASE cache[key] = None
    <2>1. fetched[key] = None \/ (fetched[key] \in Nat /\ ~(now - fetched[key] <= StaleTtl))
      BY <1>1, <1>2 DEF Holds
    <2>2. fetched[key] = None \/ now - fetched[key] > StaleTtl
      BY <1>1, <2>1, EToAssumption
    <2>3. QED
      BY <1>2, <2>2 DEF LooksUp
  <1>3. CASE cache[key] # None
    <2>1. cache[key].data \in Forecasts /\ cache[key].fetchedAt \in Nat
      BY <1>1, <1>3 DEF Entries
    <2>2. fetched[key] = cache[key].fetchedAt
      BY <1>1, <1>3 DEF Holds
    <2>3. QED
      BY <1>1, <1>3, <2>1, <2>2, EToAssumption DEF LooksUp, Age
  <1>4. QED
    BY <1>2, <1>3
----------------------------------------------------------------------------
(* The steps *)

\* What the two properties say of one call in one step.
UsableAt(c) ==
    Answers(c) /\ ENABLE_FORECAST /\ call'[c].asked.child # None =>
       LET a == call'[c]
           key == a.asked.key
       IN  IF a.forecast # None
           THEN a.age <= FreshTtl \/ (a.fetch = "failed" /\ Fetching(c) /\ a.age <= StaleTtl)
           ELSE /\ a.fetch = "failed" /\ Fetching(c)
                /\ a.asked.child = "local" =>
                      fetched[key] = None \/ now - fetched[key] > StaleTtl

FetchesAt(c) ==
    (~Fetching(c) /\ Fetching(c)' /\ call'[c].asked.child = "local") =>
       LET key == call'[c].asked.key
       IN  fetched[key] = None \/ now - fetched[key] > FreshTtl

StepSound ==
    /\ CacheInv'
    /\ \A c \in Calls : UsableAt(c) /\ FetchesAt(c)

\* A step of one call that leaves the cache sound is sound if its own part is.
LEMMA OneCall ==
    ASSUME CacheInv, NEW c \in Calls, NEW r, call' = [call EXCEPT ![c] = r],
           CallSound(r), now' = now,
           cache' \in [Keys -> Entries \cup {None}],
           fetched' = [key \in Keys |-> fetched'[key]],
           \A key \in Keys : Holds(cache'[key], fetched'[key], now),
           UsableAt(c), FetchesAt(c)
    PROVE  StepSound
  <1>1. call = [b \in Calls |-> call[b]]
    BY DEF CacheInv
  <1>2. PICK after : after = call'
    OBVIOUS
  <1>3. /\ after = [b \in Calls |-> after[b]]
        /\ after[c] = r
        /\ \A b \in Calls : b # c => after[b] = call[b]
    BY <1>1, <1>2
  <1>4. \A b \in Calls : CallSound(after[b])
    BY <1>3 DEF CacheInv
  <1>5. CacheInv'
    BY <1>2, <1>3, <1>4 DEF CacheInv, CallSound
  <1>6. \A b \in Calls : b # c => call'[b] = call[b]
    BY <1>2, <1>3
  <1>7. \A b \in Calls : b # c => UsableAt(b) /\ FetchesAt(b)
    BY <1>6 DEF UsableAt, FetchesAt, Answers, Fetching
  <1>8. QED
    BY <1>5, <1>7 DEF StepSound

LEMMA CacheAlone ==
    ASSUME CacheInv, UNCHANGED <<now, cache, fetched>>
    PROVE  /\ now' = now /\ cache' \in [Keys -> Entries \cup {None}]
           /\ fetched' = [key \in Keys |-> fetched'[key]]
           /\ \A key \in Keys : Holds(cache'[key], fetched'[key], now)
  BY DEF CacheInv

\* The record of a call after a step of that call.
LEMMA OwnRecord ==
    ASSUME CacheInv, NEW c \in Calls, NEW r, call' = [call EXCEPT ![c] = r]
    PROVE  call'[c] = r
  <1>1. call = [b \in Calls |-> call[b]]
    BY DEF CacheInv
  <1>2. QED
    BY <1>1

LEMMA BeginsStep ==
    ASSUME CacheInv, NEW c \in Calls, Begins(c)
    PROVE  StepSound
  <1>1. PICK key \in Keys, chain \in Chains, settings \in Settings :
           call' = [call EXCEPT ![c] =
                      IF settings.baseETo = None \/ settings.baseETo <= 0 THEN Refused
                      ELSE [step |-> "weather", asked |-> Asked(key, forecastChild(chain), settings)]]
    BY DEF Begins
  <1>2. PICK r : r = IF settings.baseETo = None \/ settings.baseETo <= 0 THEN Refused
                     ELSE [step |-> "weather", asked |-> Asked(key, forecastChild(chain), settings)]
    OBVIOUS
  <1>3. call' = [call EXCEPT ![c] = r]
    BY <1>1, <1>2
  <1>4. CallSound(r) /\ r.step \in {"refused", "weather"}
    BY <1>2 DEF CallSound, Refused, Asked
  <1>5. call'[c] = r
    BY <1>3, OwnRecord
  <1>6. UsableAt(c) /\ FetchesAt(c)
    BY <1>4, <1>5 DEF UsableAt, FetchesAt, Answers, Fetching
  <1>7. UNCHANGED <<now, cache, fetched>>
    BY DEF Begins
  <1>8. QED
    BY <1>3, <1>4, <1>6, <1>7, CacheAlone, OneCall

LEMMA FailsStep ==
    ASSUME CacheInv, NEW c \in Calls, WeatherFails(c)
    PROVE  StepSound
  <1>1. call' = [call EXCEPT ![c] = Refused] /\ UNCHANGED <<now, cache, fetched>>
    BY DEF WeatherFails
  <1>2. call'[c] = Refused
    BY <1>1, OwnRecord
  <1>3. CallSound(Refused) /\ UsableAt(c) /\ FetchesAt(c)
    BY <1>2 DEF CallSound, Refused, UsableAt, FetchesAt, Answers, Fetching
  <1>4. QED
    BY <1>1, <1>3, CacheAlone, OneCall

LEMMA WeatherStep ==
    ASSUME CacheInv, NEW c \in Calls, WeatherReturns(c)
    PROVE  StepSound
  <1>1. PICK asked : asked = call[c].asked
    OBVIOUS
  <1>2. call[c].step = "weather" /\ asked.key \in Keys /\ now' = now /\ fetched' = fetched
    BY <1>1 DEF WeatherReturns, CacheInv, CallSound
  <1>3. ~Fetching(c)
    BY <1>2 DEF Fetching
  <1>4. ASSUME NEW d \in Days, asked.child = None \/ ~ENABLE_FORECAST,
               call' = [call EXCEPT ![c] = Answer(asked, d, None, 0, "none")], UNCHANGED cache
        PROVE  StepSound
    <2>1. PICK r : r = Answer(asked, d, None, 0, "none")
      OBVIOUS
    <2>2. r.step = "answered" /\ r.asked = asked /\ call' = [call EXCEPT ![c] = r]
      BY <1>4, <2>1 DEF Answer
    <2>3. call'[c] = r
      BY <2>2, OwnRecord
    <2>4. CallSound(r) /\ UsableAt(c) /\ FetchesAt(c)
      BY <1>4, <2>2, <2>3 DEF CallSound, UsableAt, FetchesAt, Fetching
    <2>5. QED
      BY <1>2, <1>4, <2>2, <2>4, CacheAlone, OneCall
  <1>5. ASSUME NEW d \in Days, IsFresh(asked.key),
               call' = [call EXCEPT ![c] = Answer(asked, d, cache[asked.key].data, Age(asked.key), "none")],
               cache' = Swept(asked.key)
        PROVE  StepSound
    <2>1. PICK r : r = Answer(asked, d, cache[asked.key].data, Age(asked.key), "none")
      OBVIOUS
    <2>2. /\ r.step = "answered" /\ r.forecast = cache[asked.key].data /\ r.age = Age(asked.key)
          /\ call' = [call EXCEPT ![c] = r]
      BY <1>5, <2>1 DEF Answer
    <2>3. call'[c] = r
      BY <2>2, OwnRecord
    <2>4. r.forecast # None /\ r.age <= FreshTtl
      BY <1>2, <1>5, <2>2, LooksUpFacts, NoneIsNothing DEF IsFresh
    <2>5. CallSound(r) /\ UsableAt(c) /\ FetchesAt(c)
      BY <2>2, <2>3, <2>4 DEF CallSound, UsableAt, FetchesAt, Fetching
    <2>6. /\ cache' \in [Keys -> Entries \cup {None}]
          /\ \A key \in Keys : Holds(cache'[key], fetched'[key], now)
          /\ fetched' = [key \in Keys |-> fetched'[key]]
      BY <1>2, <1>5, SweptHolds DEF CacheInv
    <2>7. QED
      BY <1>2, <2>2, <2>5, <2>6, OneCall
  <1>6. ASSUME NEW d \in Days, NEW new, asked.child = "local" => ~IsFresh(asked.key),
               call' = [call EXCEPT ![c] = [step |-> "forecast", asked |-> asked, weather |-> d]],
               cache' = new, new \in {cache, Swept(asked.key)}
        PROVE  StepSound
    <2>1. PICK r : r = [step |-> "forecast", asked |-> asked, weather |-> d]
      OBVIOUS
    <2>2. r.step = "forecast" /\ r.asked = asked /\ call' = [call EXCEPT ![c] = r]
      BY <1>6, <2>1
    <2>3. call'[c] = r
      BY <2>2, OwnRecord
    <2>4. asked.child = "local" => fetched[asked.key] = None \/ now - fetched[asked.key] > FreshTtl
      <3>1. HAVE asked.child = "local"
      <3>2. CASE ~LooksUp(asked.key)
        <4>1. fetched[asked.key] = None \/ now - fetched[asked.key] > StaleTtl
          BY <1>2, <3>2, LooksUpFacts
        <4>2. fetched[asked.key] = None \/ fetched[asked.key] \in Nat
          BY <1>2 DEF CacheInv, Holds
        <4>3. QED
          BY <4>1, <4>2, EToAssumption DEF CacheInv
      <3>3. CASE LooksUp(asked.key)
        <4>1. ~(Age(asked.key) <= FreshTtl)
          BY <1>6, <3>1, <3>3 DEF IsFresh
        <4>2. fetched[asked.key] \in Nat /\ Age(asked.key) = now - fetched[asked.key] /\ now \in Nat
          BY <1>2, <3>3, LooksUpFacts DEF CacheInv
        <4>3. QED
          BY <4>1, <4>2, EToAssumption
      <3>4. QED
        BY <3>2, <3>3
    <2>5. CallSound(r) /\ UsableAt(c) /\ FetchesAt(c)
      BY <1>2, <2>2, <2>3, <2>4 DEF CallSound, UsableAt, FetchesAt, Answers
    <2>6. /\ cache' \in [Keys -> Entries \cup {None}]
          /\ \A key \in Keys : Holds(cache'[key], fetched'[key], now)
          /\ fetched' = [key \in Keys |-> fetched'[key]]
      BY <1>2, <1>6, SweptHolds DEF CacheInv
    <2>7. QED
      BY <1>2, <2>2, <2>5, <2>6, OneCall
  <1>7. QED
    BY <1>1, <1>4, <1>5, <1>6 DEF WeatherReturns

LEMMA ReturnsStep ==
    ASSUME CacheInv, NEW c \in Calls, ForecastReturns(c)
    PROVE  StepSound
  <1>a. PICK asked : asked = call[c].asked
    OBVIOUS
  <1>1. PICK f \in Forecasts :
           /\ call' = [call EXCEPT ![c] = Answer(asked, call[c].weather, f, 0, "done")]
           /\ cache' = IF asked.child = "local"
                       THEN [cache EXCEPT ![asked.key] = [data |-> f, fetchedAt |-> now]]
                       ELSE cache
           /\ fetched' = IF asked.child = "local" THEN [fetched EXCEPT ![asked.key] = now] ELSE fetched
    BY <1>a DEF ForecastReturns
  <1>2. asked.key \in Keys /\ now' = now /\ now \in Nat
    BY <1>a DEF ForecastReturns, CacheInv, CallSound
  <1>3. PICK r : r = Answer(asked, call[c].weather, f, 0, "done")
    OBVIOUS
  <1>4. r.step = "answered" /\ r.forecast = f /\ r.age = 0 /\ call' = [call EXCEPT ![c] = r]
    BY <1>1, <1>3 DEF Answer
  <1>5. call'[c] = r
    BY <1>4, OwnRecord
  <1>6. f # None /\ 0 <= FreshTtl
    BY <1>1, NoneIsNothing, EToAssumption
  <1>7. CallSound(r) /\ UsableAt(c) /\ FetchesAt(c)
    BY <1>4, <1>5, <1>6 DEF CallSound, UsableAt, FetchesAt, Fetching
  <1>8. /\ cache' \in [Keys -> Entries \cup {None}]
        /\ \A key \in Keys : Holds(cache'[key], fetched'[key], now)
        /\ fetched' = [key \in Keys |-> fetched'[key]]
    <2>1. CASE asked.child # "local"
      BY <1>1, <2>1 DEF CacheInv
    <2>2. CASE asked.child = "local"
      <3>a. PICK e : e = [data |-> f, fetchedAt |-> now]
        OBVIOUS
      <3>1. /\ e \in Entries /\ e = [data |-> f, fetchedAt |-> now] /\ e.fetchedAt = now
        BY <1>1, <1>2, <3>a DEF Entries
      <3>2. PICK new, last : new = cache' /\ last = fetched'
        OBVIOUS
      <3>3. new = [cache EXCEPT ![asked.key] = e] /\ last = [fetched EXCEPT ![asked.key] = now]
        BY <1>1, <2>2, <3>1, <3>2
      <3>4. /\ new \in [Keys -> Entries \cup {None}] /\ new[asked.key] = e
            /\ last = [key \in Keys |-> last[key]] /\ last[asked.key] = now
            /\ \A key \in Keys : key # asked.key => new[key] = cache[key] /\ last[key] = fetched[key]
        BY <1>2, <3>1, <3>3 DEF CacheInv
      <3>5. Holds(e, now, now)
        BY <1>2, <3>1, NoneIsNothing DEF Holds
      <3>6. \A key \in Keys : Holds(new[key], last[key], now)
        BY <3>4, <3>5 DEF CacheInv
      <3>7. QED
        BY <3>2, <3>4, <3>6
    <2>3. QED
      BY <2>1, <2>2
  <1>9. QED
    BY <1>2, <1>4, <1>7, <1>8, OneCall

LEMMA RefreshFailsStep ==
    ASSUME CacheInv, NEW c \in Calls, ForecastFails(c)
    PROVE  StepSound
  <1>1. PICK asked : asked = call[c].asked
    OBVIOUS
  <1>2. /\ Fetching(c) /\ asked.key \in Keys /\ now' = now /\ fetched' = fetched
    BY <1>1 DEF ForecastFails, CacheInv, CallSound, Fetching
  <1>3. ASSUME NEW f, NEW age, NEW new,
               call' = [call EXCEPT ![c] = Answer(asked, call[c].weather, f, age, "failed")],
               IF f # None THEN age <= StaleTtl
               ELSE asked.child = "local" =>
                       fetched[asked.key] = None \/ now - fetched[asked.key] > StaleTtl,
               cache' = new, new \in {cache, Swept(asked.key)}
        PROVE  StepSound
    <2>1. PICK r : r = Answer(asked, call[c].weather, f, age, "failed")
      OBVIOUS
    <2>2. /\ r.step = "answered" /\ r.asked = asked /\ r.forecast = f /\ r.age = age /\ r.fetch = "failed"
          /\ call' = [call EXCEPT ![c] = r]
      BY <1>3, <2>1 DEF Answer
    <2>3. call'[c] = r
      BY <2>2, OwnRecord
    <2>4. CallSound(r) /\ UsableAt(c) /\ FetchesAt(c)
      BY <1>2, <1>3, <2>2, <2>3 DEF CallSound, UsableAt, FetchesAt
    <2>5. /\ cache' \in [Keys -> Entries \cup {None}]
          /\ \A key \in Keys : Holds(cache'[key], fetched'[key], now)
          /\ fetched' = [key \in Keys |-> fetched'[key]]
      BY <1>2, <1>3, SweptHolds DEF CacheInv
    <2>6. QED
      BY <1>2, <2>2, <2>4, <2>5, OneCall
  <1>4. CASE /\ asked.child = "local" /\ LooksUp(asked.key)
             /\ call' = [call EXCEPT ![c] = Answer(asked, call[c].weather, cache[asked.key].data, Age(asked.key), "failed")]
             /\ cache' = Swept(asked.key)
    <2>1. PICK f, age, new : f = cache[asked.key].data /\ age = Age(asked.key) /\ new = cache'
      OBVIOUS
    <2>2. f # None /\ age <= StaleTtl
      BY <1>2, <1>4, <2>1, LooksUpFacts, NoneIsNothing
    <2>3. QED
      BY <1>3, <1>4, <2>1, <2>2
  <1>5. CASE /\ asked.child = "local" /\ ~LooksUp(asked.key)
             /\ call' = [call EXCEPT ![c] = Answer(asked, call[c].weather, None, 0, "failed")]
             /\ cache' = Swept(asked.key)
    BY <1>2, <1>3, <1>5, LooksUpFacts
  <1>6. CASE /\ asked.child = "OpenMeteo"
             /\ call' = [call EXCEPT ![c] = Answer(asked, call[c].weather, None, 0, "failed")]
             /\ cache' = cache
    BY <1>3, <1>6
  <1>7. QED
    BY <1>1, <1>4, <1>5, <1>6 DEF ForecastFails

LEMMA TickStep ==
    ASSUME CacheInv, Tick
    PROVE  StepSound
  <1>1. now' = now + 1 /\ cache' = cache /\ call' = call /\ fetched' = fetched /\ now \in Nat
    BY DEF Tick, CacheInv
  <1>2. \A key \in Keys : Holds(cache[key], fetched[key], now + 1)
    <2>1. TAKE key \in Keys
    <2>2. Holds(cache[key], fetched[key], now)
      BY DEF CacheInv
    <2>3. QED
      BY <1>1, <2>2, EToAssumption DEF Holds
  <1>3. CacheInv'
    BY <1>1, <1>2 DEF CacheInv
  <1>4. \A c \in Calls : UsableAt(c) /\ FetchesAt(c)
    BY <1>1 DEF UsableAt, FetchesAt, Answers, Fetching
  <1>5. QED
    BY <1>3, <1>4 DEF StepSound

LEMMA CacheStep ==
    ASSUME CacheInv, [Next]_etoVars
    PROVE  CacheInv' /\ (UNCHANGED etoVars \/ StepSound)
  <1>1. CASE Next
    BY <1>1, BeginsStep, FailsStep, WeatherStep, ReturnsStep, RefreshFailsStep, TickStep
       DEF Next, StepSound
  <1>2. CASE UNCHANGED etoVars
    BY <1>2 DEF etoVars, CacheInv
  <1>3. QED
    BY <1>1, <1>2

\* ForecastCache.ts: the cache never loses a forecast that may still be served
\* and never holds one that is not the last fetched.
THEOREM CacheInvariant == Spec => []CacheInv
  <1>1. Init => CacheInv
    BY CacheInit
  <1>2. CacheInv /\ [Next]_etoVars => CacheInv'
    BY CacheStep
  <1>3. QED
    BY <1>1, <1>2, PTL DEF Spec

\* getForecastData: an answer's forecast is fresh, or stale after its own fetch
\* failed; it goes without only when there was nothing usable.
THEOREM ServedForecastIsUsable == Spec => ForecastIsUsable
  <1>1. CacheInv /\ [Next]_etoVars =>
           [\A c \in Calls : Answers(c) /\ ENABLE_FORECAST /\ call'[c].asked.child # None =>
              LET a == call'[c]
                  key == a.asked.key
              IN  IF a.forecast # None
                  THEN a.age <= FreshTtl \/ (a.fetch = "failed" /\ Fetching(c) /\ a.age <= StaleTtl)
                  ELSE /\ a.fetch = "failed" /\ Fetching(c)
                       /\ a.asked.child = "local" =>
                             fetched[key] = None \/ now - fetched[key] > StaleTtl]_etoVars
    BY CacheStep DEF StepSound, UsableAt
  <1>2. QED
    BY <1>1, CacheInvariant, PTL DEF Spec, ForecastIsUsable

\* getForecastData: within the fresh window of a fetch no call of the local
\* station fetches again.
THEOREM HotPathStaysLocal == Spec => FetchesOnlyWhenStale
  <1>1. CacheInv /\ [Next]_etoVars =>
           [\A c \in Calls :
              (~Fetching(c) /\ Fetching(c)' /\ call'[c].asked.child = "local") =>
                 LET key == call'[c].asked.key
                 IN  fetched[key] = None \/ now - fetched[key] > FreshTtl]_etoVars
    BY CacheStep DEF StepSound, FetchesAt
  <1>2. QED
    BY <1>1, CacheInvariant, PTL DEF Spec, FetchesOnlyWhenStale
----------------------------------------------------------------------------
(* Rain and the scale.  Every operator between the rain and the scale is     *)
(* monotone; what is multiplied is never negative, what divides is positive. *)

LEMMA ClampFacts ==
    ASSUME NEW low \in Int, NEW high \in Int, NEW x \in Int, NEW y \in Int, x <= y
    PROVE  /\ Clamp(low, high, x) \in Int
           /\ Clamp(low, high, y) \in Int
           /\ low <= Clamp(low, high, x)
           /\ low <= Clamp(low, high, y)
           /\ Clamp(low, high, x) <= Clamp(low, high, y)
           /\ low <= high => Clamp(low, high, x) <= high /\ Clamp(low, high, y) <= high
  BY DEF Clamp, Least, Most

LEMMA TimesMonotone ==
    ASSUME NEW a \in Nat, NEW b \in Nat, NEW c \in Nat, a <= b
    PROVE  a * c \in Nat /\ b * c \in Nat /\ a * c <= b * c
  <1>1. a * c \in Nat /\ b * c \in Nat
    OBVIOUS
  <1>2. b * c = a * c + (b - a) * c /\ b - a \in Nat
    OBVIOUS
  <1>3. (b - a) * c \in Nat
    BY <1>2
  <1>4. QED
    BY <1>1, <1>2, <1>3

LEMMA DivMonotone ==
    ASSUME NEW a \in Int, NEW b \in Int, NEW k \in Nat \ {0}, a <= b
    PROVE  /\ a \div k \in Int
           /\ b \div k \in Int
           /\ a \div k <= b \div k
           /\ a \in Nat => a \div k \in Nat
  <1>1. /\ a \div k \in Int /\ b \div k \in Int
        /\ a % k \in 0 .. k - 1 /\ b % k \in 0 .. k - 1
        /\ a = k * (a \div k) + (a % k) /\ b = k * (b \div k) + (b % k)
    OBVIOUS
  <1>2. PICK p, q, m, n : p = a \div k /\ q = b \div k /\ m = a % k /\ n = b % k
    OBVIOUS
  <1>3. p <= q
    <2>1. SUFFICES ASSUME q + 1 <= p PROVE FALSE
      BY <1>1, <1>2
    <2>2. k * p = k * (q + 1) + k * (p - (q + 1)) /\ k * (p - (q + 1)) >= 0
      BY <1>1, <1>2, <2>1
    <2>3. k * (q + 1) = k * q + k
      BY <1>1, <1>2
    <2>4. QED
      BY <1>1, <1>2, <2>2, <2>3
  <1>4. ASSUME a \in Nat PROVE p >= 0
    <2>1. SUFFICES ASSUME p <= -1 PROVE FALSE
      BY <1>1, <1>2
    <2>2. k * p = k * (-1) + k * (p + 1) /\ k * (p + 1) <= 0 /\ k * (-1) = -k
      BY <1>1, <1>2, <2>1
    <2>3. QED
      BY <1>1, <1>2, <1>4, <2>2
  <1>5. QED
    BY <1>1, <1>2, <1>3, <1>4

\* The rain to come cuts a scale the more the more there is of it.
LEMMA RainAdjustmentFacts ==
    ASSUME NEW rain \in Nat, NEW more \in Nat, rain <= more,
           NEW cut \in Nat, NEW most \in Nat, NEW floor \in Nat, floor <= 1000
    PROVE  /\ rainAdjustment(rain, cut, most, floor) \in Nat
           /\ rainAdjustment(more, cut, most, floor) \in Nat
           /\ rainAdjustment(rain, cut, most, floor) <= 1000
           /\ rainAdjustment(more, cut, most, floor) <= rainAdjustment(rain, cut, most, floor)
  <1> DEFINE wet(r) == Clamp(0, most * 5, 10 * r)
             cutBy(r) == (cut * wet(r)) \div 50
             adjusted(r) == Clamp(floor, 1000, 1000 - cutBy(r))
  <1>1. \A r : rainAdjustment(r, cut, most, floor) = IF r <= 5 THEN 1000 ELSE adjusted(r)
    BY DEF rainAdjustment, precipThreshold
  <1>2. wet(rain) \in Nat /\ wet(more) \in Nat /\ wet(rain) <= wet(more)
    BY ClampFacts
  <1>3. cut * wet(rain) \in Nat /\ cut * wet(more) \in Nat /\ cut * wet(rain) <= cut * wet(more)
    <2> HIDE DEF wet
    <2>1. QED
      BY <1>2, TimesMonotone
  <1>4. cutBy(rain) \in Int /\ cutBy(more) \in Int /\ cutBy(rain) <= cutBy(more)
    <2> HIDE DEF wet
    <2>1. QED
      BY <1>3, DivMonotone
  <1>5. /\ adjusted(rain) \in Nat /\ adjusted(more) \in Nat /\ adjusted(rain) <= 1000
        /\ adjusted(more) <= adjusted(rain)
    <2>1. PICK p, q : p = 1000 - cutBy(rain) /\ q = 1000 - cutBy(more)
      OBVIOUS
    <2>2. p \in Int /\ q \in Int /\ q <= p
      <3> HIDE DEF cutBy
      <3>1. QED
        BY <1>4, <2>1
    <2>3. /\ Clamp(floor, 1000, p) \in Nat /\ Clamp(floor, 1000, q) \in Nat
          /\ Clamp(floor, 1000, p) <= 1000
          /\ Clamp(floor, 1000, q) <= Clamp(floor, 1000, p)
      BY <2>2 DEF Clamp, Least, Most
    <2>4. adjusted(rain) = Clamp(floor, 1000, p) /\ adjusted(more) = Clamp(floor, 1000, q)
      BY <2>1
    <2> HIDE DEF adjusted
    <2>5. QED
      BY <2>3, <2>4
  <1> HIDE DEF adjusted
  <1>6. QED
    BY <1>1, <1>5

LEMMA MoistureFacts ==
    ASSUME NEW dry \in Nat, NEW wet \in Nat, dry <= wet
    PROVE  /\ getMoistureAdjustment(dry) \in Nat
           /\ getMoistureAdjustment(wet) \in Nat
           /\ getMoistureAdjustment(wet) <= getMoistureAdjustment(dry)
  BY DEF getMoistureAdjustment

\* The other factors of the grass's coefficient are not negative.
LEMMA GrassFactors ==
    ASSUME NEW grass, NEW variety, NEW level, NEW day, NEW z, NEW temp
    PROVE  /\ getBaseKc(grass, variety) \in Nat
           /\ managementMultiplier(level) \in Nat
           /\ getSeasonalKc(grass, day, z) \in Nat
           /\ getTemperatureStressAdjustment(grass, temp) \in Nat
           /\ getGrowthStageAdjustment(grass, day, z, temp) \in Nat
  <1>1. getBaseKc(grass, variety) \in Nat
    BY DEF getBaseKc
  <1>2. managementMultiplier(level) \in Nat
    BY DEF managementMultiplier
  <1>3. getSeasonalKc(grass, day, z) \in Nat
    BY DEF getSeasonalKc
  <1>4. getTemperatureStressAdjustment(grass, temp) \in Nat
    BY DEF getTemperatureStressAdjustment
  <1>5. getGrowthStageAdjustment(grass, day, z, temp) \in Nat
    BY DEF getGrowthStageAdjustment
  <1>6. QED
    BY <1>1, <1>2, <1>3, <1>4, <1>5

LEMMA GrassFacts ==
    ASSUME NEW options, NEW d \in DayType, NEW e \in DayType,
           e.day = d.day, e.temp = d.temp, e.precip <= d.precip
    PROVE  /\ calculateCropCoefficient(options, d) \in Nat
           /\ calculateCropCoefficient(options, e) \in Nat
           /\ calculateCropCoefficient(options, d) <= calculateCropCoefficient(options, e)
  <1> DEFINE z == ZoneOf(options.zone)
             others == getBaseKc(options.grass, options.variety)
                         * managementMultiplier(options.level)
                         * getSeasonalKc(options.grass, d.day, z)
                         * getTemperatureStressAdjustment(options.grass, d.temp)
             stage == getGrowthStageAdjustment(options.grass, d.day, z, d.temp)
             moist(w) == getMoistureAdjustment(w.precip)
  <1>1. others \in Nat /\ stage \in Nat
    <2>1. PICK b, m, s, t : /\ b = getBaseKc(options.grass, options.variety)
                            /\ m = managementMultiplier(options.level)
                            /\ s = getSeasonalKc(options.grass, d.day, z)
                            /\ t = getTemperatureStressAdjustment(options.grass, d.temp)
      OBVIOUS
    <2>2. b \in Nat /\ m \in Nat /\ s \in Nat /\ t \in Nat
      BY <2>1, GrassFactors
    <2>3. b * m \in Nat
      BY <2>2
    <2>4. b * m * s \in Nat
      BY <2>2, <2>3
    <2>5. b * m * s * t \in Nat
      BY <2>2, <2>4
    <2>6. QED
      BY <2>1, <2>5, GrassFactors
  <1>2. d.precip \in Nat /\ e.precip \in Nat
    BY DEF DayType
  <1>3. moist(d) \in Nat /\ moist(e) \in Nat /\ moist(d) <= moist(e)
    BY <1>2, MoistureFacts
  <1> DEFINE product(w) == (others * moist(w) * stage) \div 160000
  <1>4. /\ calculateCropCoefficient(options, d) = Clamp(10, 120, product(d))
        /\ calculateCropCoefficient(options, e) = Clamp(10, 120, product(e))
    BY DEF calculateCropCoefficient
  <1> HIDE DEF others, stage, moist
  <1>5. /\ others * moist(d) \in Nat /\ others * moist(e) \in Nat
        /\ others * moist(d) <= others * moist(e)
    BY <1>1, <1>3, TimesMonotone
  <1>6. /\ others * moist(d) * stage \in Nat /\ others * moist(e) * stage \in Nat
        /\ others * moist(d) * stage <= others * moist(e) * stage
    BY <1>1, <1>5, TimesMonotone
  <1>7. product(d) \in Int /\ product(e) \in Int /\ product(d) <= product(e)
    BY <1>6, DivMonotone
  <1> HIDE DEF product
  <1>8. QED
    BY <1>4, <1>7 DEF Clamp, Least, Most

LEMMA PlantFacts ==
    ASSUME NEW plant \in DOMAIN PLANT_KC_CATALOG, NEW d \in Days
    PROVE  getPlantKc(plant, d.day) \in Nat
  <1>1. PICK low, high : low = PLANT_KC_CATALOG[plant].dormantKc /\ high = PLANT_KC_CATALOG[plant].peakKc
    OBVIOUS
  <1>2. low \in Nat /\ high \in Nat /\ low <= high
    BY <1>1 DEF PLANT_KC_CATALOG, Plant
  <1>3. PICK warm : warm = Warmth(d.day)
    OBVIOUS
  <1>4. warm \in 0 .. 100
    BY <1>3, EToAssumption, Zenon
  <1>5. (high - low) * warm + 50 \in Nat
    BY <1>2, <1>4
  <1>6. ((high - low) * warm + 50) \div 100 \in Nat
    BY <1>5, DivMonotone
  <1>7. QED
    BY <1>1, <1>2, <1>3, <1>6 DEF getPlantKc

\* More rain that fell never raises the crop coefficient.
LEMMA CropFacts ==
    ASSUME NEW settings \in Settings, NEW d \in Days, NEW e \in DayType,
           e.day = d.day, e.temp = d.temp, e.precip <= d.precip
    PROVE  /\ CropOf(settings, d) \in Nat
           /\ CropOf(settings, e) \in Nat
           /\ CropOf(settings, d) <= CropOf(settings, e)
  <1>1. d \in DayType /\ settings \in SettingType
    BY EToAssumption
  <1>2. CASE ~settings.crop
    BY <1>2 DEF CropOf
  <1>3. CASE clampKc(settings.custom) # None
    <2>1. settings.custom \in Int
      BY <1>1, <1>3 DEF SettingType, clampKc
    <2>2. clampKc(settings.custom) \in Nat
      BY <1>3, <2>1 DEF clampKc, Clamp, Least, Most
    <2>3. QED
      BY <1>2, <1>3, <2>2 DEF CropOf, resolveCropCoefficient
  <1>4. CASE clampKc(settings.custom) = None /\ settings.plant \in DOMAIN PLANT_KC_CATALOG
    BY <1>2, <1>4, PlantFacts DEF CropOf, resolveCropCoefficient
  <1>5. CASE clampKc(settings.custom) = None /\ settings.plant \notin DOMAIN PLANT_KC_CATALOG
    BY <1>1, <1>2, <1>5, GrassFacts DEF CropOf, resolveCropCoefficient
  <1>6. QED
    BY <1>3, <1>4, <1>5

\* What calculateETOWateringScale does not refuse.
Usable(settings) == settings.baseETo \in Nat \ {0}

LEMMA ScaleFacts ==
    ASSUME NEW settings \in Settings, Usable(settings),
           NEW less \in Nat, NEW need \in Nat, less <= need,
           NEW precip \in Nat, NEW more \in Nat, precip <= more,
           NEW lower \in Nat, NEW adjustment \in Nat, lower <= adjustment
    PROVE  ScaleOf(less, more, settings, lower) <= ScaleOf(need, precip, settings, adjustment)
  <1> DEFINE left(n, p) == Clamp(0, n, n - p * 10000)
             base == getIrrigationEfficiency(settings.system) * settings.baseETo * 1000
             percent(n, p, a) == (left(n, p) * a) \div base
  <1>1. base \in Nat \ {0}
    <2>1. PICK eff, eto : eff = getIrrigationEfficiency(settings.system) /\ eto = settings.baseETo
      OBVIOUS
    <2>2. eff \in {90, 85, 60, 75} /\ eto \in Nat \ {0}
      BY <2>1 DEF getIrrigationEfficiency, Usable
    <2>3. eff * eto * 1000 \in Nat \ {0}
      BY <2>2
    <2>4. QED
      BY <2>1, <2>3
  <1>2. left(less, more) \in Nat /\ left(need, precip) \in Nat /\ left(less, more) <= left(need, precip)
    BY DEF Clamp, Least, Most
  <1>3. /\ ScaleOf(less, more, settings, lower) = Clamp(0, 200, percent(less, more, lower))
        /\ ScaleOf(need, precip, settings, adjustment) = Clamp(0, 200, percent(need, precip, adjustment))
    BY DEF ScaleOf
  <1> HIDE DEF left, base
  <1>4. /\ left(less, more) * lower \in Nat
        /\ left(need, precip) * lower \in Nat
        /\ left(less, more) * lower <= left(need, precip) * lower
    BY <1>2, TimesMonotone
  <1>5. /\ left(need, precip) * adjustment \in Nat
        /\ left(need, precip) * lower <= left(need, precip) * adjustment
    <2>1. lower * left(need, precip) <= adjustment * left(need, precip)
      BY <1>2, TimesMonotone
    <2>2. QED
      BY <1>2, <2>1
  <1>6. left(less, more) * lower <= left(need, precip) * adjustment
    BY <1>4, <1>5
  <1>7. /\ percent(less, more, lower) \in Int /\ percent(need, precip, adjustment) \in Int
        /\ percent(less, more, lower) <= percent(need, precip, adjustment)
    BY <1>1, <1>4, <1>5, <1>6, DivMonotone
  <1> HIDE DEF percent
  <1>8. QED
    BY <1>3, <1>7 DEF Clamp, Least, Most

\* What a day needs by the last day and a forecast, and by the last day alone.
LEMMA CombinedFacts ==
    ASSUME NEW d, NEW f, d.eto \in Nat, f.eto \in Nat, NEW weight \in 0 .. 100,
           NEW kc \in Nat, NEW most \in Nat, kc <= most
    PROVE  /\ Combined(d, f, kc, weight) \in Nat
           /\ Combined(d, f, most, weight) \in Nat
           /\ Combined(d, f, kc, weight) <= Combined(d, f, most, weight)
           /\ f.eto <= d.eto => Combined(d, f, kc, weight) <= Combined(d, d, kc, 0)
  <1>a. PICK eto, next : eto = d.eto /\ next = f.eto
    OBVIOUS
  <1>b. eto \in Nat /\ next \in Nat
    BY <1>a
  <1>1. PICK days : days = eto * (100 - weight) + next * weight
    OBVIOUS
  <1>2. days \in Nat
    BY <1>1, <1>b
  <1>3. /\ Combined(d, f, kc, weight) = days * kc
        /\ Combined(d, f, most, weight) = days * most
    BY <1>1, <1>a DEF Combined
  <1>4. kc * days \in Nat /\ most * days \in Nat /\ kc * days <= most * days
    BY <1>2, TimesMonotone
  <1>5. ASSUME next <= eto
        PROVE  Combined(d, f, kc, weight) <= Combined(d, d, kc, 0)
    <2>1. next * weight <= eto * weight /\ next * weight \in Nat /\ eto * weight \in Nat
      BY <1>5, <1>b, TimesMonotone
    <2>2. eto * (100 - weight) + eto * weight = eto * 100
      BY <1>b
    <2>3. days <= eto * 100
      BY <1>1, <1>b, <2>1, <2>2
    <2>4. days * kc <= (eto * 100) * kc
      BY <1>2, <1>b, <2>3, TimesMonotone
    <2>5. Combined(d, d, kc, 0) = (eto * 100) * kc
      BY <1>a, <1>b DEF Combined
    <2>6. QED
      BY <1>3, <2>4, <2>5
  <1>6. QED
    BY <1>a, <1>2, <1>3, <1>4, <1>5

LEMMA RainAdjustmentRange ==
    ASSUME NEW rain \in Nat, NEW cut \in Nat, NEW most \in Nat, NEW floor \in Nat, floor <= 1000
    PROVE  /\ rainAdjustment(rain, cut, most, floor) \in Nat
           /\ rainAdjustment(rain, cut, most, floor) <= 1000
  <1>1. rain <= rain
    OBVIOUS
  <1>2. QED
    BY <1>1, RainAdjustmentFacts

\* The three methods that use a forecast differ in its weight and in the cut.
Forecasted(settings, d, f, g, weight, cut, most, floor) ==
    ScaleOf(Combined(d, g, CropOf(settings, d), weight), d.precip, settings,
            rainAdjustment(f.rain, cut, most, floor))

LEMMA MethodsAgree ==
    ASSUME NEW settings, NEW d, NEW f \in ForecastType
    PROVE  EToScale(settings, d, f) =
              CASE f.kind = "high" -> Forecasted(settings, d, f, f, 30, 300, 30, 100)
                [] f.kind = "medium" -> Forecasted(settings, d, f, f, 21, 200, 20, 200)
                [] f.kind = "gaps" -> Forecasted(settings, d, f, d, 0, 250, 25, 150)
                [] OTHER -> EToScale(settings, d, None)
  <1>1. f # None /\ f.kind \in {"high", "medium", "gaps", "empty"}
    BY NoneIsNothing DEF ForecastType
  <1>2. CASE f.kind = "high"
    BY <1>1, <1>2 DEF EToScale, getBestForecastMethod, calculateFullForecastScaleWithCrop, Forecasted
  <1>3. CASE f.kind = "medium"
    BY <1>1, <1>3 DEF EToScale, getBestForecastMethod, calculateHybridForecastScaleWithCrop, Forecasted
  <1>4. CASE f.kind = "gaps"
    BY <1>1, <1>4 DEF EToScale, getBestForecastMethod, calculatePrecipForecastScaleWithCrop, Forecasted
  <1>5. CASE f.kind = "empty"
    BY <1>1, <1>5 DEF EToScale, getBestForecastMethod
  <1>6. QED
    BY <1>1, <1>2, <1>3, <1>4, <1>5

\* One method with more rain that fell (d after e) and more rain to come (f after g).
LEMMA ForecastedFacts ==
    ASSUME NEW settings \in Settings, Usable(settings),
           NEW d \in Days, NEW e \in DayType,
           e.day = d.day, e.temp = d.temp, e.eto = d.eto, e.precip <= d.precip,
           NEW f \in ForecastType, NEW g \in ForecastType, g.eto = f.eto, g.rain <= f.rain,
           NEW weight \in 0 .. 100, NEW cut \in Nat, NEW most \in Nat, NEW floor \in Nat, floor <= 1000
    PROVE  /\ Forecasted(settings, d, f, f, weight, cut, most, floor)
                 <= Forecasted(settings, e, g, g, weight, cut, most, floor)
           /\ Forecasted(settings, d, f, d, weight, cut, most, floor)
                 <= Forecasted(settings, e, g, e, weight, cut, most, floor)
  <1>1. /\ d.eto \in Nat /\ d.precip \in Nat /\ e.precip \in Nat
        /\ f.eto \in Nat /\ f.rain \in Nat /\ g.rain \in Nat
    BY EToAssumption DEF DayType, ForecastType
  <1>2. PICK kc, kd : kc = CropOf(settings, d) /\ kd = CropOf(settings, e)
    OBVIOUS
  <1>3. kc \in Nat /\ kd \in Nat /\ kc <= kd
    BY <1>2, CropFacts
  <1>4. PICK a, b : a = rainAdjustment(f.rain, cut, most, floor) /\ b = rainAdjustment(g.rain, cut, most, floor)
    OBVIOUS
  <1>5. a \in Nat /\ b \in Nat /\ a <= b
    <2>1. PICK x, y : x = f.rain /\ y = g.rain
      OBVIOUS
    <2>2. x \in Nat /\ y \in Nat /\ y <= x
      BY <1>1, <2>1
    <2>3. /\ rainAdjustment(x, cut, most, floor) \in Nat
          /\ rainAdjustment(y, cut, most, floor) \in Nat
          /\ rainAdjustment(x, cut, most, floor) <= rainAdjustment(y, cut, most, floor)
      BY <2>2, RainAdjustmentFacts, RainAdjustmentRange
    <2>4. QED
      BY <1>4, <2>1, <2>3
  <1>6. /\ Combined(d, f, kc, weight) \in Nat /\ Combined(d, f, kd, weight) \in Nat
        /\ Combined(d, f, kc, weight) <= Combined(d, f, kd, weight)
    BY <1>1, <1>3, CombinedFacts, ZenonT(60)
  <1>7. /\ Combined(d, d, kc, weight) \in Nat /\ Combined(d, d, kd, weight) \in Nat
        /\ Combined(d, d, kc, weight) <= Combined(d, d, kd, weight)
    BY <1>1, <1>3, CombinedFacts, ZenonT(60)
  <1>8. Combined(e, g, kd, weight) = Combined(d, f, kd, weight) /\ Combined(e, e, kd, weight) = Combined(d, d, kd, weight)
    BY DEF Combined
  <1>9. ScaleOf(Combined(d, f, kc, weight), d.precip, settings, a)
           <= ScaleOf(Combined(d, f, kd, weight), e.precip, settings, b)
    BY <1>1, <1>5, <1>6, ScaleFacts
  <1>10. ScaleOf(Combined(d, d, kc, weight), d.precip, settings, a)
            <= ScaleOf(Combined(d, d, kd, weight), e.precip, settings, b)
    BY <1>1, <1>5, <1>7, ScaleFacts
  <1>11. QED
    BY <1>2, <1>4, <1>8, <1>9, <1>10 DEF Forecasted

LEMMA HistoricalFacts ==
    ASSUME NEW settings \in Settings, Usable(settings),
           NEW d \in Days, NEW e \in DayType,
           e.day = d.day, e.temp = d.temp, e.eto = d.eto, e.precip <= d.precip
    PROVE  EToScale(settings, d, None) <= EToScale(settings, e, None)
  <1>1. d.eto \in Nat /\ d.precip \in Nat /\ e.precip \in Nat
    BY EToAssumption DEF DayType
  <1>2. PICK kc, kd : kc = CropOf(settings, d) /\ kd = CropOf(settings, e)
    OBVIOUS
  <1>3. kc \in Nat /\ kd \in Nat /\ kc <= kd
    BY <1>2, CropFacts
  <1>4. /\ Combined(d, d, kc, 0) \in Nat /\ Combined(d, d, kd, 0) \in Nat
        /\ Combined(d, d, kc, 0) <= Combined(d, d, kd, 0)
    <2>1. PICK weight : weight = 0
      OBVIOUS
    <2>2. weight \in 0 .. 100
      BY <2>1
    <2>3. /\ Combined(d, d, kc, weight) \in Nat /\ Combined(d, d, kd, weight) \in Nat
          /\ Combined(d, d, kc, weight) <= Combined(d, d, kd, weight)
      BY <1>1, <1>3, <2>2, CombinedFacts
    <2>4. QED
      BY <2>1, <2>3
  <1>5. Combined(e, e, kd, 0) = Combined(d, d, kd, 0)
    BY DEF Combined
  <1>6. ScaleOf(Combined(d, d, kc, 0), d.precip, settings, 1000)
           <= ScaleOf(Combined(d, d, kd, 0), e.precip, settings, 1000)
    BY <1>1, <1>4, ScaleFacts
  <1>7. QED
    BY <1>2, <1>5, <1>6 DEF EToScale, calculateHistoricalOnlyScaleWithCrop

\* More rain that fell, and more rain to come, never raise the scale.
LEMMA MoreRain ==
    ASSUME NEW settings \in Settings, Usable(settings),
           NEW d \in Days, NEW e \in DayType,
           e.day = d.day, e.temp = d.temp, e.eto = d.eto, e.precip <= d.precip,
           NEW f \in ForecastType, NEW g \in ForecastType,
           g.kind = f.kind, g.eto = f.eto, g.rain <= f.rain
    PROVE  EToScale(settings, d, f) <= EToScale(settings, e, g)
  <1>1. CASE f.kind = "high"
    <2>1. Forecasted(settings, d, f, f, 30, 300, 30, 100) <= Forecasted(settings, e, g, g, 30, 300, 30, 100)
      BY ForecastedFacts
    <2>2. /\ EToScale(settings, d, f) = Forecasted(settings, d, f, f, 30, 300, 30, 100)
          /\ EToScale(settings, e, g) = Forecasted(settings, e, g, g, 30, 300, 30, 100)
      BY <1>1, MethodsAgree
    <2>3. QED
      BY <2>1, <2>2
  <1>2. CASE f.kind = "medium"
    <2>1. Forecasted(settings, d, f, f, 21, 200, 20, 200) <= Forecasted(settings, e, g, g, 21, 200, 20, 200)
      BY ForecastedFacts
    <2>2. /\ EToScale(settings, d, f) = Forecasted(settings, d, f, f, 21, 200, 20, 200)
          /\ EToScale(settings, e, g) = Forecasted(settings, e, g, g, 21, 200, 20, 200)
      BY <1>2, MethodsAgree
    <2>3. QED
      BY <2>1, <2>2
  <1>3. CASE f.kind = "gaps"
    <2>1. Forecasted(settings, d, f, d, 0, 250, 25, 150) <= Forecasted(settings, e, g, e, 0, 250, 25, 150)
      BY ForecastedFacts
    <2>2. /\ EToScale(settings, d, f) = Forecasted(settings, d, f, d, 0, 250, 25, 150)
          /\ EToScale(settings, e, g) = Forecasted(settings, e, g, e, 0, 250, 25, 150)
      BY <1>3, MethodsAgree
    <2>3. QED
      BY <2>1, <2>2
  <1>4. CASE f.kind \notin {"high", "medium", "gaps"}
    BY <1>4, MethodsAgree, HistoricalFacts
  <1>5. QED
    BY <1>1, <1>2, <1>3, <1>4

\* A forecast of no more evapotranspiration than the last day's does not raise it.
LEMMA ForecastNeverRaises ==
    ASSUME NEW settings \in Settings, Usable(settings),
           NEW d \in Days, NEW f \in ForecastType, f.eto <= d.eto
    PROVE  EToScale(settings, d, f) <= EToScale(settings, d, None)
  <1>1. d \in DayType /\ d.eto \in Nat /\ d.precip \in Nat /\ f.eto \in Nat /\ f.rain \in Nat
    BY EToAssumption DEF DayType, ForecastType
  <1>2. PICK kc : kc = CropOf(settings, d)
    OBVIOUS
  <1>3. kc \in Nat
    BY <1>1, <1>2, CropFacts
  <1>4. EToScale(settings, d, None) = ScaleOf(Combined(d, d, kc, 0), d.precip, settings, 1000)
    BY <1>2 DEF EToScale, calculateHistoricalOnlyScaleWithCrop
  <1>5. ASSUME NEW g, g.eto \in Nat, g.eto <= d.eto, NEW weight \in 0 .. 100,
               NEW cut \in Nat, NEW most \in Nat, NEW floor \in Nat, floor <= 1000
        PROVE  Forecasted(settings, d, f, g, weight, cut, most, floor) <= EToScale(settings, d, None)
    <2>1. PICK a : a = rainAdjustment(f.rain, cut, most, floor)
      OBVIOUS
    <2>2. a \in Nat /\ a <= 1000
      <3>1. PICK x : x = f.rain
        OBVIOUS
      <3>2. x \in Nat /\ floor <= 1000
        BY <1>1, <1>5, <3>1
      <3>3. rainAdjustment(x, cut, most, floor) \in Nat /\ rainAdjustment(x, cut, most, floor) <= 1000
        BY <3>2, RainAdjustmentRange
      <3>4. QED
        BY <2>1, <3>1, <3>3
    <2>3. /\ Combined(d, g, kc, weight) \in Nat /\ Combined(d, d, kc, 0) \in Nat
          /\ Combined(d, g, kc, weight) <= Combined(d, d, kc, 0)
      <3>1. kc <= kc
        BY <1>3
      <3>2. PICK none : none = 0
        OBVIOUS
      <3>3. none \in 0 .. 100
        BY <3>2
      <3>4. Combined(d, g, kc, weight) \in Nat /\ Combined(d, g, kc, weight) <= Combined(d, d, kc, 0)
        BY <1>1, <1>3, <1>5, <3>1, CombinedFacts, ZenonT(60)
      <3>5. Combined(d, d, kc, none) \in Nat
        BY <1>1, <1>3, <3>1, <3>3, CombinedFacts
      <3>6. QED
        BY <3>2, <3>4, <3>5
    <2>4. ScaleOf(Combined(d, g, kc, weight), d.precip, settings, a)
             <= ScaleOf(Combined(d, d, kc, 0), d.precip, settings, 1000)
      BY <1>1, <2>2, <2>3, ScaleFacts
    <2>5. QED
      BY <1>2, <1>4, <2>1, <2>4 DEF Forecasted
  <1>6. EToScale(settings, d, None) <= EToScale(settings, d, None)
    BY <1>1, HistoricalFacts
  <1>7. CASE f.kind = "high"
    <2>1. Forecasted(settings, d, f, f, 30, 300, 30, 100) <= EToScale(settings, d, None)
      <3>1. /\ f.eto \in Nat /\ f.eto <= d.eto
            /\ 30 \in 0 .. 100 /\ 300 \in Nat /\ 30 \in Nat /\ 100 \in Nat /\ 100 <= 1000
        BY <1>1
      <3>2. QED
        BY <1>5, <3>1
    <2>2. EToScale(settings, d, f) = Forecasted(settings, d, f, f, 30, 300, 30, 100)
      BY <1>7, MethodsAgree
    <2>3. QED
      BY <2>1, <2>2
  <1>8. CASE f.kind = "medium"
    <2>1. Forecasted(settings, d, f, f, 21, 200, 20, 200) <= EToScale(settings, d, None)
      BY <1>1, <1>5
    <2>2. EToScale(settings, d, f) = Forecasted(settings, d, f, f, 21, 200, 20, 200)
      BY <1>8, MethodsAgree
    <2>3. QED
      BY <2>1, <2>2
  <1>9. CASE f.kind = "gaps"
    <2>1. Forecasted(settings, d, f, d, 0, 250, 25, 150) <= EToScale(settings, d, None)
      <3>1. /\ d.eto \in Nat /\ d.eto <= d.eto
            /\ 0 \in 0 .. 100 /\ 250 \in Nat /\ 25 \in Nat /\ 150 \in Nat /\ 150 <= 1000
        BY <1>1
      <3>2. QED
        BY <1>5, <3>1
    <2>2. EToScale(settings, d, f) = Forecasted(settings, d, f, d, 0, 250, 25, 150)
      BY <1>9, MethodsAgree
    <2>3. QED
      BY <2>1, <2>2
  <1>10. CASE f.kind \notin {"high", "medium", "gaps"}
    BY <1>6, <1>10, MethodsAgree
  <1>11. QED
    BY <1>7, <1>8, <1>9, <1>10
----------------------------------------------------------------------------
(* Every answer is the scale of what the call asked with what it was told.   *)

Posed(r) ==
    /\ r.step \in {"weather", "forecast", "answered"} =>
          r.asked.settings \in Settings /\ Usable(r.asked.settings)
    /\ r.step \in {"forecast", "answered"} => r.weather \in Days
    /\ r.step = "answered" =>
          /\ r.forecast \in Forecasts \cup {None}
          /\ r.scale = EToScale(r.asked.settings, r.weather, r.forecast)

ScaleInv ==
    /\ CacheInv
    /\ \A c \in Calls : Posed(call[c])

LEMMA AnswerIsPosed ==
    ASSUME NEW asked, asked.settings \in Settings, Usable(asked.settings),
           NEW d \in Days, NEW f \in Forecasts \cup {None}, NEW age, NEW fetch
    PROVE  Posed(Answer(asked, d, f, age, fetch))
  <1>1. PICK r, scale : r = Answer(asked, d, f, age, fetch) /\ scale = EToScale(asked.settings, d, f)
    OBVIOUS
  <1>2. /\ r.step = "answered" /\ r.asked = asked /\ r.weather = d /\ r.forecast = f /\ r.scale = scale
    BY <1>1 DEF Answer
  <1>3. QED
    BY <1>1, <1>2 DEF Posed

LEMMA OnePosed ==
    ASSUME ScaleInv, NEW c \in Calls, NEW r, call' = [call EXCEPT ![c] = r], Posed(r)
    PROVE  \A b \in Calls : Posed(call'[b])
  <1>1. call = [b \in Calls |-> call[b]]
    BY DEF ScaleInv, CacheInv
  <1>2. \A b \in Calls : call'[b] = IF b = c THEN r ELSE call[b]
    BY <1>1
  <1>3. \A b \in Calls : Posed(call[b])
    BY DEF ScaleInv
  <1>4. ASSUME NEW b \in Calls PROVE Posed(call'[b])
    <2>1. PICK q : q = call'[b]
      OBVIOUS
    <2>2. q = r \/ q = call[b]
      BY <1>2, <2>1
    <2>3. Posed(q)
      BY <1>3, <2>2
    <2>4. QED
      BY <2>1, <2>3
  <1>5. QED
    BY <1>4

LEMMA PosedStep ==
    ASSUME ScaleInv, NEW c \in Calls,
           \/ Begins(c) \/ WeatherReturns(c) \/ WeatherFails(c)
           \/ ForecastReturns(c) \/ ForecastFails(c)
    PROVE  \A b \in Calls : Posed(call'[b])
  <1>1. PICK own : own = call[c]
    OBVIOUS
  <1>2. Posed(own) /\ CallSound(own) /\ CacheInv
    BY <1>1 DEF ScaleInv, CacheInv
  <1>3. CASE Begins(c)
    <2>1. PICK key \in Keys, chain \in Chains, settings \in Settings :
             call' = [call EXCEPT ![c] =
                        IF settings.baseETo = None \/ settings.baseETo <= 0 THEN Refused
                        ELSE [step |-> "weather", asked |-> Asked(key, forecastChild(chain), settings)]]
      BY <1>3 DEF Begins
    <2>2. PICK r : r = IF settings.baseETo = None \/ settings.baseETo <= 0 THEN Refused
                       ELSE [step |-> "weather", asked |-> Asked(key, forecastChild(chain), settings)]
      OBVIOUS
    <2>3. settings.baseETo \in Int \cup {None}
      BY EToAssumption DEF SettingType
    <2>4. Posed(r)
      <3>1. CASE settings.baseETo = None \/ settings.baseETo <= 0
        BY <2>2, <3>1 DEF Posed, Refused
      <3>2. CASE ~(settings.baseETo = None \/ settings.baseETo <= 0)
        BY <2>2, <2>3, <3>2 DEF Posed, Asked, Usable
      <3>3. QED
        BY <3>1, <3>2
    <2>5. QED
      BY <2>1, <2>2, <2>4, OnePosed
  <1>4. CASE WeatherReturns(c)
    <2>1. own.step = "weather" /\ own.asked.settings \in Settings /\ Usable(own.asked.settings)
          /\ own.asked.key \in Keys
      BY <1>1, <1>2, <1>4 DEF WeatherReturns, Posed, CallSound
    <2>2. ASSUME NEW d \in Days,
                 \/ call' = [call EXCEPT ![c] = Answer(own.asked, d, None, 0, "none")]
                 \/ /\ IsFresh(own.asked.key)
                    /\ call' = [call EXCEPT ![c] = Answer(own.asked, d, cache[own.asked.key].data, Age(own.asked.key), "none")]
                 \/ call' = [call EXCEPT ![c] = [step |-> "forecast", asked |-> own.asked, weather |-> d]]
          PROVE  \A b \in Calls : Posed(call'[b])
      <3>1. CASE call' = [call EXCEPT ![c] = Answer(own.asked, d, None, 0, "none")]
        BY <2>1, <3>1, AnswerIsPosed, OnePosed
      <3>2. CASE /\ IsFresh(own.asked.key)
                 /\ call' = [call EXCEPT ![c] = Answer(own.asked, d, cache[own.asked.key].data, Age(own.asked.key), "none")]
        <4>1. PICK f, age : f = cache[own.asked.key].data /\ age = Age(own.asked.key)
          OBVIOUS
        <4>2. f \in Forecasts
          BY <1>2, <2>1, <3>2, <4>1, LooksUpFacts DEF IsFresh
        <4>3. Posed(Answer(own.asked, d, f, age, "none"))
          BY <2>1, <4>2, AnswerIsPosed
        <4>4. QED
          BY <3>2, <4>1, <4>3, OnePosed
      <3>3. CASE call' = [call EXCEPT ![c] = [step |-> "forecast", asked |-> own.asked, weather |-> d]]
        <4>1. PICK r : r = [step |-> "forecast", asked |-> own.asked, weather |-> d]
          OBVIOUS
        <4>2. Posed(r)
          BY <2>1, <4>1 DEF Posed
        <4>3. QED
          BY <3>3, <4>1, <4>2, OnePosed
      <3>4. QED
        BY <2>2, <3>1, <3>2, <3>3
    <2>3. QED
      BY <1>1, <1>4, <2>2 DEF WeatherReturns
  <1>5. CASE WeatherFails(c)
    <2>1. Posed(Refused)
      BY DEF Posed, Refused
    <2>2. QED
      BY <1>5, <2>1, OnePosed DEF WeatherFails
  <1>6. CASE ForecastReturns(c)
    <2>1. own.step = "forecast" /\ own.asked.settings \in Settings /\ Usable(own.asked.settings)
          /\ own.weather \in Days
      BY <1>1, <1>2, <1>6 DEF ForecastReturns, Posed
    <2>2. PICK f \in Forecasts : call' = [call EXCEPT ![c] = Answer(own.asked, own.weather, f, 0, "done")]
      BY <1>1, <1>6 DEF ForecastReturns
    <2>3. Posed(Answer(own.asked, own.weather, f, 0, "done"))
      BY <2>1, AnswerIsPosed
    <2>4. QED
      BY <2>2, <2>3, OnePosed
  <1>7. CASE ForecastFails(c)
    <2>1. own.step = "forecast" /\ own.asked.settings \in Settings /\ Usable(own.asked.settings)
          /\ own.weather \in Days /\ own.asked.key \in Keys
      BY <1>1, <1>2, <1>7 DEF ForecastFails, Posed, CallSound
    <2>2. PICK f, age : /\ f = IF LooksUp(own.asked.key) /\ own.asked.child = "local" THEN cache[own.asked.key].data ELSE None
                        /\ age = IF LooksUp(own.asked.key) /\ own.asked.child = "local" THEN Age(own.asked.key) ELSE 0
      OBVIOUS
    <2>3. f \in Forecasts \cup {None}
      BY <1>2, <2>1, <2>2, LooksUpFacts
    <2>4. Posed(Answer(own.asked, own.weather, f, age, "failed"))
      BY <2>1, <2>3, AnswerIsPosed
    <2>5. call' = [call EXCEPT ![c] = Answer(own.asked, own.weather, f, age, "failed")]
      <3>1. CASE own.asked.child = "local" /\ LooksUp(own.asked.key)
        BY <1>1, <1>7, <2>2, <3>1 DEF ForecastFails
      <3>2. CASE ~(own.asked.child = "local" /\ LooksUp(own.asked.key))
        BY <1>1, <1>7, <2>2, <3>2 DEF ForecastFails
      <3>3. QED
        BY <3>1, <3>2
    <2>6. QED
      BY <2>4, <2>5, OnePosed
  <1>8. QED
    BY <1>3, <1>4, <1>5, <1>6, <1>7

\* calculateETOWateringScale: a call that is under way has usable settings, and an
\* answered scale is that of the weather and the forecast the call was given.
THEOREM ScalesAreThoseAsked == Spec => []ScaleInv
  <1>1. Init => ScaleInv
    <2>1. SUFFICES ASSUME Init PROVE ScaleInv
      OBVIOUS
    <2>2. \A c \in Calls : call[c] = Idle
      BY <2>1 DEF Init
    <2>3. Posed(Idle)
      BY DEF Posed, Idle
    <2>4. QED
      BY <2>1, <2>2, <2>3, CacheInit DEF ScaleInv
  <1>2. ScaleInv /\ [Next]_etoVars => ScaleInv'
    <2>1. SUFFICES ASSUME ScaleInv, [Next]_etoVars PROVE ScaleInv'
      OBVIOUS
    <2>2. CacheInv'
      BY <2>1, CacheStep DEF ScaleInv
    <2>3. CASE Tick \/ UNCHANGED etoVars
      <3>1. call' = call
        BY <2>3 DEF Tick, etoVars
      <3>2. QED
        BY <2>1, <2>2, <3>1 DEF ScaleInv, Posed
    <2>4. CASE Next /\ ~Tick
      <3>1. \A b \in Calls : Posed(call'[b])
        BY <2>1, <2>4, PosedStep DEF Next
      <3>2. QED
        BY <2>2, <3>1 DEF ScaleInv, Posed
    <2>5. QED
      BY <2>1, <2>3, <2>4
  <1>3. QED
    BY <1>1, <1>2, PTL DEF Spec

\* The three forecast methods and the crop coefficient: more rain, fallen or to
\* come, never raises a scale, nor does a forecast of less evapotranspiration.
THEOREM RainIsSafe == Spec => []RainNeverWatersMore
  <1>1. ScaleInv => RainNeverWatersMore
    <2>1. SUFFICES ASSUME ScaleInv, NEW c \in Calls, call[c].step = "answered"
                   PROVE  LET a == call[c]
                              s == a.asked.settings
                          IN  /\ \A r \in 0 .. a.weather.precip - 1 :
                                    EToScale(s, [a.weather EXCEPT !.precip = r], a.forecast) >= a.scale
                              /\ a.forecast # None =>
                                    /\ \A r \in 0 .. a.forecast.rain - 1 :
                                          EToScale(s, a.weather, [a.forecast EXCEPT !.rain = r]) >= a.scale
                                    /\ a.forecast.eto <= a.weather.eto => a.scale <= EToScale(s, a.weather, None)
      BY DEF RainNeverWatersMore
    <2>2. PICK s, d, f, scale : /\ s = call[c].asked.settings /\ d = call[c].weather
                                /\ f = call[c].forecast /\ scale = call[c].scale
      OBVIOUS
    <2>3. /\ s \in Settings /\ Usable(s) /\ d \in Days
          /\ f \in Forecasts \cup {None} /\ scale = EToScale(s, d, f)
      BY <2>1, <2>2 DEF ScaleInv, Posed
    <2>4. d \in DayType /\ (f # None => f \in ForecastType)
      BY <2>3, EToAssumption
    <2>5. ASSUME NEW r \in 0 .. d.precip - 1
          PROVE  scale <= EToScale(s, [d EXCEPT !.precip = r], f)
      <3>1. PICK e : e = [d EXCEPT !.precip = r]
        OBVIOUS
      <3>2. /\ e \in DayType /\ e.day = d.day /\ e.temp = d.temp /\ e.eto = d.eto /\ e.precip <= d.precip
        BY <2>4, <2>5, <3>1 DEF DayType
      <3>3. CASE f = None
        BY <2>3, <3>1, <3>2, <3>3, HistoricalFacts
      <3>4. CASE f # None
        <4>1. f.rain <= f.rain
          BY <2>4, <3>4 DEF ForecastType
        <4>2. EToScale(s, d, f) <= EToScale(s, e, f)
          BY <2>3, <2>4, <3>2, <3>4, <4>1, MoreRain
        <4>3. QED
          BY <2>3, <3>1, <4>2
      <3>5. QED
        BY <3>3, <3>4
    <2>6. ASSUME f # None, NEW r \in 0 .. f.rain - 1
          PROVE  scale <= EToScale(s, d, [f EXCEPT !.rain = r])
      <3>1. PICK g : g = [f EXCEPT !.rain = r]
        OBVIOUS
      <3>2. /\ g \in ForecastType /\ g.kind = f.kind /\ g.eto = f.eto /\ g.rain <= f.rain
        BY <2>4, <2>6, <3>1 DEF ForecastType
      <3>3. d.precip <= d.precip
        BY <2>4 DEF DayType
      <3>4. EToScale(s, d, f) <= EToScale(s, d, g)
        BY <2>3, <2>4, <2>6, <3>2, <3>3, MoreRain
      <3>5. QED
        BY <2>3, <3>1, <3>4
    <2>7. f # None /\ f.eto <= d.eto => scale <= EToScale(s, d, None)
      BY <2>3, <2>4, ForecastNeverRaises
    <2>8. ASSUME NEW x, scale <= x PROVE x >= scale
      BY <2>8
    <2>9. QED
      BY <2>2, <2>5, <2>6, <2>7, <2>8
  <1>2. QED
    BY <1>1, ScalesAreThoseAsked, PTL
=============================================================================
