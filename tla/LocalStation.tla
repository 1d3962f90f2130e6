------------------------------ MODULE LocalStation ------------------------------
(***************************************************************************)
(* The local weather station (routes/weatherProviders/local.ts): uploads of *)
(* a station, the queue of observations, the answers computed from it, and  *)
(* the file it is saved to.                                                 *)
(*                                                                          *)
(* The station counts the rain of its day from midnight.  It sends one      *)
(* upload at a time; an upload can be lost, delayed over midnight, or       *)
(* captured twice because its answer was lost.                              *)
(***************************************************************************)
EXTENDS Integers, FiniteSets

CONSTANTS
    Day,            \* ONE_DAY_SECONDS, in ticks of the clock
    MinSpan,        \* TWENTY_THREE_HOURS_SECONDS
    Hour,           \* how long it is raining after a rain rate was seen
    Readings,       \* what an upload may carry
    NowDates,       \* whether the station sends dateutc=now
    TokenExpected,  \* whether LOCAL_PWS_TOKEN is set
    LOCAL_PERSISTENCE,
    MaxTime,        \* bound: the clock
    MaxRain,        \* bound: rain that falls
    MaxCaptures,    \* bound: observations captured
    MaxRestarts,    \* bound: restarts of the service
    Torn,           \* a file that is not JSON
    None

Fields == {"temp", "humidity", "solar", "wind"}

ASSUME StationAssumption ==
    /\ Day \in Nat /\ MinSpan \in Nat /\ Hour \in Nat
    /\ 0 < Hour /\ Hour <= MinSpan /\ MinSpan < Day
    /\ Readings \subseteq
          [counts : BOOLEAN, dated : BOOLEAN, rainy : BOOLEAN, fields : SUBSET Fields,
           token : BOOLEAN]
    /\ NowDates \in BOOLEAN /\ TokenExpected \in BOOLEAN /\ LOCAL_PERSISTENCE \in BOOLEAN
    /\ MaxTime \in Nat /\ MaxRain \in Nat /\ MaxCaptures \in Nat /\ MaxRestarts \in Nat
    /\ None \notin Int

VARIABLES
    clock,
    fallen,         \* all the rain that has fallen
    counter,        \* the station's rain of the day
    wire,           \* the upload on its way, or None
    queue,          \* the observations; their numbers are its order, newest first
    lastRainCount,
    lastRainEpoch,
    captures,       \* how many observations were captured
    counted,        \* the rain that had fallen when lastRainCount was read
    file,
    restarts

stationVars == <<clock, fallen, counter, wire>>
serviceVars == <<queue, lastRainCount, lastRainEpoch, captures, counted>>
vars == <<stationVars, serviceVars, file, restarts>>
----------------------------------------------------------------------------
Sentinel == -9999   \* "no reading" in the station's protocol

Uploads ==
    [date : Nat \cup {None},          \* dateutc; None when it is not a date
     count : Nat \cup {Sentinel},     \* dailyrainin
     rainy : BOOLEAN,                 \* rainin > 0
     fields : SUBSET Fields,
     token : BOOLEAN,                 \* whether it carries the token
     fallen : Nat]

\* The last two fields are not the program's: the rain that had fallen when the
\* last count before this one and this one were read.
Observations ==
    [no : Int, timestamp : Nat \cup {None}, fields : SUBSET Fields,
     precip : Nat \cup {None}, since : Nat, upto : Nat]

TypeOK ==
    /\ clock \in Nat /\ fallen \in Nat /\ counter \in 0 .. fallen
    /\ wire \in Uploads \cup {None}
    /\ queue \in SUBSET Observations
    /\ lastRainCount \in Nat \cup {None}
    /\ lastRainEpoch \in Nat \cup {None}
    /\ captures \in 0 .. MaxCaptures /\ counted \in Nat
    /\ file \in (SUBSET Observations) \cup {Torn, None}
    /\ restarts \in 0 .. MaxRestarts

isLocalPwsAuthenticated(u) == TokenExpected => u.token

getMeasurement(reading) == IF reading >= 0 THEN reading ELSE None

\* Mutant: a count that is repeated starts a new day.
RainRepeated(count) ==
    IF count = None \/ lastRainCount = None THEN None
    ELSE IF count <= lastRainCount THEN count
    ELSE count - lastRainCount

\* Mutant: the first count seen is all new rain.
RainFromZero(count) ==
    IF count = None THEN None
    ELSE IF lastRainCount = None \/ count < lastRainCount THEN count
    ELSE count - lastRainCount

\* The rain since the last count that was seen: a smaller count is a new day's.
RainSinceLast(count) ==
    IF count = None \/ lastRainCount = None THEN None
    ELSE IF count < lastRainCount THEN count
    ELSE count - lastRainCount

\* filterQueue: a timestamp that is not a number fails the comparison.
Recent(q) == {o \in q : o.timestamp # None /\ clock - o.timestamp < Day}

Init ==
    /\ clock = Day
    /\ fallen = 0
    /\ counter = 0
    /\ wire = None
    /\ queue = {}
    /\ lastRainCount = None
    /\ lastRainEpoch = 0
    /\ captures = 0 /\ counted = 0
    /\ file = None
    /\ restarts = 0
----------------------------------------------------------------------------
(* The station *)

Rains ==
    /\ fallen < MaxRain
    /\ fallen' = fallen + 1
    /\ counter' = counter + 1
    /\ UNCHANGED <<clock, wire, serviceVars, file, restarts>>

\* Time passes; the counter restarts at midnight.
Tick ==
    /\ clock < MaxTime
    /\ clock' = clock + 1
    /\ counter' = IF clock' % Day = 0 THEN 0 ELSE counter
    /\ UNCHANGED <<fallen, wire, serviceVars, file, restarts>>

Sends ==
    /\ wire = None
    /\ \E r \in Readings :
          wire' = [date |-> IF r.dated THEN clock ELSE None,
                   count |-> IF r.counts THEN counter ELSE Sentinel,
                   rainy |-> r.rainy, fields |-> r.fields, token |-> r.token,
                   fallen |-> fallen]
    /\ UNCHANGED <<clock, fallen, counter, serviceVars, file, restarts>>

\* The upload is lost on the way, or refused.
Loses ==
    /\ wire # None
    /\ wire' = None
    /\ UNCHANGED <<clock, fallen, counter, serviceVars, file, restarts>>
----------------------------------------------------------------------------
(* The service *)

Observed(u, no) ==
    LET count == getMeasurement(u.count)
        since == IF lastRainCount = None THEN u.fallen ELSE counted
    IN  [no |-> no, timestamp |-> IF NowDates THEN clock ELSE u.date,
         fields |-> u.fields, precip |-> RainSinceLast(count),
         since |-> since, upto |-> IF count = None THEN since ELSE u.fallen]

\* Mutant: new observations go to the old end of the queue.
PlaceAtTheEnd == -captures - 1

\* New observations go to the front of the queue.
NewPlace == captures + 1

\* The station sends the upload again when its answer is lost.
captureWUStream ==
    /\ wire # None
    /\ isLocalPwsAuthenticated(wire)
    /\ captures < MaxCaptures
    /\ captures' = captures + 1
    /\ LET count == getMeasurement(wire.count)
           obs == Observed(wire, NewPlace)
       IN  /\ queue' = queue \cup {obs}
           /\ lastRainCount' = IF count # None THEN count ELSE lastRainCount
           /\ counted' = IF count # None THEN wire.fallen ELSE counted
           /\ lastRainEpoch' = IF wire.rainy THEN obs.timestamp ELSE lastRainEpoch
    /\ wire' \in {None, wire}
    /\ UNCHANGED <<clock, fallen, counter, file, restarts>>

\* Every answer filters the queue first, also one that is an error.
filterQueue ==
    /\ queue' = Recent(queue)
    /\ UNCHANGED <<stationVars, lastRainCount, lastRainEpoch, captures, counted, file, restarts>>

\* The file is written in place: a write that fails has changed nothing or left
\* a part of it.
saveQueue ==
    /\ LOCAL_PERSISTENCE
    /\ queue' = Recent(queue)
    /\ file' \in {queue', file, Torn}
    /\ UNCHANGED <<stationVars, lastRainCount, lastRainEpoch, captures, counted, restarts>>

Saved(f) == IF f \in {Torn, None} THEN {} ELSE Recent(f)

\* The process ends, in the middle of a write or not, and starts again.  A file
\* that cannot be parsed is an empty queue; the rain count is not in the file.
Restarts ==
    /\ restarts < MaxRestarts
    /\ restarts' = restarts + 1
    /\ file' \in IF LOCAL_PERSISTENCE THEN {file, Torn} ELSE {file}
    /\ queue' = Saved(file')
    /\ lastRainCount' = None
    /\ lastRainEpoch' = 0
    /\ counted' = 0
    /\ UNCHANGED <<stationVars, captures>>

Next ==
    \/ Rains
    \/ Tick
    \/ Sends
    \/ Loses
    \/ captureWUStream
    \/ filterQueue
    \/ saveQueue
    \/ Restarts

Spec == Init /\ [][Next]_vars
----------------------------------------------------------------------------
(* The answers, as they are computed from the filtered queue *)

Insufficient == [error |-> TRUE]   \* ErrorCode.InsufficientWeatherData

Newest(q) == CHOOSE o \in q : \A p \in q : p.no <= o.no
Oldest(q) == CHOOSE o \in q : \A p \in q : o.no <= p.no

\* The rain of a set of observations, counted unit by unit; an observation
\* without a count adds none.
Units(o) == IF o.precip = None THEN {} ELSE {o} \X (1 .. o.precip)
RainOf(q) == Cardinality(UNION {Units(o) : o \in q})

Has(q, fields) == \A f \in fields : \E o \in q : f \in o.fields

SpansEnough(q) == q # {} /\ Newest(q).timestamp - Oldest(q).timestamp >= MinSpan

getWeatherData ==
    LET q == Recent(queue)
    IN  IF q = {} THEN Insufficient
        ELSE [error |-> FALSE, fields |-> Newest(q).fields \cap {"temp", "humidity", "wind"},
              precip |-> RainOf(q), of |-> Newest(q).timestamp]

getWateringData ==
    LET q == Recent(queue)
    IN  IF SpansEnough(q) /\ Has(q, {"temp", "humidity"})
        THEN [error |-> FALSE, precip |-> RainOf(q),
              raining |-> lastRainEpoch # None /\ clock - lastRainEpoch < Hour]
        ELSE Insufficient

getEToData ==
    LET q == Recent(queue)
    IN  IF SpansEnough(q) /\ Has(q, Fields)
        THEN [error |-> FALSE, precip |-> RainOf(q),
              periodStartTime |-> Oldest(q).timestamp]
        ELSE Insufficient
----------------------------------------------------------------------------
(* Properties *)

\* routes/weatherProviders/local.ts captureWUStream: every observation holds no
\* more rain than fell since the count before it, and no rain is in two
\* observations, across midnights, missing counts, repeated uploads, lost ones
\* and restarts.
RainIsCountedOnce ==
    \A o \in queue :
        /\ o.precip # None => o.precip <= o.upto - o.since
        /\ \A p \in queue : p.no < o.no => p.upto <= o.since

\* getWeatherData, getWateringData and getEToData: the rain an answer reports is
\* at most what fell from the last count before its oldest observation on.
ReportedRainFell ==
    LET q == Recent(queue)
    IN  \A answer \in {getWeatherData, getWateringData, getEToData} :
            ~answer.error => answer.precip <= fallen - Oldest(q).since

\* The same: an answer for the last day rests on observations of the last day
\* only, at least 23 hours apart, its window starts at the oldest of them, and
\* the current weather is the newest.
WindowIsTrueSpan ==
    LET q == Recent(queue)
        times == {o.timestamp : o \in q}
    IN  /\ ~getWeatherData.error => \A t \in times : t <= getWeatherData.of
        /\ \A answer \in {getWateringData, getEToData} : ~answer.error =>
               /\ \E s, t \in times : t - s >= MinSpan
               /\ \A t \in times : clock - Day < t /\ t <= clock
        /\ ~getEToData.error => \A t \in times : getEToData.periodStartTime <= t
============================================================================
