------------------------------- MODULE ApiRequests -------------------------------
(***************************************************************************)
(* The HTTP handlers (routes/weather.ts, routes/v1/index.ts and             *)
(* routes/baselineETo.ts) from a request to its answer: the validation, the *)
(* lookup of the place in the geocoder, which all of them share, and what   *)
(* the weather provider then makes of the coordinates: its exchanges, which *)
(* follow each other, are one here.  What a decision is made of is left to  *)
(* WateringDecision; here it succeeds or fails with one of its codes.       *)
(***************************************************************************)
EXTENDS HttpRequest, Geocoder

CONSTANTS
    Requests,      \* the requests clients may send (below)
    ThroughServer, \* whether they pass the server's routes, or call the handlers
    MaxRequests,   \* bound: requests received
    MaxRestarts    \* bound: crashes, each followed by a restart

\* method is the path's or the query's number, or None when it is none.
RequestType ==
    [path : {"watering", "weatherData", "v1watering", "v1weather", "v1budget", "baseline"},
     loc : Places \cup {"", "gps", "pws:"},
     method : Nat \cup {None},
     options : {"fine", "malformed", "bad station"}]

ASSUME RequestAssumption ==
    /\ Requests \subseteq RequestType
    /\ {"", "gps", "pws:"} \cap Places = {}
    /\ ThroughServer \in BOOLEAN
    /\ MaxRequests \in Nat
    /\ MaxRestarts \in Nat
    /\ None \notin Coordinates \cup {"gps", NotFound, "NoError", "NoLocationFound"}

VARIABLES
    call,        \* [Callers -> the request under way or the last answered]
    received,
    restarts

requestVars == <<http, cache, file, tmp, saving, told, call, received, restarts>>
----------------------------------------------------------------------------
(* Routes *)

V1 == {"v1watering", "v1weather", "v1budget"}

\* The server tries its routes in order.  The one for the digits of a legacy
\* identifier is not anchored and precedes /v1, whose paths hold a digit: 1.
Routed(sent) ==
    LET isLegacy == ThroughServer /\ sent.path \in V1
    IN  [path |-> sent.path, loc |-> sent.loc, options |-> sent.options,
         kind |-> IF isLegacy THEN "watering" ELSE sent.path,
         method |-> IF isLegacy THEN 1 ELSE sent.method]
----------------------------------------------------------------------------
(* Answers *)

\* An answer's status and the errCode and scale of a legacy body.
AnswerOf(status, code, scale) == [status |-> status, code |-> code, scale |-> scale]
Success == AnswerOf(200, "NoError", "decided")
Bare(status) == AnswerOf(status, None, None)

\* A code that is not named is a failure behind this service.
v1Status(code) ==
    CASE code = "UnsupportedAdjustmentMethod" -> 422
      [] code \in {"InvalidLocationFormat", "NoLocationFound", "MalformedAdjustmentOptions",
                   "MissingAdjustmentOption", "InvalidAdjustmentMethod", "InvalidPwsId",
                   "InvalidPwsApiKey"} -> 400
      [] OTHER -> 502

\* Bit 7 of a legacy identifier is the restriction flag.
WithoutBit7(param) == IF (param \div 128) % 2 = 1 THEN param - 128 ELSE param

ADJUSTMENT_METHOD == <<"manual", "zimmerman", "rainDelay", "eto", "waterBudget">>

resolveLegacyAdjustmentMethod(param) ==
    IF param # None /\ WithoutBit7(param) \in 0 .. 4 THEN ADJUSTMENT_METHOD[WithoutBit7(param) + 1]
    ELSE None

MethodOf(request) ==
    IF request.kind \in {"watering", "v1watering"} THEN resolveLegacyAdjustmentMethod(request.method)
    ELSE None

\* A legacy error waters in full, unless the method is manual.
sendWateringError(code, resetScale) ==
    AnswerOf(200, code, IF resetScale THEN 100 ELSE None)

PwsErrors == {"InvalidPwsId", "InvalidPwsApiKey"}

\* An error on the way to an answer.
Failure(request, code) ==
    CASE request.kind \in V1 -> AnswerOf(v1Status(code), code, None)
      [] request.kind = "watering" -> sendWateringError(code, MethodOf(request) # "manual")
      [] request.kind = "weatherData" /\ code \in PwsErrors -> sendWateringError(code, TRUE)
      [] request.kind = "weatherData" /\ code \notin PwsErrors -> Bare(200)
      [] request.kind = "baseline" -> Bare(404)

\* What is refused before the place is looked at, or None.  fileMeta is whether
\* the header of the baseline file has been read since the process started.
Refusal(request, fileMeta) ==
    CASE request.kind \in V1 /\ request.loc = "" -> Bare(400)
      [] request.kind = "v1watering" /\ request.method \notin 0 .. 4 -> Bare(400)
      [] request.kind = "watering" /\ MethodOf(request) = None ->
            sendWateringError("InvalidAdjustmentMethod", TRUE)
      [] request.kind \in {"watering", "weatherData"} /\ request.options = "malformed" ->
            sendWateringError("MalformedAdjustmentOptions",
                              request.kind = "weatherData" \/ MethodOf(request) # "manual")
      [] request.kind = "baseline" /\ ~fileMeta -> Bare(503)
      [] OTHER -> None
----------------------------------------------------------------------------
(* A request runs on until an exchange is sent or the answer is.  `at` is    *)
(* the handler's coordinates, once it has them.                             *)

Asks(c, step, request, at) ==
    /\ call' = [call EXCEPT ![c] = [step |-> step, request |-> request, at |-> at]]
    /\ http' = [http EXCEPT ![c] = "sent"]

Answers(c, request, at, answer) ==
    /\ call' = [call EXCEPT ![c] =
                  [step |-> "answered", request |-> request, at |-> at, answer |-> answer]]
    /\ http' = [http EXCEPT ![c] = "idle"]

Fails(c, request, at, code) == Answers(c, request, at, Failure(request, code))

\* buildPwsFromParams fails; the budget and the baseline do not read the station.
BadStation(request) ==
    request.options = "bad station" /\ request.kind \notin {"v1budget", "baseline"}

ForWeather(request) == request.kind \in {"weatherData", "v1weather"}

\* What a provider fails with before it asks any service.  "WeatherError" is any
\* code that no handler tells from another: no station or no key was given
\* (NoPwsProvided, NoAPIKeyProvided), the local station's queue is too short
\* (InsufficientWeatherData), or something threw what is no code (UnexpectedError),
\* as getWeatherData does when the provider has none.
ProviderRefuses(request) ==
    {"WeatherError"} \cup IF ForWeather(request) THEN {} ELSE {"UnsupportedAdjustmentMethod"}

\* What a request fails with before a service is asked: an ETo call lacks its
\* baseline, which /v1 never passes on, or the provider refuses.
FailsUnasked(request) ==
    CASE MethodOf(request) = "manual" -> {}
      [] MethodOf(request) = "eto" /\ request.kind = "v1watering" -> {"MissingAdjustmentOption"}
      [] MethodOf(request) = "eto" /\ request.kind = "watering" ->
            {"MissingAdjustmentOption"} \cup ProviderRefuses(request)
      [] OTHER -> ProviderRefuses(request)

\* computeWateringDecision and getWeatherData, up to the exchange.  Without one
\* there is a cached scale, a manual call, a held scale, or the local station.
Decides(c, request, at) ==
    /\ request.kind \notin {"v1budget", "baseline"}
    /\ \/ \E code \in FailsUnasked(request) : Fails(c, request, at, code)
       \/ /\ FailsUnasked(request) # {"MissingAdjustmentOption"}
          /\ \/ Answers(c, request, at, Success)
             \/ Asks(c, "deciding", request, at)

\* v1Budget: a stored state is read from memory, and there may be none.
v1Budget(c, request, at) ==
    /\ request.kind = "v1budget"
    /\ \E status \in {200, 404} : Answers(c, request, at, Bare(status))

\* getBaselineETo, from the place on: a pixel of the file, which may be out of
\* bounds, unknown, or unreadable.
getBaselineETo(c, request, at) ==
    /\ request.kind = "baseline"
    /\ \E status \in {200, 404, 500} : Answers(c, request, at, Bare(status))

\* The coordinates are known and the handler goes on.
GoesOn(c, request, at) ==
    \/ BadStation(request) /\ \E code \in PwsErrors : Fails(c, request, at, code)
    \/ /\ ~BadStation(request)
       /\ \/ Decides(c, request, at)
          \/ v1Budget(c, request, at)
          \/ getBaselineETo(c, request, at)

\* Mutant: a cached place is not looked at for "no result".
TrustsTheCache(c, request) ==
    IF IsCached(request.loc) THEN GoesOn(c, request, CachedAt(request.loc))
    ELSE Asks(c, "locating", request, None)

\* A place that is not cached is asked of the service.
getLocation(c, request) ==
    IF ~IsCached(request.loc) THEN Asks(c, "locating", request, None)
    ELSE IF CachedAt(request.loc) = NotFound THEN Fails(c, request, None, "NoLocationFound")
    ELSE GoesOn(c, request, CachedAt(request.loc))

\* resolveCoordinates: no name or a station's is refused, a pair of numbers is
\* taken as it is.
resolveCoordinates(c, request) ==
    CASE request.loc \in {"", "pws:"} -> Fails(c, request, None, "InvalidLocationFormat")
      [] request.loc = "gps" -> GoesOn(c, request, "gps")
      [] request.loc \in Places -> getLocation(c, request)

\* While saveCache is at work, nothing else of this process runs; the network and
\* its time go on.
Runs == saving = "no"

Receives(c) ==
    /\ Runs
    /\ call[c].step \in {"idle", "answered"}
    /\ received < MaxRequests
    /\ received' = received + 1
    /\ \E sent \in Requests, fileMeta \in BOOLEAN :
          LET request == Routed(sent)
              refusal == Refusal(request, fileMeta)
          IN  IF refusal # None THEN Answers(c, request, None, refusal)
              ELSE resolveCoordinates(c, request)
    /\ UNCHANGED <<geocoderVars, restarts>>

\* geocodeLocation: an exchange that failed, or a body that does not parse, is an
\* error of the service; a body of another shape is an exception.
ReplyOf(outcome) ==
    IF outcome = "rejected" THEN {"LocationServiceApiError"} ELSE Replies

LookupReturns(c) ==
    /\ Runs
    /\ call[c].step = "locating"
    /\ Settled(c)
    /\ \E reply \in ReplyOf(http[c]) :
          LET request == call[c].request
          IN  /\ SettlesLookup(request.loc, reply)
              /\ CASE reply \in Coordinates -> GoesOn(c, request, reply)
                   [] reply = NotFound -> Fails(c, request, None, "NoLocationFound")
                   [] OTHER -> Fails(c, request, None, reply)
    /\ UNCHANGED <<received, restarts>>

\* What an exchange can end in: its failure or data that is not what the method
\* needs (WeatherApiError, InsufficientWeatherData, MissingWeatherField), a place
\* that AccuWeather's own lookup fails on or does not know, or, when another
\* provider of a chain is tried next, whatever that one refuses with.
FailsAsked(request) ==
    ProviderRefuses(request) \cup
    IF ForWeather(request) THEN {} ELSE {"NoLocationFound", "LocationServiceApiError"}

\* After the last of its exchanges a decision may be made whatever became of that:
\* a held scale, skips and a forecast do without.
DecisionReturns(c) ==
    /\ Runs
    /\ call[c].step = "deciding"
    /\ Settled(c)
    /\ LET request == call[c].request
           at == call[c].at
       IN  \/ /\ ForWeather(request) => http[c] = "resolved"
              /\ Answers(c, request, at, Success)
           \/ /\ MethodOf(request) # "manual"
              /\ \E code \in FailsAsked(request) : Fails(c, request, at, code)
    /\ UNCHANGED <<geocoderVars, received, restarts>>

RequestMoves(c) ==
    /\ NetworkStep(c)
    /\ UNCHANGED <<geocoderVars, call, received, restarts>>

TimeoutFires(c) ==
    /\ TimesOut(c)
    /\ UNCHANGED <<geocoderVars, call, received, restarts>>

\* The timer starts a save, once no continuation is left to run, and each of the
\* save's calls returns.
Saves ==
    /\ saveCache
    /\ Runs => \A c \in Callers : ~Settled(c)
    /\ UNCHANGED <<http, call, received, restarts>>

\* A crash closes every connection; the next process loads the cache.
Restarts ==
    /\ restarts < MaxRestarts
    /\ restarts' = restarts + 1
    /\ Loads
    /\ http' = [c \in Callers |-> "idle"]
    /\ call' = [c \in Callers |-> [step |-> "idle"]]
    /\ UNCHANGED received

Init ==
    /\ HttpInit
    /\ GeocoderInit
    /\ call = [c \in Callers |-> [step |-> "idle"]]
    /\ received = 0
    /\ restarts = 0

Next ==
    \/ \E c \in Callers :
          \/ Receives(c)
          \/ LookupReturns(c)
          \/ DecisionReturns(c)
          \/ RequestMoves(c)
          \/ TimeoutFires(c)
    \/ Saves
    \/ Restarts

Spec == Init /\ [][Next]_requestVars

\* Node runs the continuation of a settled promise and its timers fire, and a file
\* system's call returns.  Nothing is assumed of the services, nor that a save is
\* ever begun or goes well.
EventLoopIsFair ==
    /\ WF_requestVars(~Runs /\ Saves)
    /\ \A c \in Callers :
          /\ WF_requestVars(LookupReturns(c))
          /\ WF_requestVars(DecisionReturns(c))
          /\ WF_requestVars(TimeoutFires(c))

FairSpec == Spec /\ EventLoopIsFair
----------------------------------------------------------------------------
(* Properties *)

\* enforceCacheSizeLimit: within a process a place leaves only a full cache, as
\* the one set first, and only for a place that was not there: an answer that
\* comes again, from an overlapping lookup, costs no other place.
EvictsOnlyForANewPlace ==
    [][\A place \in CachedPlaces(cache) \ CachedPlaces(cache') :
          \/ Restarts
          \/ /\ Len(cache) = maxCacheEntries
             /\ place = cache[1].place
             /\ CachedPlaces(cache') \ CachedPlaces(cache) # {}]_requestVars

\* getLocation, resolveCoordinates: a handler goes on to the weather, the budget or
\* the baseline of a place only with coordinates the geocoding service has given
\* for it, never with its "no result"; and a place is called unknown before that
\* only if the service has called it so, and not because a lookup failed,
\* whichever request, before whichever restart, has asked.
PlacesAreAsTold ==
    \A c \in Callers : call[c].step # "idle" /\ call[c].request.loc \in Places =>
       LET said == told[call[c].request.loc]
       IN  /\ call[c].at \in {None} \cup (said \cap Coordinates)
           /\ call[c].step = "deciding" => call[c].at # None
           /\ call[c].step = "answered" /\ call[c].at = None =>
                 /\ call[c].answer # Success
                 /\ call[c].answer.code = "NoLocationFound" => NotFound \in said

\* docs/v1-api.md:4-5: an error answered to a path of /v1 has the status code of
\* an error.
ErrorsUseStatusCodes ==
    \A c \in Callers : call[c].step = "answered" =>
       (call[c].request.path \in V1 /\ call[c].answer.code \notin {"NoError", None} =>
           call[c].answer.status >= 400)

\* weather.ts, v1/index.ts: every path of a handler ends in an answer; a request
\* that waits for a service is answered, unless the process dies.
EveryRequestIsAnswered ==
    \A c \in Callers :
       (call[c].step \in {"locating", "deciding"}) ~> (call[c].step \in {"idle", "answered"})
=============================================================================
