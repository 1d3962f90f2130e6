----------------------------- MODULE MqttPublisher -----------------------------
(***************************************************************************)
(* The MQTT publisher (mqtt/MqttPublisher.ts, mqtt/payloads.ts) with the    *)
(* broker's retained topics.  A tick gathers the state of a place, waiting  *)
(* for HTTP exchanges on the way, and publishes it; ticks are started by a  *)
(* timer and by every connection to the broker.                             *)
(*                                                                          *)
(* The client library and the broker are external: messages travel in order *)
(* on one connection, those not yet taken are lost with it, those published *)
(* without a connection wait for the next, and the broker publishes the     *)
(* last will when it gives up a connection or when the client comes back.   *)
(***************************************************************************)
EXTENDS HttpRequest, Sequences

CONSTANTS
    MaxDrops,     \* bound: connections lost
    MaxTimers,    \* bound: firings of the interval timer
    MaxAsks       \* bound: exchanges of one section (the provider chain)

Ticks == Callers

ASSUME PublisherAssumption ==
    /\ Ticks # {}
    /\ MaxDrops \in Nat
    /\ MaxTimers \in Nat
    /\ MaxAsks \in Nat \ {0}

VARIABLES
    inFlight,
    tick,        \* [Ticks -> the gathering under way or None]
    started,     \* ticks that have begun; the latest one's number
    link,        \* the client's view of its connection
    session,     \* whether the broker holds a connection of the client
    outbox,      \* published and not yet taken by the broker
    retained,    \* [Topics -> the broker's retained message or None]
    reported,    \* whether a status has arrived on this connection
    drops,
    timers

brokerVars == <<link, session, retained, reported, drops>>
publisherVars == <<http, inFlight, tick, started, outbox, timers, brokerVars>>
----------------------------------------------------------------------------
Sections == {"watering", "weather", "budget"}
Topics == Sections \cup {"availability", "discovery", "status"}

\* A payload is known by the tick it is of and what it says.
Messages ==
    [topic : Topics, no : Nat,
     says : {"online", "offline", "config", "state", "ok", "failed"}]

Message(topic, no, says) == [topic |-> topic, no |-> no, says |-> says]

\* A gathering waits in the step whose exchange is out; got has the sections
\* gathered so far and ok is status.ok.
Gatherings ==
    [no : Nat, step : {"locate", "watering", "weather"}, asks : 1 .. MaxAsks,
     got : SUBSET Sections, ok : BOOLEAN]

\* The state of a section, if it was gathered.
Part(section, no, got) ==
    IF section \in got THEN <<Message(section, no, "state")>> ELSE <<>>

Status(no, ok) == <<Message("status", no, IF ok THEN "ok" ELSE "failed")>>

\* Mutant: the status is published before the sections it speaks of.
StatusFirst(no, got, ok) ==
    Status(no, ok) \o Part("watering", no, got) \o Part("weather", no, got)
        \o Part("budget", no, got)

\* The sections that were gathered, then always the status.
buildStatePayloads(no, got, ok) ==
    Part("watering", no, got) \o Part("weather", no, got) \o Part("budget", no, got)
        \o Status(no, ok)

\* None is no message and no gathering.
ASSUME NothingAssumption == None \notin Messages \cup Gatherings

Announcement == <<Message("availability", 0, "online"), Message("discovery", 0, "config")>>

TypeOK ==
    /\ http \in [Callers -> HttpStates]
    /\ inFlight \in BOOLEAN
    /\ tick \in [Ticks -> Gatherings \cup {None}]
    /\ started \in Nat
    /\ link \in {"up", "down"}
    /\ session \in BOOLEAN
    /\ outbox \in Seq(Messages)
    /\ retained \in [Topics -> Messages \cup {None}]
    /\ reported \in BOOLEAN
    /\ drops \in 0 .. MaxDrops
    /\ timers \in 0 .. MaxTimers

Init ==
    /\ HttpInit
    /\ inFlight = FALSE
    /\ tick = [k \in Ticks |-> None]
    /\ started = 0
    /\ link = "down"
    /\ session = FALSE
    /\ outbox = <<>>
    /\ retained = [t \in Topics |-> None]
    /\ reported = FALSE
    /\ drops = 0
    /\ timers = 0
----------------------------------------------------------------------------
(* gatherState.  A step runs on until an exchange is sent or the tick is    *)
(* over; `box` is what has been published before.                           *)

\* The gathering g goes on in an exchange of its step.
Asks(k, g, box) ==
    /\ http' = [http EXCEPT ![k] = "sent"]
    /\ tick' = [tick EXCEPT ![k] = g]
    /\ inFlight' = TRUE
    /\ outbox' = box

\* The end of a tick: the payloads are published and inFlight is reset.
Publishes(k, g, box) ==
    /\ http' = [http EXCEPT ![k] = "idle"]
    /\ tick' = [tick EXCEPT ![k] = None]
    /\ inFlight' = FALSE
    /\ outbox' = box \o buildStatePayloads(g.no, g.got, g.ok)

\* Mutant: the status keeps what the last section said.
LastSays(g, section, ok) ==
    [g EXCEPT !.got = IF ok THEN @ \cup {section} ELSE @, !.ok = ok, !.asks = 1]

\* A section succeeds or fails on its own; the first failure clears ok for good.
With(g, section, ok) ==
    [g EXCEPT !.got = IF ok THEN @ \cup {section} ELSE @, !.ok = @ /\ ok, !.asks = 1]

\* The budget's state is in memory: it is there, there is none, or it fails.
GathersBudget(k, g, box) ==
    \/ Publishes(k, g, box)
    \/ \E ok \in BOOLEAN : Publishes(k, With(g, "budget", ok), box)

GathersWeather(k, g, box) ==
    \/ Asks(k, [g EXCEPT !.step = "weather", !.asks = 1], box)
    \/ \E ok \in BOOLEAN : GathersBudget(k, With(g, "weather", ok), box)

\* A cached or manual decision asks nobody.
GathersWatering(k, g, box) ==
    \/ Asks(k, [g EXCEPT !.step = "watering", !.asks = 1], box)
    \/ \E ok \in BOOLEAN : GathersWeather(k, With(g, "watering", ok), box)

NewGathering(no) ==
    [no |-> no, step |-> "locate", asks |-> 1, got |-> {}, ok |-> TRUE]

\* Without a place or with a bad station only the status is published.
Unlocated(g) == [g EXCEPT !.ok = FALSE]

gatherState(k, g, box) ==
    \/ Asks(k, g, box)
    \/ GathersWatering(k, g, box)
    \/ Publishes(k, Unlocated(g), box)

\* Where the next gathering is kept; there is room for those that may overlap.
Unused == CHOOSE k \in Ticks : tick[k] = None

\* Mutant: ticks may overlap.
TickAlways(box) ==
    /\ \E k \in Ticks : tick[k] = None
    /\ started' = started + 1
    /\ gatherState(Unused, NewGathering(started + 1), box)

\* tick: skipped while another is in flight.
Tick(box) ==
    \/ /\ inFlight
       /\ outbox' = box
       /\ UNCHANGED <<http, inFlight, tick, started>>
    \/ /\ ~inFlight
       /\ started' = started + 1
       /\ gatherState(Unused, NewGathering(started + 1), box)

\* A section's provider chain may have another to ask.
MayAskAgain(g) == g.step # "locate" /\ g.asks < MaxAsks

\* The exchange of a gathering is settled and the gathering goes on.  A section
\* may ask again, down its chain of providers, and may fail whatever came back
\* or, with a held scale, succeed though nothing did.
StepSettles(k) ==
    LET g == tick[k]
    IN  /\ g # None
        /\ Settled(k)
        /\ \/ /\ g.step = "locate"
              /\ \/ http[k] = "resolved" /\ GathersWatering(k, g, outbox)
                 \/ Publishes(k, Unlocated(g), outbox)
           \/ /\ MayAskAgain(g)
              /\ Asks(k, [g EXCEPT !.asks = @ + 1], outbox)
           \/ /\ g.step = "watering"
              /\ \E ok \in BOOLEAN : GathersWeather(k, With(g, "watering", ok), outbox)
           \/ /\ g.step = "weather"
              /\ \E ok \in BOOLEAN :
                    /\ ok => http[k] = "resolved"
                    /\ GathersBudget(k, With(g, "weather", ok), outbox)
        /\ UNCHANGED <<started, timers, brokerVars>>

TimerFires ==
    /\ timers < MaxTimers
    /\ timers' = timers + 1
    /\ Tick(outbox)
    /\ UNCHANGED brokerVars

\* Mutant: a reconnect announces the service only when it starts a tick.
ConnectsQuietly ==
    /\ link = "down"
    /\ link' = "up"
    /\ session' = TRUE
    /\ retained' = [retained EXCEPT !["availability"] =
                      IF session THEN Message("availability", 0, "offline") ELSE @]
    /\ reported' = FALSE
    /\ Tick(IF inFlight THEN outbox ELSE outbox \o Announcement)
    /\ UNCHANGED <<drops, timers>>

\* onConnect: the announcement is always published, and a tick is started.  If
\* the broker still held an old connection its will comes first.
Connects ==
    /\ link = "down"
    /\ link' = "up"
    /\ session' = TRUE
    /\ retained' = [retained EXCEPT !["availability"] =
                      IF session THEN Message("availability", 0, "offline") ELSE @]
    /\ reported' = FALSE
    /\ Tick(outbox \o Announcement)
    /\ UNCHANGED <<drops, timers>>

\* The client notices that its connection is gone.
ClientDrops ==
    /\ link = "up"
    /\ drops < MaxDrops
    /\ drops' = drops + 1
    /\ link' = "down"
    /\ outbox' = <<>>
    /\ UNCHANGED <<http, inFlight, tick, started, session, retained, reported, timers>>

\* The broker gives the connection up and publishes the last will.
BrokerDrops ==
    /\ session
    /\ link = "up" => drops < MaxDrops
    /\ session' = FALSE
    /\ retained' = [retained EXCEPT !["availability"] = Message("availability", 0, "offline")]
    /\ UNCHANGED <<http, inFlight, tick, started, link, outbox, reported, drops, timers>>

\* The broker takes the next message and retains it.
Delivers ==
    /\ link = "up"
    /\ session
    /\ outbox # <<>>
    /\ outbox' = Tail(outbox)
    /\ retained' = [retained EXCEPT ![Head(outbox).topic] = Head(outbox)]
    /\ reported' = (reported \/ Head(outbox).topic = "status")
    /\ UNCHANGED <<http, inFlight, tick, started, link, session, drops, timers>>

HttpMoves(k) ==
    /\ NetworkStep(k)
    /\ UNCHANGED <<inFlight, tick, started, outbox, timers, brokerVars>>

TimeoutFires(k) ==
    /\ TimesOut(k)
    /\ UNCHANGED <<inFlight, tick, started, outbox, timers, brokerVars>>

Next ==
    \/ \E k \in Ticks : StepSettles(k) \/ HttpMoves(k) \/ TimeoutFires(k)
    \/ TimerFires
    \/ Connects
    \/ ClientDrops
    \/ BrokerDrops
    \/ Delivers

Spec == Init /\ [][Next]_publisherVars

\* Node runs every callback that is due, its timers fire, and the broker reads
\* what is on an open connection.  Nothing is assumed of the network.
EventLoopIsFair ==
    /\ \A k \in Ticks : WF_publisherVars(StepSettles(k)) /\ WF_publisherVars(TimeoutFires(k))
    /\ WF_publisherVars(Delivers)

FairSpec == Spec /\ EventLoopIsFair
----------------------------------------------------------------------------
(* Properties *)

Pending(topic) == \E i \in DOMAIN outbox : outbox[i].topic = topic

\* docs/superpowers/specs/2026-06-06-mqtt-publisher-design.md: availability
\* reflects only the broker connection.  While both ends hold the connection the
\* retained availability is "online" or "online" is on its way, whatever ticks
\* did; without one it is never "online".
AvailabilityFollowsTheConnection ==
    LET a == retained["availability"]
    IN  /\ (link = "up" /\ session) =>
              Pending("availability") \/ (a # None /\ a.says = "online")
        /\ ~session => a = None \/ a.says = "offline"

\* The same design: status.ok says that all sections succeeded.  A retained
\* status that says so never stands beside an older watering or weather state,
\* whatever connections were lost in the middle of a tick's messages.
StatusMatchesSections ==
    LET s == retained["status"]
    IN  (s # None /\ s.says = "ok") =>
            \A t \in {"watering", "weather"} :
                retained[t] # None /\ retained[t].no >= s.no

\* The same design: no overlapping ticks, because overlapping retained publishes
\* could race.  No topic ever goes back to the state of an earlier tick.
RetainedNeverGoesBack ==
    [][\A t \in Topics : retained[t] # None => retained'[t] # None /\ retained'[t].no >= retained[t].no]_publisherVars

\* mqtt/MqttPublisher.ts: every connection is followed by a status, also when
\* its own tick was skipped because another was in flight.
EveryConnectionIsReported ==
    (link = "up" /\ session) ~> (reported \/ link = "down" \/ ~session)

\* The same design: a weather call can hang only to its timeout, so a tick ends
\* and the next one is not skipped for ever.
TicksEnd == inFlight ~> ~inFlight
============================================================================
