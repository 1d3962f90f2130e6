-------------------------- MODULE MqttPublisher_proofs --------------------------
(***************************************************************************)
(* Proofs about the publisher: for any number of ticks, connections and     *)
(* provider chains, the retained topics agree with the connection and with  *)
(* each other.                                                              *)
(***************************************************************************)
EXTENDS MqttPublisher, TLAPS

States2 == {"watering", "weather"}

\* The topics that no tick is known by.
Standing == {"availability", "discovery"}

\* A status that says ok has not forgotten that one of the sections S failed.
Covers(g, S) == g.ok => S \subseteq g.got

\* What can be said of a gathering that waits.
GotSound(g) == g.step = "weather" => Covers(g, {"watering"})

\* What a gathering that ends may publish.
Endings == {g \in Gatherings : Covers(g, States2)}

\* However far a gathering runs on, it waits in a sound state or it ends.
Outcome(k, no, box) ==
    \/ \E g \in Gatherings : g.no = no /\ GotSound(g) /\ Asks(k, g, box)
    \/ \E g \in Endings : g.no = no /\ Publishes(k, g, box)

\* Messages that are on their way to the topics ret, none of them later than n.
BoxSound(box, ret, n) ==
    /\ \A i \in DOMAIN box :
          /\ box[i].no <= n
          /\ box[i].topic \in Standing => box[i].no = 0
          /\ box[i].topic = "availability" => box[i].says = "online"
          /\ ret[box[i].topic] # None => ret[box[i].topic].no <= box[i].no
    /\ \A i, j \in DOMAIN box :
          (i < j /\ box[i].topic = box[j].topic) => box[i].no <= box[j].no
    /\ \A i \in DOMAIN box : (box[i].topic = "status" /\ box[i].says = "ok") =>
          \A t \in States2 :
             \/ \E j \in DOMAIN box : j < i /\ box[j].topic = t /\ box[j].no >= box[i].no
             \/ ret[t] # None /\ ret[t].no >= box[i].no

\* What is retained is not later than n, and the status agrees with the sections.
RetainedSound(ret, n) ==
    /\ \A t \in Topics : ret[t] # None =>
          ret[t].no <= n /\ (t \in Standing => ret[t].no = 0)
    /\ (ret["status"] # None /\ ret["status"].says = "ok") =>
          \A t \in States2 : ret[t] # None /\ ret[t].no >= ret["status"].no

\* inFlight is set exactly while one gathering, the latest, is under way.
OneTick ==
    /\ \A k \in Ticks : tick[k] # None => inFlight /\ tick[k].no = started /\ GotSound(tick[k])
    /\ \A k, j \in Ticks : (tick[k] # None /\ tick[j] # None) => k = j

PublisherInv ==
    /\ TypeOK
    /\ OneTick
    /\ BoxSound(outbox, retained, started)
    /\ RetainedSound(retained, started)
    /\ AvailabilityFollowsTheConnection
----------------------------------------------------------------------------
(* The payloads of a tick *)

\* The messages of a joined sequence are those of its parts.
LEMMA Joined ==
    ASSUME NEW S, NEW s \in Seq(S), NEW t \in Seq(S)
    PROVE  /\ s \o t \in Seq(S) /\ Len(s \o t) = Len(s) + Len(t)
           /\ \A i \in 1 .. Len(s) : (s \o t)[i] = s[i]
           /\ \A i \in 1 .. Len(t) : (s \o t)[Len(s) + i] = t[i]
  OBVIOUS

\* All payloads of a tick have its number, and its status follows its sections.
LEMMA PayloadFacts ==
    ASSUME NEW no \in Nat, NEW got \in SUBSET Sections, NEW ok \in BOOLEAN
    PROVE  LET pay == buildStatePayloads(no, got, ok)
           IN  /\ pay \in Seq(Messages)
               /\ \A i \in DOMAIN pay :
                     /\ pay[i].no = no
                     /\ pay[i].topic \in Sections \cup {"status"}
                     /\ pay[i].topic = "status" => pay[i].says = (IF ok THEN "ok" ELSE "failed")
               /\ \A t \in got, i \in DOMAIN pay : pay[i].topic = "status" =>
                     \E j \in DOMAIN pay : j < i /\ pay[j].topic = t
  <1> DEFINE a == Part("watering", no, got)
             b == Part("weather", no, got)
             c == Part("budget", no, got)
             d == Status(no, ok)
             pay == buildStatePayloads(no, got, ok)
  <1>1. /\ Message("watering", no, "state") \in Messages
        /\ Message("weather", no, "state") \in Messages
        /\ Message("budget", no, "state") \in Messages
        /\ Message("status", no, IF ok THEN "ok" ELSE "failed") \in Messages
    BY DEF Message, Messages, Topics, Sections
  <1>2. a \in Seq(Messages) /\ b \in Seq(Messages) /\ c \in Seq(Messages) /\ d \in Seq(Messages)
    BY <1>1 DEF Part, Status
  <1>3. /\ Len(a) = IF "watering" \in got THEN 1 ELSE 0
        /\ Len(b) = IF "weather" \in got THEN 1 ELSE 0
        /\ Len(c) = IF "budget" \in got THEN 1 ELSE 0
        /\ Len(d) = 1
    BY DEF Part, Status
  <1>4. /\ "watering" \in got => a[1] = Message("watering", no, "state")
        /\ "weather" \in got => b[1] = Message("weather", no, "state")
        /\ "budget" \in got => c[1] = Message("budget", no, "state")
        /\ d[1] = Message("status", no, IF ok THEN "ok" ELSE "failed")
    BY DEF Part, Status
  <1>5. pay = ((a \o b) \o c) \o d
    BY DEF buildStatePayloads
  <1> HIDE DEF a, b, c, d, pay
  <1>6. /\ pay \in Seq(Messages)
        /\ Len(pay) = Len(a) + Len(b) + Len(c) + Len(d)
        /\ "watering" \in got => pay[1] = a[1]
        /\ "weather" \in got => pay[Len(a) + 1] = b[1]
        /\ "budget" \in got => pay[Len(a) + Len(b) + 1] = c[1]
        /\ pay[Len(a) + Len(b) + Len(c) + 1] = d[1]
    <2> DEFINE ab == a \o b
               abc == ab \o c
    <2>1. /\ ab \in Seq(Messages) /\ Len(ab) = Len(a) + Len(b)
          /\ "watering" \in got => ab[1] = a[1]
          /\ "weather" \in got => ab[Len(a) + 1] = b[1]
      BY <1>2, <1>3, Joined
    <2> HIDE DEF ab
    <2>2. /\ abc \in Seq(Messages) /\ Len(abc) = Len(ab) + Len(c)
          /\ "watering" \in got => abc[1] = a[1]
          /\ "weather" \in got => abc[Len(a) + 1] = b[1]
          /\ "budget" \in got => abc[Len(ab) + 1] = c[1]
      BY <1>2, <1>3, <2>1, Joined
    <2> HIDE DEF abc
    <2>3. pay = abc \o d
      BY <1>5 DEF abc, ab
    <2>4. /\ pay \in Seq(Messages) /\ Len(pay) = Len(abc) + Len(d)
          /\ \A i \in 1 .. Len(abc) : pay[i] = abc[i]
          /\ pay[Len(abc) + 1] = d[1]
      BY <1>2, <1>3, <2>2, <2>3, Joined, SMTT(30)
    <2>5. /\ Len(abc) = Len(a) + Len(b) + Len(c)
          /\ Len(a) \in Nat /\ Len(b) \in Nat /\ Len(c) \in Nat
      BY <1>3, <2>1, <2>2
    <2>6. /\ "watering" \in got => 1 \in 1 .. Len(abc)
          /\ "weather" \in got => Len(a) + 1 \in 1 .. Len(abc)
          /\ "budget" \in got => Len(ab) + 1 \in 1 .. Len(abc)
      BY <1>3, <2>1, <2>5
    <2>7. QED
      BY <1>3, <2>1, <2>2, <2>4, <2>5, <2>6
  <1>7. DOMAIN pay = 1 .. Len(pay)
    BY <1>6
  <1>8. \A i \in DOMAIN pay :
           \/ "watering" \in got /\ i = 1
           \/ "weather" \in got /\ i = Len(a) + 1
           \/ "budget" \in got /\ i = Len(a) + Len(b) + 1
           \/ i = Len(a) + Len(b) + Len(c) + 1
    BY <1>3, <1>6, <1>7
  <1>9. \A i \in DOMAIN pay :
           \/ "watering" \in got /\ i = 1 /\ pay[i] = Message("watering", no, "state")
           \/ "weather" \in got /\ i = Len(a) + 1 /\ pay[i] = Message("weather", no, "state")
           \/ "budget" \in got /\ i = Len(a) + Len(b) + 1 /\ pay[i] = Message("budget", no, "state")
           \/ i = Len(pay) /\ pay[i] = Message("status", no, IF ok THEN "ok" ELSE "failed")
    BY <1>3, <1>4, <1>6, <1>8
  <1>10. \A t \in got : \E j \in DOMAIN pay : j < Len(pay) /\ pay[j].topic = t
    <2>1. TAKE t \in got
    <2>2. t \in {"watering", "weather", "budget"}
      BY DEF Sections
    <2>3. CASE t = "watering"
      <3>1. 1 \in DOMAIN pay /\ 1 < Len(pay)
        BY <1>3, <1>6, <1>7, <2>3
      <3>2. pay[1].topic = t
        BY <1>4, <1>6, <2>3 DEF Message
      <3>3. QED
        BY <3>1, <3>2
    <2>4. CASE t = "weather"
      <3>1. Len(a) + 1 \in DOMAIN pay /\ Len(a) + 1 < Len(pay)
        BY <1>3, <1>6, <1>7, <2>4
      <3>2. pay[Len(a) + 1].topic = t
        BY <1>4, <1>6, <2>4 DEF Message
      <3>3. QED
        BY <3>1, <3>2
    <2>5. CASE t = "budget"
      <3>1. Len(a) + Len(b) + 1 \in DOMAIN pay /\ Len(a) + Len(b) + 1 < Len(pay)
        BY <1>3, <1>6, <1>7, <2>5
      <3>2. pay[Len(a) + Len(b) + 1].topic = t
        BY <1>4, <1>6, <2>5 DEF Message
      <3>3. QED
        BY <3>1, <3>2
    <2>6. QED
      BY <2>2, <2>3, <2>4, <2>5
  <1>11. \A i \in DOMAIN pay :
            /\ pay[i].no = no
            /\ pay[i].topic \in Sections \cup {"status"}
            /\ pay[i].topic = "status" =>
                  i = Len(pay) /\ pay[i].says = (IF ok THEN "ok" ELSE "failed")
    BY <1>9 DEF Message, Sections
  <1>12. QED
    BY <1>6, <1>10, <1>11 DEF pay
----------------------------------------------------------------------------
(* How far a gathering runs on *)

\* A gathering keeps its number, and ok covers one section more.
LEMMA WithFacts ==
    ASSUME NEW g \in Gatherings, NEW section \in Sections, NEW ok \in BOOLEAN
    PROVE  /\ With(g, section, ok) \in Gatherings /\ With(g, section, ok).no = g.no
           /\ \A S : Covers(g, S) => Covers(With(g, section, ok), S \cup {section})
  <1> DEFINE w == With(g, section, ok)
  <1>1. /\ w.no = g.no
        /\ w.got = IF ok THEN g.got \cup {section} ELSE g.got
    BY DEF With, Gatherings
  <1>2. w.ok = (g.ok /\ ok)
    BY DEF With, Gatherings
  <1>3. w \in Gatherings
    <2>1. PICK v \in BOOLEAN : v = (g.ok /\ ok)
      OBVIOUS
    <2>2. PICK s \in SUBSET Sections : s = IF ok THEN g.got \cup {section} ELSE g.got
      BY DEF Gatherings
    <2>3. w = [g EXCEPT !.got = s, !.ok = v, !.asks = 1]
      BY <2>1, <2>2 DEF With, Gatherings
    <2>4. 1 \in 1 .. MaxAsks
      BY PublisherAssumption
    <2>5. QED
      BY <2>3, <2>4 DEF Gatherings
  <1>4. \A S : Covers(g, S) => Covers(w, S \cup {section})
    <2>1. w.ok => ok /\ g.ok /\ w.got = g.got \cup {section}
      BY <1>1, <1>2
    <2> HIDE DEF w
    <2>2. QED
      BY <2>1 DEF Covers
  <1>5. QED
    BY <1>1, <1>3, <1>4

\* Each section, joined to what was gathered before it.
LEMMA WithWatering ==
    ASSUME NEW g \in Gatherings, NEW ok \in BOOLEAN
    PROVE  /\ With(g, "watering", ok) \in Gatherings /\ With(g, "watering", ok).no = g.no
           /\ Covers(With(g, "watering", ok), {"watering"})
  <1>1. PICK section \in Sections : section = "watering"
    BY DEF Sections
  <1>2. Covers(g, {}) /\ {} \cup {section} = {section}
    BY DEF Covers
  <1>3. Covers(With(g, section, ok), {section})
    BY <1>2, WithFacts
  <1>4. With(g, section, ok) \in Gatherings /\ With(g, section, ok).no = g.no
    BY WithFacts
  <1>5. QED
    BY <1>1, <1>3, <1>4

LEMMA WithWeather ==
    ASSUME NEW g \in Gatherings, NEW ok \in BOOLEAN, Covers(g, {"watering"})
    PROVE  With(g, "weather", ok) \in Endings /\ With(g, "weather", ok).no = g.no
  <1>1. PICK section \in Sections : section = "weather"
    BY DEF Sections
  <1>2. {"watering"} \cup {section} = States2
    BY <1>1 DEF States2
  <1>3. /\ With(g, section, ok) \in Gatherings /\ With(g, section, ok).no = g.no
        /\ Covers(With(g, section, ok), States2)
    BY <1>2, WithFacts
  <1>4. QED
    BY <1>1, <1>3 DEF Endings

LEMMA WithBudget ==
    ASSUME NEW g \in Endings, NEW ok \in BOOLEAN
    PROVE  With(g, "budget", ok) \in Endings /\ With(g, "budget", ok).no = g.no
  <1>1. PICK section \in Sections : section = "budget"
    BY DEF Sections
  <1>2. g \in Gatherings /\ Covers(g, States2)
    BY DEF Endings
  <1>3. /\ With(g, section, ok) \in Gatherings /\ With(g, section, ok).no = g.no
        /\ Covers(With(g, section, ok), States2 \cup {section})
    BY <1>2, WithFacts
  <1>4. With(g, section, ok) \in Endings
    BY <1>3 DEF Endings, Covers
  <1>5. QED
    BY <1>1, <1>3, <1>4

LEMMA BudgetOutcome ==
    ASSUME NEW k \in Ticks, NEW box, NEW g \in Endings, GathersBudget(k, g, box)
    PROVE  Outcome(k, g.no, box)
  <1>1. CASE Publishes(k, g, box)
    BY <1>1 DEF Outcome
  <1>2. ASSUME NEW ok \in BOOLEAN, Publishes(k, With(g, "budget", ok), box)
        PROVE  Outcome(k, g.no, box)
    <2>1. With(g, "budget", ok) \in Endings /\ With(g, "budget", ok).no = g.no
      BY WithBudget
    <2>2. QED
      BY <1>2, <2>1 DEF Outcome
  <1>3. QED
    BY <1>1, <1>2 DEF GathersBudget

\* A gathering may go on to wait in a step it asks in anew.
LEMMA AskingAnew ==
    ASSUME NEW g \in Gatherings, NEW step \in {"locate", "watering", "weather"}
    PROVE  \E h \in Gatherings : /\ h = [g EXCEPT !.step = step, !.asks = 1]
                                  /\ h.no = g.no /\ h.step = step
                                  /\ \A S : Covers(g, S) => Covers(h, S)
  <1> DEFINE h == [g EXCEPT !.step = step, !.asks = 1]
  <1>1. 1 \in 1 .. MaxAsks
    BY PublisherAssumption
  <1>2. h \in Gatherings
    BY <1>1 DEF Gatherings
  <1>3. h.no = g.no /\ h.step = step /\ h.got = g.got
    BY DEF Gatherings
  <1>4. h.ok = g.ok
    BY DEF Gatherings
  <1> HIDE DEF h
  <1>5. \A S : Covers(g, S) => Covers(h, S)
    BY <1>3, <1>4 DEF Covers
  <1>6. QED
    BY <1>2, <1>3, <1>5 DEF h

LEMMA WeatherOutcome ==
    ASSUME NEW k \in Ticks, NEW box, NEW g \in Gatherings,
           Covers(g, {"watering"}), GathersWeather(k, g, box)
    PROVE  Outcome(k, g.no, box)
  <1>1. CASE Asks(k, [g EXCEPT !.step = "weather", !.asks = 1], box)
    <2>1. PICK h \in Gatherings : /\ h = [g EXCEPT !.step = "weather", !.asks = 1]
                                  /\ h.no = g.no /\ h.step = "weather"
                                  /\ \A S : Covers(g, S) => Covers(h, S)
      BY AskingAnew
    <2>2. QED
      BY <1>1, <2>1 DEF Outcome, GotSound
  <1>2. ASSUME NEW ok \in BOOLEAN, GathersBudget(k, With(g, "weather", ok), box)
        PROVE  Outcome(k, g.no, box)
    <2>1. With(g, "weather", ok) \in Endings /\ With(g, "weather", ok).no = g.no
      BY WithWeather
    <2>2. QED
      BY <1>2, <2>1, BudgetOutcome
  <1>3. QED
    BY <1>1, <1>2 DEF GathersWeather

LEMMA WateringOutcome ==
    ASSUME NEW k \in Ticks, NEW box, NEW g \in Gatherings, GathersWatering(k, g, box)
    PROVE  Outcome(k, g.no, box)
  <1>1. CASE Asks(k, [g EXCEPT !.step = "watering", !.asks = 1], box)
    <2>1. PICK h \in Gatherings : /\ h = [g EXCEPT !.step = "watering", !.asks = 1]
                                  /\ h.no = g.no /\ h.step = "watering"
      BY AskingAnew
    <2>2. QED
      BY <1>1, <2>1 DEF Outcome, GotSound
  <1>2. ASSUME NEW ok \in BOOLEAN, GathersWeather(k, With(g, "watering", ok), box)
        PROVE  Outcome(k, g.no, box)
    <2>1. /\ With(g, "watering", ok) \in Gatherings /\ With(g, "watering", ok).no = g.no
          /\ Covers(With(g, "watering", ok), {"watering"})
      BY WithWatering
    <2>2. QED
      BY <1>2, <2>1, WeatherOutcome
  <1>3. QED
    BY <1>1, <1>2 DEF GathersWatering

LEMMA UnlocatedOutcome ==
    ASSUME NEW k \in Ticks, NEW box, NEW g \in Gatherings, Publishes(k, Unlocated(g), box)
    PROVE  Outcome(k, g.no, box)
  <1>1. Unlocated(g) \in Endings /\ Unlocated(g).no = g.no
    BY DEF Unlocated, Endings, Covers, Gatherings
  <1>2. QED
    BY <1>1 DEF Outcome

\* A new tick waits or ends, like every other.
LEMMA NewOutcome ==
    ASSUME NEW k \in Ticks, NEW box, NEW no \in Nat, gatherState(k, NewGathering(no), box)
    PROVE  Outcome(k, no, box)
  <1>1. /\ NewGathering(no) \in Gatherings /\ NewGathering(no).no = no
        /\ GotSound(NewGathering(no))
    BY PublisherAssumption DEF NewGathering, Gatherings, GotSound
  <1>2. PICK g \in Gatherings : g = NewGathering(no) /\ g.no = no /\ GotSound(g)
    BY <1>1
  <1>3. gatherState(k, g, box)
    BY <1>2
  <1>4. QED
    BY <1>2, <1>3, WateringOutcome, UnlocatedOutcome DEF gatherState, Outcome

\* A settled exchange lets its gathering run on to the next wait or to the end.
LEMMA SettledOutcome ==
    ASSUME PublisherInv, NEW k \in Ticks, StepSettles(k)
    PROVE  Outcome(k, started, outbox) /\ UNCHANGED <<started, timers, brokerVars>>
  <1>1. tick[k] # None
    BY DEF StepSettles
  <1>2. PICK g \in Gatherings : g = tick[k]
    BY <1>1 DEF PublisherInv, TypeOK
  <1>3. g.no = started /\ GotSound(g)
    BY <1>1, <1>2 DEF PublisherInv, OneTick
  <1>4. CASE g.step = "locate"
    BY <1>2, <1>3, <1>4, WateringOutcome, UnlocatedOutcome DEF StepSettles, MayAskAgain
  <1>5. ASSUME MayAskAgain(g), Asks(k, [g EXCEPT !.asks = @ + 1], outbox)
        PROVE  Outcome(k, started, outbox)
    <2> DEFINE h == [g EXCEPT !.asks = @ + 1]
    <2>1. g.asks + 1 \in 1 .. MaxAsks
      BY <1>5, PublisherAssumption DEF Gatherings, MayAskAgain
    <2>2. h \in Gatherings
      BY <2>1 DEF Gatherings
    <2>3. h.no = g.no /\ h.step = g.step /\ h.got = g.got
      BY DEF Gatherings
    <2>4. h.ok = g.ok
      BY DEF Gatherings
    <2>5. Asks(k, h, outbox)
      BY <1>5
    <2> HIDE DEF h
    <2>6. GotSound(h)
      BY <1>3, <2>3, <2>4 DEF GotSound, Covers
    <2>7. QED
      BY <1>3, <2>2, <2>3, <2>5, <2>6 DEF Outcome
  <1>6. ASSUME g.step = "watering", NEW ok \in BOOLEAN,
               GathersWeather(k, With(g, "watering", ok), outbox)
        PROVE  Outcome(k, started, outbox)
    <2>1. /\ With(g, "watering", ok) \in Gatherings /\ With(g, "watering", ok).no = g.no
          /\ Covers(With(g, "watering", ok), {"watering"})
      BY WithWatering
    <2>2. QED
      BY <1>3, <1>6, <2>1, WeatherOutcome
  <1>7. ASSUME g.step = "weather", NEW ok \in BOOLEAN,
               GathersBudget(k, With(g, "weather", ok), outbox)
        PROVE  Outcome(k, started, outbox)
    <2>1. With(g, "weather", ok) \in Endings /\ With(g, "weather", ok).no = g.no
      BY <1>3, <1>7, WithWeather DEF GotSound
    <2>2. QED
      BY <1>3, <1>7, <2>1, BudgetOutcome
  <1>8. UNCHANGED <<started, timers, brokerVars>>
    BY DEF StepSettles
  <1>9. QED
    BY <1>2, <1>4, <1>5, <1>6, <1>7, <1>8 DEF StepSettles
----------------------------------------------------------------------------
(* What joining the messages of a tick to the others does *)

LEMMA AnnouncementFacts ==
    /\ Announcement \in Seq(Messages)
    /\ Len(Announcement) = 2
    /\ Announcement[1].topic = "availability"
    /\ \A i \in DOMAIN Announcement :
          /\ Announcement[i].no = 0 /\ Announcement[i].topic \in Standing
          /\ Announcement[i].topic = "availability" => Announcement[i].says = "online"
  BY DEF Announcement, Message, Messages, Topics, Sections, Standing

\* Later messages can always be joined to sound ones.
LEMMA JoinSound ==
    ASSUME NEW box \in Seq(Messages), NEW ret \in [Topics -> Messages \cup {None}],
           NEW n \in Nat, BoxSound(box, ret, n), RetainedSound(ret, n),
           NEW pay \in Seq(Messages), NEW m \in Nat, n <= m,
           \A i \in DOMAIN pay :
              /\ pay[i].no = IF pay[i].topic \in Standing THEN 0 ELSE m
              /\ pay[i].topic = "availability" => pay[i].says = "online"
              /\ (pay[i].topic = "status" /\ pay[i].says = "ok") =>
                    \A t \in States2 : \E j \in DOMAIN pay : j < i /\ pay[j].topic = t
    PROVE  BoxSound(box \o pay, ret, m)
  <1>1. PICK all \in Seq(Messages) : all = box \o pay
    BY Joined
  <1>2. /\ DOMAIN all = 1 .. Len(box) + Len(pay)
        /\ DOMAIN box = 1 .. Len(box) /\ DOMAIN pay = 1 .. Len(pay)
        /\ Len(box) \in Nat /\ Len(pay) \in Nat
        /\ \A i \in DOMAIN box : i \in DOMAIN all /\ all[i] = box[i]
        /\ \A i \in DOMAIN pay : Len(box) + i \in DOMAIN all /\ all[Len(box) + i] = pay[i]
    BY <1>1, Joined
  <1>3. \A i \in DOMAIN all : i \notin DOMAIN box =>
            \E j \in DOMAIN pay : i = Len(box) + j /\ all[i] = pay[j]
    <2>1. TAKE i \in DOMAIN all
    <2>2. HAVE i \notin DOMAIN box
    <2>3. i - Len(box) \in DOMAIN pay /\ i = Len(box) + (i - Len(box))
      BY <1>2, <2>2
    <2>4. QED
      BY <1>2, <2>3
  <1>4. \A i \in DOMAIN all : all[i] \in Messages /\ all[i].topic \in Topics /\ all[i].no \in Nat
    <2>1. \A i \in DOMAIN all : all[i] \in Messages
      OBVIOUS
    <2>2. QED
      BY <2>1 DEF Messages
  <1>5. \A t \in Topics : ret[t] # None => ret[t].no \in Nat /\ ret[t].no <= n
    BY DEF RetainedSound, Messages
  <1>6. \A i \in DOMAIN all :
          /\ all[i].no <= m
          /\ all[i].topic \in Standing => all[i].no = 0
          /\ all[i].topic = "availability" => all[i].says = "online"
          /\ ret[all[i].topic] # None => ret[all[i].topic].no <= all[i].no
    <2>1. TAKE i \in DOMAIN all
    <2>2. CASE i \in DOMAIN box
      BY <1>2, <1>4, <2>2 DEF BoxSound
    <2>3. CASE i \notin DOMAIN box
      <3>1. PICK j \in DOMAIN pay : i = Len(box) + j /\ all[i] = pay[j]
        BY <1>3, <2>3
      <3>2. QED
        BY <1>4, <1>5, <3>1 DEF RetainedSound
    <2>4. QED
      BY <2>2, <2>3
  <1>7. \A i, j \in DOMAIN all :
           (i < j /\ all[i].topic = all[j].topic) => all[i].no <= all[j].no
    <2>1. TAKE i, j \in DOMAIN all
    <2>2. HAVE i < j /\ all[i].topic = all[j].topic
    <2>3. CASE j \in DOMAIN box
      <3>1. i \in DOMAIN box
        BY <1>2, <2>2, <2>3
      <3>2. QED
        BY <1>2, <2>2, <2>3, <3>1 DEF BoxSound
    <2>4. CASE j \notin DOMAIN box
      <3>1. PICK l \in DOMAIN pay : j = Len(box) + l /\ all[j] = pay[l]
        BY <1>3, <2>4
      <3>2. all[j].no = IF all[j].topic \in Standing THEN 0 ELSE m
        BY <3>1
      <3>3. QED
        BY <1>4, <1>6, <2>2, <3>2
    <2>5. QED
      BY <2>3, <2>4
  <1>8. \A i \in DOMAIN all : (all[i].topic = "status" /\ all[i].says = "ok") =>
          \A t \in States2 :
             \/ \E j \in DOMAIN all : j < i /\ all[j].topic = t /\ all[j].no >= all[i].no
             \/ ret[t] # None /\ ret[t].no >= all[i].no
    <2>1. TAKE i \in DOMAIN all
    <2>2. HAVE all[i].topic = "status" /\ all[i].says = "ok"
    <2>3. TAKE t \in States2
    <2>4. CASE i \in DOMAIN box
      <3>1. \/ \E j \in DOMAIN box : j < i /\ box[j].topic = t /\ box[j].no >= box[i].no
            \/ ret[t] # None /\ ret[t].no >= box[i].no
        BY <1>2, <2>2, <2>4 DEF BoxSound
      <3>2. QED
        BY <1>2, <2>4, <3>1
    <2>5. CASE i \notin DOMAIN box
      <3>1. PICK l \in DOMAIN pay : i = Len(box) + l /\ all[i] = pay[l]
        BY <1>3, <2>5
      <3>2. PICK j \in DOMAIN pay : j < l /\ pay[j].topic = t
        BY <2>2, <3>1
      <3>3. /\ Len(box) + j \in DOMAIN all /\ Len(box) + j < i
            /\ all[Len(box) + j] = pay[j] /\ all[Len(box) + j].no = m
            /\ all[i].no = m
        <4>1. pay[j].topic \notin Standing /\ pay[l].topic \notin Standing
          BY <2>2, <3>1, <3>2 DEF States2, Standing
        <4>2. j \in Int /\ l \in Int /\ Len(box) \in Int
          BY <1>2
        <4>3. QED
          BY <1>2, <3>1, <3>2, <4>1, <4>2
      <3>4. QED
        BY <3>2, <3>3
    <2>6. QED
      BY <2>4, <2>5
  <1>9. BoxSound(all, ret, m)
    BY <1>6, <1>7, <1>8 DEF BoxSound
  <1>10. QED
    BY <1>1, <1>9

\* The messages that a connection or a finished tick publishes can be joined.
LEMMA JoinAnnouncement ==
    ASSUME NEW box \in Seq(Messages), NEW ret \in [Topics -> Messages \cup {None}],
           NEW n \in Nat, BoxSound(box, ret, n), RetainedSound(ret, n)
    PROVE  box \o Announcement \in Seq(Messages) /\ BoxSound(box \o Announcement, ret, n)
  <1>1. PICK pay \in Seq(Messages) : pay = Announcement
    BY AnnouncementFacts
  <1>2. \A i \in DOMAIN pay :
           /\ pay[i].no = 0 /\ pay[i].topic \in Standing
           /\ pay[i].topic = "availability" => pay[i].says = "online"
    BY <1>1, AnnouncementFacts
  <1>3. \A i \in DOMAIN pay : pay[i].topic # "status"
    BY <1>2 DEF Standing
  <1>4. BoxSound(box \o pay, ret, n)
    BY <1>2, <1>3, JoinSound
  <1>5. QED
    BY <1>1, <1>4, Joined

LEMMA JoinPayloads ==
    ASSUME NEW box \in Seq(Messages), NEW ret \in [Topics -> Messages \cup {None}],
           NEW n \in Nat, BoxSound(box, ret, n), RetainedSound(ret, n),
           NEW g \in Endings, n <= g.no
    PROVE  LET all == box \o buildStatePayloads(g.no, g.got, g.ok)
           IN  all \in Seq(Messages) /\ BoxSound(all, ret, g.no)
  <1>1. g.no \in Nat /\ g.got \in SUBSET Sections /\ g.ok \in BOOLEAN /\ Covers(g, States2)
    BY DEF Endings, Gatherings
  <1>2. PICK pay \in Seq(Messages) : pay = buildStatePayloads(g.no, g.got, g.ok)
    BY <1>1, PayloadFacts
  <1>3. \A i \in DOMAIN pay :
           /\ pay[i].no = g.no
           /\ pay[i].topic \in Sections \cup {"status"}
           /\ pay[i].topic = "status" => pay[i].says = (IF g.ok THEN "ok" ELSE "failed")
    <2>1. PICK ok \in BOOLEAN : ok = g.ok
      BY <1>1
    <2>2. pay = buildStatePayloads(g.no, g.got, ok)
      BY <1>2, <2>1
    <2>3. \A i \in DOMAIN pay :
             /\ pay[i].no = g.no
             /\ pay[i].topic \in Sections \cup {"status"}
             /\ pay[i].topic = "status" => pay[i].says = (IF ok THEN "ok" ELSE "failed")
      BY <1>1, <2>2, PayloadFacts
    <2>4. QED
      BY <2>1, <2>3
  <1>4. \A t \in g.got, i \in DOMAIN pay : pay[i].topic = "status" =>
            \E j \in DOMAIN pay : j < i /\ pay[j].topic = t
    BY <1>1, <1>2, PayloadFacts
  <1>5. \A i \in DOMAIN pay : pay[i].topic \notin Standing
    BY <1>3 DEF Sections, Standing
  <1>6. \A i \in DOMAIN pay : (pay[i].topic = "status" /\ pay[i].says = "ok") =>
            \A t \in States2 : \E j \in DOMAIN pay : j < i /\ pay[j].topic = t
    <2>1. TAKE i \in DOMAIN pay
    <2>2. HAVE pay[i].topic = "status" /\ pay[i].says = "ok"
    <2>3. g.ok
      BY <1>3, <2>2
    <2>4. States2 \subseteq g.got
      BY <1>1, <2>3 DEF Covers
    <2>5. QED
      BY <1>4, <2>2, <2>4
  <1>7. \A i \in DOMAIN pay :
           /\ pay[i].no = IF pay[i].topic \in Standing THEN 0 ELSE g.no
           /\ pay[i].topic = "availability" => pay[i].says = "online"
    BY <1>3, <1>5 DEF Standing
  <1>8. BoxSound(box \o pay, ret, g.no)
    BY <1>1, <1>6, <1>7, JoinSound
  <1>9. QED
    BY <1>2, <1>8, Joined
----------------------------------------------------------------------------
(* What the broker does to its retained messages *)

\* The broker's next message replaces an older one of its topic, and a status
\* that says ok comes after the sections it speaks of.
LEMMA TakeSound ==
    ASSUME NEW box \in Seq(Messages), box # <<>>,
           NEW ret \in [Topics -> Messages \cup {None}],
           NEW n \in Nat, BoxSound(box, ret, n), RetainedSound(ret, n)
    PROVE  LET now == [ret EXCEPT ![Head(box).topic] = Head(box)]
           IN  /\ now \in [Topics -> Messages \cup {None}]
               /\ Tail(box) \in Seq(Messages)
               /\ BoxSound(Tail(box), now, n)
               /\ RetainedSound(now, n)
               /\ \A t \in Topics : ret[t] # None => now[t] # None /\ now[t].no >= ret[t].no
  <1>1. PICK m \in Messages : m = Head(box) /\ m = box[1]
    OBVIOUS
  <1>2. m.topic \in Topics /\ m.no \in Nat
    BY DEF Messages
  <1>3. PICK now : now = [ret EXCEPT ![m.topic] = m]
    OBVIOUS
  <1>4. /\ now \in [Topics -> Messages \cup {None}]
        /\ now[m.topic] = m
        /\ \A t \in Topics : t # m.topic => now[t] = ret[t]
    BY <1>2, <1>3
  <1>5. PICK rest \in Seq(Messages) : rest = Tail(box)
    <2>1. Tail(box) \in Seq(Messages)
      OBVIOUS
    <2>2. QED
      BY <2>1
  <1>6. /\ 1 \in DOMAIN box /\ DOMAIN box \subseteq Int
        /\ DOMAIN rest \subseteq Int
        /\ \A i \in DOMAIN rest : i + 1 \in DOMAIN box /\ rest[i] = box[i + 1]
        /\ \A i \in DOMAIN box : i # 1 => i - 1 \in DOMAIN rest /\ i > 1
    BY <1>5
  <1>7. /\ m.no <= n
        /\ m.topic \in Standing => m.no = 0
        /\ ret[m.topic] # None => ret[m.topic].no <= m.no
    BY <1>1, <1>6 DEF BoxSound
  <1>8. m # None
    BY NothingAssumption
  <1>9. \A i \in DOMAIN box : box[i] \in Messages /\ box[i].topic \in Topics /\ box[i].no \in Nat
    <2>1. \A i \in DOMAIN box : box[i] \in Messages
      OBVIOUS
    <2>2. QED
      BY <2>1 DEF Messages
  <1>10. \A t \in Topics : ret[t] # None => ret[t].no \in Nat
    BY DEF Messages
  <1>11. \A t \in Topics : ret[t] # None => now[t] # None /\ now[t].no >= ret[t].no
    BY <1>2, <1>4, <1>7, <1>8, <1>10
  <1>12. RetainedSound(now, n)
    <2>1. \A t \in Topics : now[t] # None =>
              now[t].no <= n /\ (t \in Standing => now[t].no = 0)
      BY <1>4, <1>7 DEF RetainedSound
    <2>2. (now["status"] # None /\ now["status"].says = "ok") =>
              \A t \in States2 : now[t] # None /\ now[t].no >= now["status"].no
      <3>1. HAVE now["status"] # None /\ now["status"].says = "ok"
      <3>2. TAKE t \in States2
      <3>3. t \in Topics /\ t # "status" /\ "status" \in Topics
        BY DEF States2, Topics, Sections
      <3>4. CASE m.topic = "status"
        <4>1. m.says = "ok"
          BY <1>4, <3>1, <3>4
        <4>2. ret[t] # None /\ ret[t].no >= m.no
          BY <1>1, <1>6, <3>4, <4>1 DEF BoxSound
        <4>3. QED
          BY <1>4, <3>3, <3>4, <4>2
      <3>5. CASE m.topic # "status"
        <4>1. now["status"] = ret["status"]
          BY <1>4, <3>3, <3>5
        <4>2. ret[t] # None /\ ret[t].no >= now["status"].no
          BY <3>1, <4>1 DEF RetainedSound
        <4>3. now[t] # None /\ now[t].no >= ret[t].no
          BY <1>11, <3>3, <4>2
        <4>4. now["status"].no \in Nat /\ ret[t].no \in Nat /\ now[t].no \in Nat
          BY <1>4, <3>1, <3>3, <4>2, <4>3 DEF Messages
        <4>5. QED
          BY <4>2, <4>3, <4>4
      <3>6. QED
        BY <3>4, <3>5
    <2>3. QED
      BY <2>1, <2>2 DEF RetainedSound
  <1>13. \A i \in DOMAIN rest :
            /\ rest[i].no <= n
            /\ rest[i].topic \in Standing => rest[i].no = 0
            /\ rest[i].topic = "availability" => rest[i].says = "online"
            /\ now[rest[i].topic] # None => now[rest[i].topic].no <= rest[i].no
    <2>1. TAKE i \in DOMAIN rest
    <2>2. i + 1 \in DOMAIN box /\ rest[i] = box[i + 1] /\ 1 < i + 1
      BY <1>6
    <2>3. /\ rest[i].no <= n
          /\ rest[i].topic \in Standing => rest[i].no = 0
          /\ rest[i].topic = "availability" => rest[i].says = "online"
          /\ ret[rest[i].topic] # None => ret[rest[i].topic].no <= rest[i].no
      BY <2>2 DEF BoxSound
    <2>4. rest[i].topic \in Topics
      BY <1>9, <2>2
    <2>5. CASE rest[i].topic = m.topic
      <3>1. m.no <= rest[i].no
        BY <1>1, <1>6, <2>2, <2>5 DEF BoxSound
      <3>2. QED
        BY <1>4, <2>3, <2>5, <3>1
    <2>6. CASE rest[i].topic # m.topic
      BY <1>4, <2>3, <2>4, <2>6
    <2>7. QED
      BY <2>5, <2>6
  <1>14. \A i, j \in DOMAIN rest :
            (i < j /\ rest[i].topic = rest[j].topic) => rest[i].no <= rest[j].no
    <2>1. TAKE i, j \in DOMAIN rest
    <2>2. HAVE i < j /\ rest[i].topic = rest[j].topic
    <2>3. /\ i + 1 \in DOMAIN box /\ rest[i] = box[i + 1]
          /\ j + 1 \in DOMAIN box /\ rest[j] = box[j + 1]
          /\ i + 1 < j + 1
      BY <1>6, <2>2
    <2>4. QED
      BY <2>2, <2>3 DEF BoxSound
  <1>15. \A i \in DOMAIN rest : (rest[i].topic = "status" /\ rest[i].says = "ok") =>
            \A t \in States2 :
               \/ \E j \in DOMAIN rest : j < i /\ rest[j].topic = t /\ rest[j].no >= rest[i].no
               \/ now[t] # None /\ now[t].no >= rest[i].no
    <2>1. TAKE i \in DOMAIN rest
    <2>2. HAVE rest[i].topic = "status" /\ rest[i].says = "ok"
    <2>3. TAKE t \in States2
    <2>4. i + 1 \in DOMAIN box /\ rest[i] = box[i + 1] /\ i \in Int
      BY <1>6
    <2>5. t \in Topics
      BY DEF States2, Topics, Sections
    <2>6. CASE ret[t] # None /\ ret[t].no >= rest[i].no
      <3>1. now[t] # None /\ now[t].no >= ret[t].no
        BY <1>11, <2>5, <2>6
      <3>2. now[t].no \in Nat /\ ret[t].no \in Nat /\ rest[i].no \in Nat
        BY <1>4, <1>9, <2>4, <2>5, <2>6, <3>1 DEF Messages
      <3>3. QED
        BY <2>6, <3>1, <3>2
    <2>7. CASE \E j \in DOMAIN box : j < i + 1 /\ box[j].topic = t /\ box[j].no >= box[i + 1].no
      <3>1. PICK j \in DOMAIN box : j < i + 1 /\ box[j].topic = t /\ box[j].no >= box[i + 1].no
        BY <2>7
      <3>2. CASE j = 1
        BY <1>1, <1>4, <1>8, <2>4, <3>1, <3>2
      <3>3. CASE j # 1
        <4>1. j \in Int /\ j - 1 \in DOMAIN rest /\ j - 1 < i /\ rest[j - 1] = box[(j - 1) + 1]
          BY <1>6, <2>4, <3>1, <3>3
        <4>2. (j - 1) + 1 = j
          BY <4>1
        <4>3. QED
          BY <2>4, <3>1, <4>1, <4>2
      <3>4. QED
        BY <3>2, <3>3
    <2>8. \/ ret[t] # None /\ ret[t].no >= rest[i].no
          \/ \E j \in DOMAIN box : j < i + 1 /\ box[j].topic = t /\ box[j].no >= box[i + 1].no
      BY <2>2, <2>4 DEF BoxSound
    <2>9. QED
      BY <2>6, <2>7, <2>8
  <1>16. BoxSound(rest, now, n)
    BY <1>13, <1>14, <1>15 DEF BoxSound
  <1>17. QED
    BY <1>1, <1>3, <1>4, <1>5, <1>11, <1>12, <1>16

\* The last will says nothing of any tick.
LEMMA WillSound ==
    ASSUME NEW box \in Seq(Messages), NEW ret \in [Topics -> Messages \cup {None}],
           NEW n \in Nat, BoxSound(box, ret, n), RetainedSound(ret, n)
    PROVE  LET now == [ret EXCEPT !["availability"] = Message("availability", 0, "offline")]
           IN  /\ now \in [Topics -> Messages \cup {None}]
               /\ now["availability"] # None /\ now["availability"].says = "offline"
               /\ BoxSound(box, now, n)
               /\ RetainedSound(now, n)
               /\ \A t \in Topics : ret[t] # None => now[t] # None /\ now[t].no >= ret[t].no
  <1>1. PICK m \in Messages : /\ m = Message("availability", 0, "offline")
                               /\ m.topic = "availability" /\ m.no = 0 /\ m.says = "offline"
    <2>1. Message("availability", 0, "offline") \in Messages
      BY DEF Message, Messages, Topics
    <2>2. QED
      BY <2>1 DEF Message
  <1>2. PICK now : now = [ret EXCEPT !["availability"] = m]
    OBVIOUS
  <1>3. "availability" \in Topics /\ "availability" \in Standing /\ "status" \in Topics
    BY DEF Topics, Standing
  <1>4. /\ now \in [Topics -> Messages \cup {None}]
        /\ now["availability"] = m
        /\ \A t \in Topics : t # "availability" => now[t] = ret[t]
    BY <1>2, <1>3
  <1>5. m # None
    BY NothingAssumption
  <1>6. /\ \A t \in Topics : ret[t] # None => ret[t].no \in Nat
        /\ \A i \in DOMAIN box : box[i].topic \in Topics /\ box[i].no \in Nat
    <2>1. \A i \in DOMAIN box : box[i] \in Messages
      OBVIOUS
    <2>2. QED
      BY <2>1 DEF Messages
  <1>7. \A t \in Topics : ret[t] # None => now[t] # None /\ now[t].no >= ret[t].no
    BY <1>1, <1>3, <1>4, <1>5, <1>6 DEF RetainedSound
  <1>8. \A t \in States2 : t \in Topics /\ now[t] = ret[t]
    BY <1>4 DEF States2, Topics, Sections
  <1>9. BoxSound(box, now, n)
    <2>1. \A i \in DOMAIN box : now[box[i].topic] # None => now[box[i].topic].no <= box[i].no
      BY <1>1, <1>4, <1>6 DEF BoxSound
    <2>2. QED
      BY <1>8, <2>1 DEF BoxSound
  <1>10. RetainedSound(now, n)
    <2>1. \A t \in Topics : now[t] # None =>
              now[t].no <= n /\ (t \in Standing => now[t].no = 0)
      BY <1>1, <1>4 DEF RetainedSound
    <2>2. now["status"] = ret["status"]
      BY <1>3, <1>4
    <2>3. QED
      BY <1>8, <2>1, <2>2 DEF RetainedSound
  <1>11. QED
    BY <1>1, <1>2, <1>4, <1>5, <1>7, <1>9, <1>10
----------------------------------------------------------------------------
(* The steps *)

\* A connection that is up has announced itself or is about to.
Announced(box, ret) ==
    \/ \E i \in DOMAIN box : box[i].topic = "availability"
    \/ ret["availability"] # None /\ ret["availability"].says = "online"

Unannounced(ret) ==
    ret["availability"] = None \/ ret["availability"].says = "offline"

LEMMA AvailabilityParts ==
    AvailabilityFollowsTheConnection <=>
       /\ (link = "up" /\ session) => Announced(outbox, retained)
       /\ ~session => Unannounced(retained)
  BY DEF AvailabilityFollowsTheConnection, Pending, Announced, Unannounced

\* Nothing of what has been published is taken back by joining more to it.
LEMMA JoinAnnounced ==
    ASSUME NEW S, NEW box \in Seq(S), NEW pay \in Seq(S), NEW ret, Announced(box, ret)
    PROVE  Announced(box \o pay, ret)
  <1>1. \A i \in DOMAIN box : i \in DOMAIN (box \o pay) /\ (box \o pay)[i] = box[i]
    BY Joined
  <1>2. QED
    BY <1>1 DEF Announced

LEMMA AnnouncementAnnounces ==
    ASSUME NEW box \in Seq(Messages), NEW ret
    PROVE  Announced(box \o Announcement, ret)
  <1>1. PICK pay \in Seq(Messages) : pay = Announcement /\ Len(pay) = 2 /\ pay[1].topic = "availability"
    BY AnnouncementFacts
  <1>2. Len(box) + 1 \in DOMAIN (box \o pay) /\ (box \o pay)[Len(box) + 1] = pay[1]
    BY <1>1, Joined
  <1>3. QED
    BY <1>1, <1>2 DEF Announced

\* A gathering that runs on leaves a sound state, wherever it stops.
LEMMA OutcomeSound ==
    ASSUME NEW k \in Ticks, NEW n \in Nat, NEW m \in Nat, n <= m,
           NEW box \in Seq(Messages), NEW ret \in [Topics -> Messages \cup {None}],
           BoxSound(box, ret, n), RetainedSound(ret, n),
           http \in [Callers -> HttpStates], tick \in [Ticks -> Gatherings \cup {None}],
           \A j \in Ticks : j # k => tick[j] = None,
           Outcome(k, m, box), started' = m
    PROVE  /\ http' \in [Callers -> HttpStates]
           /\ inFlight' \in BOOLEAN
           /\ tick' \in [Ticks -> Gatherings \cup {None}]
           /\ started' \in Nat
           /\ outbox' \in Seq(Messages)
           /\ OneTick'
           /\ BoxSound(outbox', ret, m)
           /\ Announced(box, ret) => Announced(outbox', ret)
  <1>1. ASSUME NEW g \in Gatherings, g.no = m, GotSound(g), Asks(k, g, box)
        PROVE  /\ http' \in [Callers -> HttpStates] /\ inFlight'
               /\ tick' = [tick EXCEPT ![k] = g]
               /\ outbox' = box
    BY <1>1 DEF Asks, HttpStates, Ticks
  <1>2. ASSUME NEW g \in Endings, g.no = m, Publishes(k, g, box)
        PROVE  /\ http' \in [Callers -> HttpStates] /\ inFlight' = FALSE
               /\ tick' = [tick EXCEPT ![k] = None]
               /\ outbox' = box \o buildStatePayloads(g.no, g.got, g.ok)
    BY <1>2 DEF Publishes, HttpStates, Ticks
  <1>3. ASSUME NEW g \in Gatherings, g.no = m, GotSound(g), Asks(k, g, box)
        PROVE  /\ http' \in [Callers -> HttpStates] /\ inFlight' \in BOOLEAN
               /\ tick' \in [Ticks -> Gatherings \cup {None}] /\ outbox' \in Seq(Messages)
               /\ OneTick' /\ BoxSound(outbox', ret, m)
               /\ Announced(box, ret) => Announced(outbox', ret)
    <2>1. PICK now : now = tick' /\ now = [tick EXCEPT ![k] = g]
      BY <1>1, <1>3
    <2>2. /\ now \in [Ticks -> Gatherings \cup {None}] /\ now[k] = g
          /\ \A j \in Ticks : j # k => now[j] = None
      BY <2>1
    <2>3. OneTick'
      <3>1. \A j \in Ticks : now[j] # None => now[j].no = m /\ GotSound(now[j]) /\ j = k
        BY <1>3, <2>2
      <3>2. QED
        BY <1>1, <1>3, <2>1, <3>1 DEF OneTick, GotSound, Covers
    <2>4. BoxSound(box, ret, m)
      <3>1. \A i \in DOMAIN box : box[i] \in Messages
        OBVIOUS
      <3>2. \A i \in DOMAIN box : box[i].no \in Nat
        BY <3>1 DEF Messages
      <3>3. QED
        BY <3>2 DEF BoxSound
    <2>5. QED
      BY <1>1, <1>3, <2>1, <2>2, <2>3, <2>4
  <1>4. ASSUME NEW g \in Endings, g.no = m, Publishes(k, g, box)
        PROVE  /\ http' \in [Callers -> HttpStates] /\ inFlight' \in BOOLEAN
               /\ tick' \in [Ticks -> Gatherings \cup {None}] /\ outbox' \in Seq(Messages)
               /\ OneTick' /\ BoxSound(outbox', ret, m)
               /\ Announced(box, ret) => Announced(outbox', ret)
    <2>1. PICK now : now = tick' /\ now = [tick EXCEPT ![k] = None]
      BY <1>2, <1>4
    <2>2. now \in [Ticks -> Gatherings \cup {None}] /\ \A j \in Ticks : now[j] = None
      BY <2>1
    <2>3. OneTick'
      BY <2>1, <2>2 DEF OneTick
    <2>4. g.no \in Nat /\ g.got \in SUBSET Sections /\ g.ok \in BOOLEAN
      BY DEF Endings, Gatherings
    <2>5. PICK pay \in Seq(Messages) : pay = buildStatePayloads(g.no, g.got, g.ok)
      BY <2>4, PayloadFacts
    <2>6. outbox' = box \o pay
      BY <1>2, <1>4, <2>5
    <2>7. outbox' \in Seq(Messages) /\ BoxSound(outbox', ret, m)
      BY <1>4, <2>5, <2>6, JoinPayloads
    <2>8. Announced(box, ret) => Announced(outbox', ret)
      BY <2>6, JoinAnnounced
    <2>9. QED
      BY <1>2, <1>4, <2>1, <2>2, <2>3, <2>7, <2>8
  <1>5. QED
    BY <1>3, <1>4 DEF Outcome

\* A tick, skipped or not, after the messages of box have been published.
LEMMA TickSound ==
    ASSUME TypeOK, OneTick,
           NEW box \in Seq(Messages), NEW ret \in [Topics -> Messages \cup {None}],
           BoxSound(box, ret, started), RetainedSound(ret, started), Tick(box)
    PROVE  /\ http' \in [Callers -> HttpStates]
           /\ inFlight' \in BOOLEAN
           /\ tick' \in [Ticks -> Gatherings \cup {None}]
           /\ started' \in Nat
           /\ outbox' \in Seq(Messages)
           /\ OneTick'
           /\ BoxSound(outbox', ret, started')
           /\ RetainedSound(ret, started')
           /\ Announced(box, ret) => Announced(outbox', ret)
  <1>1. CASE inFlight /\ outbox' = box /\ UNCHANGED <<http, inFlight, tick, started>>
    BY <1>1 DEF TypeOK, OneTick
  <1>2. CASE /\ ~inFlight
             /\ started' = started + 1
             /\ gatherState(Unused, NewGathering(started + 1), box)
    <2>1. \A j \in Ticks : tick[j] = None
      BY <1>2 DEF OneTick
    <2>2. PICK k \in Ticks : k = Unused
      <3>1. \E j \in Ticks : tick[j] = None
        BY <2>1, PublisherAssumption
      <3>2. QED
        BY <3>1 DEF Unused
    <2>3. PICK n \in Nat : n = started
      BY DEF TypeOK
    <2>4. PICK m \in Nat : m = n + 1 /\ n <= m
      OBVIOUS
    <2>5. /\ BoxSound(box, ret, n) /\ RetainedSound(ret, n) /\ started' = m
          /\ gatherState(k, NewGathering(m), box)
      BY <1>2, <2>2, <2>3, <2>4
    <2>6. Outcome(k, m, box)
      BY <2>5, NewOutcome
    <2>7. RetainedSound(ret, m)
      <3>1. \A t \in Topics : ret[t] # None => ret[t].no \in Nat
        BY DEF Messages
      <3>2. QED
        BY <2>4, <2>5, <3>1 DEF RetainedSound
    <2>8. http \in [Callers -> HttpStates] /\ tick \in [Ticks -> Gatherings \cup {None}]
      BY DEF TypeOK
    <2>9. QED
      BY <2>1, <2>4, <2>5, <2>6, <2>7, <2>8, OutcomeSound
  <1>3. QED
    BY <1>1, <1>2 DEF Tick
----------------------------------------------------------------------------
(* The invariant *)

LEMMA InitHolds ==
    ASSUME Init
    PROVE  PublisherInv
  <1>1. TypeOK
    <2>1. http \in [Callers -> HttpStates]
      BY DEF Init, HttpInit, HttpStates
    <2>2. tick \in [Ticks -> Gatherings \cup {None}] /\ retained \in [Topics -> Messages \cup {None}]
      BY DEF Init
    <2>3. outbox \in Seq(Messages)
      BY DEF Init
    <2>4. started \in Nat /\ drops \in 0 .. MaxDrops /\ timers \in 0 .. MaxTimers
      BY PublisherAssumption DEF Init
    <2>5. link \in {"up", "down"} /\ inFlight \in BOOLEAN /\ session \in BOOLEAN /\ reported \in BOOLEAN
      BY DEF Init
    <2>6. QED
      BY <2>1, <2>2, <2>3, <2>4, <2>5 DEF TypeOK
  <1>2. OneTick
    BY DEF Init, OneTick
  <1>3. BoxSound(outbox, retained, started)
    BY DEF Init, BoxSound
  <1>4. RetainedSound(retained, started)
    BY DEF Init, RetainedSound, Topics, Sections, States2
  <1>5. AvailabilityFollowsTheConnection
    BY DEF Init, AvailabilityFollowsTheConnection, Topics
  <1>6. QED
    BY <1>1, <1>2, <1>3, <1>4, <1>5 DEF PublisherInv

\* No topic is taken back to an earlier tick.
Onward ==
    \A t \in Topics : retained[t] # None => retained'[t] # None /\ retained'[t].no >= retained[t].no

LEMMA UnchangedIsOnward ==
    ASSUME TypeOK, retained' = retained
    PROVE  Onward
  <1>1. \A t \in Topics : retained[t] # None => retained[t].no \in Nat
    BY DEF TypeOK, Messages
  <1>2. QED
    BY <1>1 DEF Onward

\* What the steps of the ticks and of the network leave alone.
LEMMA BrokerAlone ==
    ASSUME UNCHANGED brokerVars
    PROVE  /\ link' = link /\ session' = session /\ retained' = retained
           /\ reported' = reported /\ drops' = drops
  BY DEF brokerVars

LEMMA SettlesStep ==
    ASSUME PublisherInv, NEW k \in Ticks, StepSettles(k)
    PROVE  PublisherInv' /\ Onward
  <1>1. /\ Outcome(k, started, outbox) /\ started' = started /\ timers' = timers
        /\ UNCHANGED brokerVars
    BY SettledOutcome
  <1>2. /\ TypeOK /\ OneTick /\ BoxSound(outbox, retained, started)
        /\ RetainedSound(retained, started)
    BY DEF PublisherInv
  <1>3. \A j \in Ticks : j # k => tick[j] = None
    BY <1>2 DEF OneTick, StepSettles
  <1>4. PICK n \in Nat : n = started
    BY <1>2 DEF TypeOK
  <1>5. /\ http' \in [Callers -> HttpStates] /\ inFlight' \in BOOLEAN
        /\ tick' \in [Ticks -> Gatherings \cup {None}] /\ outbox' \in Seq(Messages)
        /\ OneTick' /\ BoxSound(outbox', retained, n)
        /\ Announced(outbox, retained) => Announced(outbox', retained)
    BY <1>1, <1>2, <1>3, <1>4, OutcomeSound DEF TypeOK
  <1>6. TypeOK' /\ BoxSound(outbox', retained', started') /\ RetainedSound(retained', started')
    BY <1>1, <1>2, <1>4, <1>5, BrokerAlone DEF TypeOK
  <1>7. AvailabilityFollowsTheConnection'
    BY <1>1, <1>5, BrokerAlone, AvailabilityParts DEF PublisherInv, AvailabilityFollowsTheConnection, Pending, Announced
  <1>8. QED
    BY <1>1, <1>2, <1>5, <1>6, <1>7, BrokerAlone, UnchangedIsOnward DEF PublisherInv

LEMMA TimerStep ==
    ASSUME PublisherInv, TimerFires
    PROVE  PublisherInv' /\ Onward
  <1>1. /\ TypeOK /\ OneTick /\ BoxSound(outbox, retained, started)
        /\ RetainedSound(retained, started)
    BY DEF PublisherInv
  <1>2. /\ Tick(outbox) /\ timers' \in 0 .. MaxTimers /\ UNCHANGED brokerVars
    BY <1>1, PublisherAssumption DEF TimerFires, TypeOK
  <1>3. /\ http' \in [Callers -> HttpStates] /\ inFlight' \in BOOLEAN
        /\ tick' \in [Ticks -> Gatherings \cup {None}] /\ started' \in Nat
        /\ outbox' \in Seq(Messages) /\ OneTick' /\ BoxSound(outbox', retained, started')
        /\ RetainedSound(retained, started')
        /\ Announced(outbox, retained) => Announced(outbox', retained)
    BY <1>1, <1>2, TickSound DEF TypeOK
  <1>4. TypeOK' /\ BoxSound(outbox', retained', started') /\ RetainedSound(retained', started')
    BY <1>1, <1>2, <1>3, BrokerAlone DEF TypeOK
  <1>5. AvailabilityFollowsTheConnection'
    BY <1>2, <1>3, BrokerAlone DEF PublisherInv, AvailabilityFollowsTheConnection, Pending, Announced
  <1>6. QED
    BY <1>1, <1>2, <1>3, <1>4, <1>5, BrokerAlone, UnchangedIsOnward DEF PublisherInv

LEMMA ConnectsStep ==
    ASSUME PublisherInv, Connects
    PROVE  PublisherInv' /\ Onward
  <1>1. /\ TypeOK /\ OneTick /\ BoxSound(outbox, retained, started)
        /\ RetainedSound(retained, started)
    BY DEF PublisherInv
  <1>2. PICK now \in [Topics -> Messages \cup {None}] :
           now = retained' /\ BoxSound(outbox, now, started) /\ RetainedSound(now, started) /\ Onward
    <2>1. CASE session
      <3>1. retained' = [retained EXCEPT !["availability"] = Message("availability", 0, "offline")]
        BY <2>1 DEF Connects
      <3>2. QED
        BY <1>1, <3>1, WillSound DEF TypeOK, Onward
    <2>2. CASE ~session
      <3>1. retained' = retained
        BY <1>1, <2>2 DEF Connects, TypeOK
      <3>2. QED
        BY <1>1, <3>1, UnchangedIsOnward DEF TypeOK
    <2>3. QED
      BY <2>1, <2>2
  <1>3. PICK box \in Seq(Messages) :
           /\ box = outbox \o Announcement /\ BoxSound(box, now, started)
           /\ Announced(box, now)
    BY <1>1, <1>2, JoinAnnouncement, AnnouncementAnnounces DEF TypeOK
  <1>4. Tick(box)
    BY <1>3 DEF Connects
  <1>5. /\ http' \in [Callers -> HttpStates] /\ inFlight' \in BOOLEAN
        /\ tick' \in [Ticks -> Gatherings \cup {None}] /\ started' \in Nat
        /\ outbox' \in Seq(Messages) /\ OneTick' /\ BoxSound(outbox', now, started')
        /\ RetainedSound(now, started') /\ Announced(outbox', now)
    BY <1>1, <1>2, <1>3, <1>4, TickSound
  <1>6. link' = "up" /\ session' = TRUE /\ reported' = FALSE /\ drops' = drops /\ timers' = timers
    BY DEF Connects
  <1>7. TypeOK'
    BY <1>1, <1>2, <1>5, <1>6 DEF TypeOK
  <1>8. AvailabilityFollowsTheConnection'
    BY <1>2, <1>5, <1>6 DEF AvailabilityFollowsTheConnection, Pending, Announced
  <1>9. QED
    BY <1>2, <1>5, <1>7, <1>8 DEF PublisherInv

LEMMA ClientDropsStep ==
    ASSUME PublisherInv, ClientDrops
    PROVE  PublisherInv' /\ Onward
  <1>1. /\ outbox' = <<>> /\ link' = "down" /\ drops' = drops + 1 /\ drops < MaxDrops
        /\ http' = http /\ inFlight' = inFlight /\ tick' = tick /\ started' = started
        /\ session' = session /\ retained' = retained /\ reported' = reported /\ timers' = timers
    BY DEF ClientDrops
  <1>2. TypeOK /\ OneTick /\ RetainedSound(retained, started) /\ AvailabilityFollowsTheConnection
    BY DEF PublisherInv
  <1>3. TypeOK'
    BY <1>1, <1>2, PublisherAssumption DEF TypeOK
  <1>4. OneTick' /\ RetainedSound(retained', started')
    BY <1>1, <1>2 DEF OneTick
  <1>5. BoxSound(outbox', retained', started')
    BY <1>1 DEF BoxSound
  <1>6. AvailabilityFollowsTheConnection'
    BY <1>1, <1>2 DEF AvailabilityFollowsTheConnection
  <1>7. QED
    BY <1>1, <1>2, <1>3, <1>4, <1>5, <1>6, UnchangedIsOnward DEF PublisherInv

LEMMA BrokerDropsStep ==
    ASSUME PublisherInv, BrokerDrops
    PROVE  PublisherInv' /\ Onward
  <1>1. /\ retained' = [retained EXCEPT !["availability"] = Message("availability", 0, "offline")]
        /\ session' = FALSE
        /\ http' = http /\ inFlight' = inFlight /\ tick' = tick /\ started' = started
        /\ link' = link /\ outbox' = outbox /\ reported' = reported /\ drops' = drops
        /\ timers' = timers
    BY DEF BrokerDrops
  <1>2. /\ TypeOK /\ OneTick /\ BoxSound(outbox, retained, started)
        /\ RetainedSound(retained, started)
    BY DEF PublisherInv
  <1>3. PICK now \in [Topics -> Messages \cup {None}] :
           /\ now = retained' /\ now["availability"].says = "offline"
           /\ BoxSound(outbox, now, started) /\ RetainedSound(now, started) /\ Onward
    BY <1>1, <1>2, WillSound DEF TypeOK, Onward
  <1>4. TypeOK'
    BY <1>1, <1>2, <1>3 DEF TypeOK
  <1>5. OneTick'
    BY <1>1, <1>2 DEF OneTick
  <1>6. AvailabilityFollowsTheConnection'
    BY <1>1, <1>3 DEF AvailabilityFollowsTheConnection
  <1>7. QED
    BY <1>1, <1>3, <1>4, <1>5, <1>6 DEF PublisherInv

LEMMA DeliversStep ==
    ASSUME PublisherInv, Delivers
    PROVE  PublisherInv' /\ Onward
  <1>1. /\ link = "up" /\ session /\ outbox # <<>> /\ outbox' = Tail(outbox)
        /\ retained' = [retained EXCEPT ![Head(outbox).topic] = Head(outbox)]
        /\ reported' = (reported \/ Head(outbox).topic = "status")
        /\ http' = http /\ inFlight' = inFlight /\ tick' = tick /\ started' = started
        /\ link' = link /\ session' = session /\ drops' = drops /\ timers' = timers
    BY DEF Delivers
  <1>2. /\ TypeOK /\ OneTick /\ BoxSound(outbox, retained, started)
        /\ RetainedSound(retained, started) /\ AvailabilityFollowsTheConnection
    BY DEF PublisherInv
  <1>3. PICK box \in Seq(Messages) : box = outbox
    BY <1>2 DEF TypeOK
  <1>4. PICK now \in [Topics -> Messages \cup {None}] :
           /\ now = retained' /\ now = [retained EXCEPT ![Head(box).topic] = Head(box)]
           /\ Tail(box) \in Seq(Messages) /\ BoxSound(Tail(box), now, started)
           /\ RetainedSound(now, started) /\ Onward
    BY <1>1, <1>2, <1>3, TakeSound DEF TypeOK, Onward
  <1>5. TypeOK'
    BY <1>1, <1>2, <1>3, <1>4 DEF TypeOK
  <1>6. OneTick'
    BY <1>1, <1>2 DEF OneTick
  <1>7. AvailabilityFollowsTheConnection'
    <2>1. Announced(box, retained)
      BY <1>1, <1>2, <1>3 DEF AvailabilityFollowsTheConnection, Pending, Announced
    <2>2. PICK m \in Messages : m = Head(box) /\ m = box[1] /\ 1 \in DOMAIN box
      BY <1>1, <1>3
    <2>3. m.topic = "availability" => m.says = "online"
      BY <1>2, <1>3, <2>2 DEF BoxSound
    <2>4. m.topic \in Topics /\ m # None /\ "availability" \in Topics
      BY NothingAssumption DEF Messages, Topics
    <2>5. Announced(Tail(box), now)
      <3>1. CASE m.topic = "availability"
        BY <1>2, <1>4, <2>2, <2>3, <2>4, <3>1 DEF Announced, TypeOK
      <3>2. CASE m.topic # "availability"
        <4>1. now["availability"] = retained["availability"]
          BY <1>2, <1>4, <2>2, <2>4, <3>2 DEF TypeOK
        <4>2. ASSUME NEW i \in DOMAIN box, box[i].topic = "availability"
              PROVE  i - 1 \in DOMAIN Tail(box) /\ Tail(box)[i - 1] = box[i]
          BY <1>1, <1>3, <2>2, <3>2, <4>2
        <4>3. QED
          BY <2>1, <4>1, <4>2 DEF Announced
      <3>3. QED
        BY <3>1, <3>2
    <2>6. QED
      BY <1>1, <1>3, <1>4, <2>5 DEF AvailabilityFollowsTheConnection, Pending, Announced
  <1>8. QED
    BY <1>1, <1>3, <1>4, <1>5, <1>6, <1>7 DEF PublisherInv

\* The network and the timers only move an exchange.
LEMMA ExchangeStep ==
    ASSUME PublisherInv, NEW k \in Ticks, HttpMoves(k) \/ TimeoutFires(k)
    PROVE  PublisherInv' /\ Onward
  <1>1. http' \in [Callers -> HttpStates]
    BY DEF PublisherInv, TypeOK, HttpMoves, TimeoutFires, NetworkStep, TimesOut, ResponseStarts,
           BadStatus, ConnectionFails, BodyEnds, ClosesEarly, Moves, HttpStates
  <1>2. /\ inFlight' = inFlight /\ tick' = tick /\ started' = started /\ outbox' = outbox
        /\ timers' = timers /\ UNCHANGED brokerVars
    BY DEF HttpMoves, TimeoutFires
  <1>3. TypeOK'
    BY <1>1, <1>2, BrokerAlone DEF PublisherInv, TypeOK
  <1>4. OneTick' /\ BoxSound(outbox', retained', started') /\ RetainedSound(retained', started')
    BY <1>2, BrokerAlone DEF PublisherInv, OneTick
  <1>5. AvailabilityFollowsTheConnection'
    BY <1>2, BrokerAlone DEF PublisherInv, AvailabilityFollowsTheConnection, Pending
  <1>6. QED
    BY <1>2, <1>3, <1>4, <1>5, BrokerAlone, UnchangedIsOnward DEF PublisherInv

LEMMA StepHolds ==
    ASSUME PublisherInv, [Next]_publisherVars
    PROVE  PublisherInv' /\ (retained' = retained \/ Onward)
  <1>1. CASE Next
    BY <1>1, SettlesStep, TimerStep, ConnectsStep, ClientDropsStep, BrokerDropsStep, DeliversStep,
       ExchangeStep DEF Next
  <1>2. CASE UNCHANGED publisherVars
    <2>1. /\ http' = http /\ inFlight' = inFlight /\ tick' = tick /\ started' = started
          /\ outbox' = outbox /\ timers' = timers /\ UNCHANGED brokerVars
      BY <1>2 DEF publisherVars
    <2>2. TypeOK' /\ OneTick'
      BY <2>1, BrokerAlone DEF PublisherInv, TypeOK, OneTick
    <2>3. BoxSound(outbox', retained', started') /\ RetainedSound(retained', started')
      BY <2>1, BrokerAlone DEF PublisherInv
    <2>4. AvailabilityFollowsTheConnection'
      BY <2>1, BrokerAlone DEF PublisherInv, AvailabilityFollowsTheConnection, Pending
    <2>5. QED
      BY <2>1, <2>2, <2>3, <2>4, BrokerAlone DEF PublisherInv
  <1>3. QED
    BY <1>1, <1>2

\* However connections come and go between the messages of overlapping requests
\* to tick, the publisher's invariant holds.
THEOREM PublisherInvariant == Spec => []PublisherInv
  <1>1. Init => PublisherInv
    BY InitHolds
  <1>2. PublisherInv /\ [Next]_publisherVars => PublisherInv'
    BY StepHolds
  <1>3. QED
    BY <1>1, <1>2, PTL DEF Spec

\* Every variable of the publisher, its client and its broker keeps its type.
THEOREM PublisherTypeCorrect == Spec => []TypeOK
  <1>1. PublisherInv => TypeOK
    BY DEF PublisherInv
  <1>2. QED
    BY <1>1, PublisherInvariant, PTL

\* onConnect: the retained availability is never "online" without a connection,
\* and with one it is or is about to be.
THEOREM AvailabilityIsTrue == Spec => []AvailabilityFollowsTheConnection
  <1>1. PublisherInv => AvailabilityFollowsTheConnection
    BY DEF PublisherInv
  <1>2. QED
    BY <1>1, PublisherInvariant, PTL

\* gatherState and publishItems: a retained status that says ok never stands
\* beside a section of an earlier tick.
THEOREM StatusIsTrue == Spec => []StatusMatchesSections
  <1>1. PublisherInv => StatusMatchesSections
    BY DEF PublisherInv, RetainedSound, StatusMatchesSections, States2
  <1>2. QED
    BY <1>1, PublisherInvariant, PTL

\* The inFlight flag: no retained topic goes back to an earlier tick.
THEOREM RetainedOnlyAdvances == Spec => RetainedNeverGoesBack
  <1>1. PublisherInv /\ [Next]_publisherVars =>
           [\A t \in Topics : retained[t] # None =>
               retained'[t] # None /\ retained'[t].no >= retained[t].no]_publisherVars
    BY StepHolds, UnchangedIsOnward DEF PublisherInv, Onward
  <1>2. QED
    BY <1>1, PublisherInvariant, PTL DEF Spec, RetainedNeverGoesBack
=============================================================================
