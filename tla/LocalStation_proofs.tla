-------------------------- MODULE LocalStation_proofs --------------------------
(***************************************************************************)
(* Proofs about the local station: for every length of the day, any         *)
(* readings, any number of uploads and restarts and any weather, no rain is *)
(* counted twice.                                                           *)
(***************************************************************************)
EXTENDS LocalStation, FiniteSetTheorems, TLAPS

\* What a count tells of the rain since the count `last`.
Since(count, last) == IF count < last THEN count ELSE count - last

\* An observation holds no more rain than fell since the count before it.
ObsSound(o) ==
    /\ o.since <= o.upto /\ o.upto <= fallen
    /\ o.precip # None => o.precip <= o.upto - o.since
    /\ wire # None => o.upto <= wire.fallen

\* The observations of a set hold different rain, in the order they came in.
Disjoint(q) == \A o, p \in q : p.no < o.no => p.upto <= o.since

\* The station's counter, and a count on its way, agree with the rain that fell
\* since the last count the service knows.
CountsAgree ==
    /\ counted <= fallen
    /\ wire # None =>
          /\ wire.fallen <= fallen
          /\ counted <= wire.fallen
          /\ wire.count >= 0 => Since(counter, wire.count) <= fallen - wire.fallen
    /\ lastRainCount # None =>
          /\ \A o \in queue : o.upto <= counted
          /\ Since(counter, lastRainCount) <= fallen - counted
          /\ (wire # None /\ wire.count >= 0) =>
                Since(wire.count, lastRainCount) <= wire.fallen - counted

\* A set of observations is sound and was captured before the next one.
SetSound(q) ==
    /\ \A o \in q : ObsSound(o) /\ o.no <= captures
    /\ Disjoint(q)

StationInv ==
    /\ TypeOK
    /\ CountsAgree
    /\ SetSound(queue)
    /\ file \notin {Torn, None} => SetSound(file)
----------------------------------------------------------------------------
(* The type of the state *)

\* A missing reading is None, which is no number; the clock and the places in
\* the queue are numbers whatever the queue holds.
LEMMA ObservedType ==
    ASSUME StationAssumption, TypeOK, NEW u \in Uploads, NEW no \in Int
    PROVE  /\ Observed(u, no) \in Observations
           /\ getMeasurement(u.count) \in Nat \cup {None}
           /\ getMeasurement(u.count) # None => getMeasurement(u.count) = u.count
           /\ getMeasurement(u.count) # None => u.count >= 0
  <1>1. /\ getMeasurement(u.count) \in Nat \cup {None}
        /\ getMeasurement(u.count) # None => getMeasurement(u.count) = u.count
        /\ getMeasurement(u.count) # None => u.count >= 0
    BY DEF Uploads, getMeasurement, Sentinel
  <1>2. RainSinceLast(getMeasurement(u.count)) \in Nat \cup {None}
    BY <1>1 DEF RainSinceLast, TypeOK, StationAssumption
  <1>3. QED
    BY <1>1, <1>2 DEF Observed, Observations, Uploads, TypeOK

\* What is kept of a queue is a part of it.
LEMMA RecentType ==
    ASSUME NEW q \in SUBSET Observations
    PROVE  Recent(q) \in SUBSET Observations /\ Recent(q) \subseteq q
  BY DEF Recent

LEMMA TypeStep ==
    ASSUME StationAssumption, TypeOK, [Next]_vars
    PROVE  TypeOK'
  <1>1. CASE Rains
    BY <1>1 DEF Rains, serviceVars, TypeOK
  <1>2. CASE Tick
    BY <1>2 DEF Tick, serviceVars, TypeOK
  <1>3. CASE Sends
    <2>1. wire' \in Uploads
      BY <1>3 DEF Sends, Uploads, TypeOK, StationAssumption, Sentinel
    <2>2. QED
      BY <1>3, <2>1 DEF Sends, serviceVars, TypeOK
  <1>4. CASE Loses
    BY <1>4 DEF Loses, serviceVars, TypeOK
  <1>5. CASE captureWUStream
    <2>1. wire \in Uploads /\ NewPlace \in Int
      BY <1>5 DEF captureWUStream, TypeOK, NewPlace
    <2>2. /\ Observed(wire, NewPlace) \in Observations
          /\ getMeasurement(wire.count) \in Nat \cup {None}
      BY <2>1, ObservedType
    <2>3. /\ queue' \in SUBSET Observations
          /\ lastRainCount' \in Nat \cup {None}
          /\ counted' \in Nat
          /\ lastRainEpoch' \in Nat \cup {None}
      BY <1>5, <2>1, <2>2 DEF captureWUStream, TypeOK, Observations, Uploads
    <2>4. QED
      BY <1>5, <2>3 DEF captureWUStream, TypeOK, StationAssumption
  <1>6. CASE filterQueue
    BY <1>6, RecentType DEF filterQueue, stationVars, TypeOK
  <1>7. CASE saveQueue
    BY <1>7, RecentType DEF saveQueue, stationVars, TypeOK
  <1>8. CASE Restarts
    <2>1. file' \in (SUBSET Observations) \cup {Torn, None}
      BY <1>8 DEF Restarts, TypeOK
    <2>2. queue' \in SUBSET Observations
      BY <1>8, <2>1, RecentType DEF Restarts, Saved
    <2>3. QED
      BY <1>8, <2>1, <2>2 DEF Restarts, stationVars, TypeOK, StationAssumption
  <1>9. CASE UNCHANGED vars
    BY <1>9 DEF vars, stationVars, serviceVars, TypeOK
  <1>10. QED
    BY <1>1, <1>2, <1>3, <1>4, <1>5, <1>6, <1>7, <1>8, <1>9 DEF Next
----------------------------------------------------------------------------
(* No rain is counted twice *)

LEMMA InvInit ==
    ASSUME StationAssumption, Init
    PROVE  StationInv
  BY DEF Init, StationInv, TypeOK, CountsAgree, SetSound, Disjoint, StationAssumption

\* A part of a sound set is sound.
LEMMA PartSound ==
    ASSUME NEW q, SetSound(q)
    PROVE  SetSound(Recent(q))
  BY DEF SetSound, Disjoint, Recent

\* What is not the queue's order keeps a set sound while the rain that has
\* fallen grows and no upload is sent.
LEMMA SoundKept ==
    ASSUME StationInv, NEW q \in SUBSET Observations, SetSound(q),
           fallen' \in Nat, fallen <= fallen',
           captures' = captures \/ captures' = captures + 1,
           wire' \in {wire, None}
    PROVE  SetSound(q)'
  BY DEF StationInv, SetSound, ObsSound, Disjoint, TypeOK, Observations, StationAssumption

\* The observation that is captured next is sound and comes after the queue's.
LEMMA CaptureSound ==
    ASSUME StationAssumption, StationInv, captureWUStream
    PROVE  SetSound(queue)'
  <1>0. PICK obs, count : obs = Observed(wire, NewPlace) /\ count = getMeasurement(wire.count)
    OBVIOUS
  <1>1. wire \in Uploads /\ NewPlace \in Int /\ wire # None
    BY DEF captureWUStream, StationInv, TypeOK, NewPlace
  <1>2. /\ obs \in Observations
        /\ count \in Nat \cup {None}
        /\ count # None => count = wire.count /\ wire.count >= 0
    BY <1>0, <1>1, ObservedType DEF StationInv
  <1>3. /\ obs.no = captures + 1
        /\ obs.since = IF lastRainCount = None THEN wire.fallen ELSE counted
        /\ obs.upto = IF count = None THEN obs.since ELSE wire.fallen
        /\ obs.precip = RainSinceLast(count)
    BY <1>0 DEF Observed, NewPlace
  <1>4. /\ counted \in Nat /\ wire.fallen \in Nat /\ fallen \in Nat
        /\ wire.fallen <= fallen /\ counted <= wire.fallen
    BY <1>1 DEF StationInv, TypeOK, CountsAgree, Uploads
  <1>5. obs.since <= obs.upto /\ obs.upto <= wire.fallen /\ obs.upto <= fallen
    BY <1>3, <1>4
  <1>6. obs.precip # None => obs.precip <= obs.upto - obs.since
    <2>1. SUFFICES ASSUME obs.precip # None
                   PROVE  obs.precip <= obs.upto - obs.since
      OBVIOUS
    <2>2. count # None /\ lastRainCount # None
      BY <2>1, <1>3 DEF RainSinceLast
    <2>3. obs.precip = Since(wire.count, lastRainCount)
      BY <2>2, <1>2, <1>3 DEF RainSinceLast, Since
    <2>4. QED
      BY <2>2, <2>3, <1>1, <1>2, <1>3 DEF StationInv, CountsAgree
  <1>7. \A p \in queue : p.upto <= obs.since /\ p.no < obs.no
    <2>1. TAKE p \in queue
    <2>2. /\ p \in Observations /\ p.upto <= wire.fallen /\ p.no <= captures
          /\ lastRainCount # None => p.upto <= counted
      BY <1>1 DEF StationInv, SetSound, ObsSound, CountsAgree, TypeOK
    <2>3. captures \in Int /\ p.no \in Int
      BY <2>2 DEF StationInv, TypeOK, Observations
    <2>4. QED
      BY <2>2, <2>3, <1>3
  <1>8. /\ queue' = queue \cup {obs} /\ captures' = captures + 1
        /\ wire' \in {wire, None} /\ fallen' = fallen
    BY <1>0 DEF captureWUStream
  <1>9. \A o \in queue' : ObsSound(o)' /\ o.no <= captures'
    <2>1. \A o \in queue : ObsSound(o)' /\ o.no <= captures'
      BY <1>8 DEF StationInv, SetSound, ObsSound, TypeOK, Observations
    <2>2. ObsSound(obs)' /\ obs.no <= captures'
      <3>1. captures \in Int
        BY DEF StationInv, TypeOK
      <3>2. QED
        BY <3>1, <1>3, <1>5, <1>6, <1>8 DEF ObsSound
    <2>3. QED
      BY <2>1, <2>2, <1>8
  <1>10. Disjoint(queue)'
    <2>1. Disjoint(queue)
      BY DEF StationInv, SetSound
    <2>2. \A o \in queue : o.no \in Int
      BY DEF StationInv, TypeOK, Observations
    <2>3. obs.no \in Int
      BY <1>2 DEF Observations
    <2>4. QED
      BY <2>1, <2>2, <2>3, <1>7, <1>8 DEF Disjoint
  <1>11. QED
    BY <1>9, <1>10 DEF SetSound

LEMMA CountsStep ==
    ASSUME StationAssumption, StationInv, [Next]_vars
    PROVE  CountsAgree'
  <1>1. /\ fallen \in Nat /\ counter \in Nat /\ counter <= fallen /\ counted \in Nat
        /\ lastRainCount \in Nat \cup {None} /\ None \notin Int
        /\ wire # None => wire \in Uploads /\ wire.fallen \in Nat /\ wire.count \in Int
        /\ \A o \in queue : o.upto \in Nat /\ o.upto <= fallen
        /\ CountsAgree
    BY DEF StationInv, TypeOK, Uploads, Observations, Sentinel, SetSound, ObsSound,
           StationAssumption
  <1>2. CASE Rains
    BY <1>1, <1>2 DEF Rains, serviceVars, CountsAgree, Since
  <1>3. CASE Tick
    <2>1. counter' \in {0, counter}
      BY <1>3 DEF Tick
    <2>2. QED
      BY <1>1, <1>3, <2>1 DEF Tick, serviceVars, CountsAgree, Since
  <1>4. CASE Sends
    <2>1. PICK r \in Readings :
             wire' = [date |-> IF r.dated THEN clock ELSE None,
                      count |-> IF r.counts THEN counter ELSE Sentinel,
                      rainy |-> r.rainy, fields |-> r.fields, token |-> r.token,
                      fallen |-> fallen]
      BY <1>4 DEF Sends
    <2>2. wire'.fallen = fallen /\ wire'.count \in {counter, Sentinel}
      BY <2>1
    <2>3. QED
      BY <1>1, <1>4, <2>2 DEF Sends, serviceVars, CountsAgree, Since, Sentinel
  <1>5. CASE Loses
    BY <1>1, <1>5 DEF Loses, serviceVars, CountsAgree
  <1>6. CASE captureWUStream
    <2>0. PICK obs, count : obs = Observed(wire, NewPlace) /\ count = getMeasurement(wire.count)
      OBVIOUS
    <2>1. wire \in Uploads /\ wire # None /\ NewPlace \in Int
      BY <1>6 DEF captureWUStream, StationInv, TypeOK, NewPlace
    <2>2. /\ queue' = queue \cup {obs}
          /\ lastRainCount' = IF count # None THEN count ELSE lastRainCount
          /\ counted' = IF count # None THEN wire.fallen ELSE counted
          /\ wire' \in {None, wire}
          /\ fallen' = fallen /\ counter' = counter
      BY <1>6, <2>0 DEF captureWUStream
    <2>3. /\ count \in Nat \cup {None}
          /\ count # None => count = wire.count /\ wire.count >= 0
          /\ wire.count >= 0 => count = wire.count
      BY <2>0, <2>1, ObservedType DEF StationInv, getMeasurement
    <2>4. /\ obs.since = IF lastRainCount = None THEN wire.fallen ELSE counted
          /\ obs.upto = IF count = None THEN obs.since ELSE wire.fallen
      BY <2>0 DEF Observed
    <2>5. \A o \in queue : o.upto <= wire.fallen
      BY <2>1 DEF StationInv, SetSound, ObsSound
    <2>6. CASE count = None
      <3>1. lastRainCount' = lastRainCount /\ counted' = counted
        BY <2>2, <2>6
      <3>2. lastRainCount # None => \A o \in queue' : o.upto <= counted
        BY <1>1, <2>2, <2>4, <2>6 DEF CountsAgree
      <3>3. QED
        BY <1>1, <2>2, <2>3, <2>6, <3>1, <3>2 DEF CountsAgree
    <2>7. CASE count # None
      <3>1. lastRainCount' = wire.count /\ counted' = wire.fallen
        BY <2>2, <2>3, <2>7
      <3>2. \A o \in queue' : o.upto <= wire.fallen
        BY <1>1, <2>1, <2>2, <2>4, <2>5, <2>7
      <3>3. Since(wire.count, wire.count) = 0
        BY <1>1, <2>1 DEF Since
      <3>4. QED
        BY <1>1, <2>1, <2>2, <2>3, <2>7, <3>1, <3>2, <3>3 DEF CountsAgree
    <2>8. QED
      BY <2>6, <2>7
  <1>7. CASE filterQueue
    BY <1>1, <1>7 DEF filterQueue, stationVars, CountsAgree, Recent
  <1>8. CASE saveQueue
    BY <1>1, <1>8 DEF saveQueue, stationVars, CountsAgree, Recent
  <1>9. CASE Restarts
    BY <1>1, <1>9 DEF Restarts, stationVars, CountsAgree
  <1>10. CASE UNCHANGED vars
    BY <1>1, <1>10 DEF vars, stationVars, serviceVars, CountsAgree
  <1>11. QED
    BY <1>2, <1>3, <1>4, <1>5, <1>6, <1>7, <1>8, <1>9, <1>10 DEF Next

\* The observations in memory and in the file stay sound.
LEMMA SetsStep ==
    ASSUME StationAssumption, StationInv, [Next]_vars
    PROVE  /\ SetSound(queue)'
           /\ file' \notin {Torn, None} => SetSound(file)'
  <1>1. /\ fallen \in Nat /\ captures \in Nat /\ queue \in SUBSET Observations
        /\ SetSound(queue) /\ SetSound(Recent(queue))
        /\ file \notin {Torn, None} =>
              file \in SUBSET Observations /\ SetSound(file) /\ SetSound(Recent(file))
    BY PartSound DEF StationInv, TypeOK
  <1>2. ASSUME fallen' \in Nat, fallen <= fallen', wire' \in {wire, None},
               captures' = captures \/ captures' = captures + 1
        PROVE  \A q \in SUBSET Observations : SetSound(q) => SetSound(q)'
    BY <1>2, SoundKept
  \* Nothing but what is in the queue or in the file is ever in either.
  <1>3. ASSUME \A q \in SUBSET Observations : SetSound(q) => SetSound(q)',
               queue' \in {queue, Recent(queue), {}}
                  \cup (IF file \in {Torn, None} THEN {} ELSE {Recent(file)}),
               file' \in {file, queue', Torn}
        PROVE  /\ SetSound(queue)'
               /\ file' \notin {Torn, None} => SetSound(file)'
    <2>1. SetSound({})
      BY DEF SetSound, Disjoint
    <2>2. queue' \in SUBSET Observations /\ SetSound(queue')
      BY <1>1, <1>3, <2>1, RecentType
    <2>3. PICK q \in SUBSET Observations : q = queue' /\ SetSound(q)'
      BY <1>3, <2>2
    <2>4. SetSound(queue)'
      BY <2>3 DEF SetSound, Disjoint, ObsSound
    <2>5. CASE file' = file /\ file \notin {Torn, None}
      <3>1. PICK f \in SUBSET Observations : f = file' /\ SetSound(f)'
        BY <1>1, <1>3, <2>5
      <3>2. SetSound(file)'
        BY <3>1 DEF SetSound, Disjoint, ObsSound
      <3>3. QED
        BY <2>4, <3>2
    <2>6. CASE file' = queue'
      BY <2>4, <2>6 DEF SetSound, Disjoint, ObsSound
    <2>7. QED
      BY <1>3, <2>4, <2>5, <2>6
  <1>4. CASE Rains
    BY <1>1, <1>2, <1>3, <1>4 DEF Rains, serviceVars
  <1>5. CASE Tick
    BY <1>1, <1>2, <1>3, <1>5 DEF Tick, serviceVars
  <1>6. CASE Sends
    <2>1. fallen' = fallen /\ captures' = captures /\ queue' = queue /\ file' = file
          /\ wire'.fallen = fallen
      BY <1>6 DEF Sends, serviceVars
    <2>2. QED
      BY <1>1, <2>1 DEF SetSound, Disjoint, ObsSound
  <1>7. CASE Loses
    BY <1>1, <1>2, <1>3, <1>7 DEF Loses, serviceVars
  <1>8. CASE captureWUStream
    <2>1. SetSound(queue)'
      BY <1>8, CaptureSound
    <2>2. /\ fallen' = fallen /\ captures' = captures + 1 /\ wire' \in {wire, None}
          /\ file' = file
      BY <1>8 DEF captureWUStream
    <2>3. ASSUME file \notin {Torn, None} PROVE SetSound(file)'
      <3>1. PICK f \in SUBSET Observations : f = file /\ SetSound(f)'
        BY <1>1, <1>2, <2>2, <2>3
      <3>2. QED
        BY <2>2, <3>1 DEF SetSound, Disjoint, ObsSound
    <2>4. QED
      BY <2>1, <2>2, <2>3
  <1>9. CASE filterQueue
    BY <1>1, <1>2, <1>3, <1>9 DEF filterQueue, stationVars
  <1>10. CASE saveQueue
    BY <1>1, <1>2, <1>3, <1>10 DEF saveQueue, stationVars
  <1>11. CASE Restarts
    <2>1. queue' \in {{}} \cup (IF file \in {Torn, None} THEN {} ELSE {Recent(file)})
          /\ file' \in {file, Torn}
      BY <1>11 DEF Restarts, Saved
    <2>2. QED
      BY <1>1, <1>2, <1>3, <1>11, <2>1 DEF Restarts, stationVars
  <1>12. CASE UNCHANGED vars
    BY <1>1, <1>2, <1>3, <1>12 DEF vars, stationVars, serviceVars
  <1>13. QED
    BY <1>4, <1>5, <1>6, <1>7, <1>8, <1>9, <1>10, <1>11, <1>12 DEF Next

\* The invariant the theorems about the station rest on.
THEOREM StationInvariant == Spec => []StationInv
  <1>1. Init => StationInv
    BY InvInit, StationAssumption
  <1>2. StationInv /\ [Next]_vars => StationInv'
    BY TypeStep, CountsStep, SetsStep, StationAssumption DEF StationInv
  <1>3. QED
    BY <1>1, <1>2, PTL DEF Spec

\* The queue, the counts and the file are well typed, for any station.
THEOREM StationTypeCorrect == Spec => []TypeOK
  <1>1. StationInv => TypeOK
    BY DEF StationInv
  <1>2. QED
    BY <1>1, StationInvariant, PTL

\* No observation holds more rain than fell since the count before it and no two
\* hold the same rain, whatever is lost, repeated, delayed or restarted.
THEOREM NoRainTwice == Spec => []RainIsCountedOnce
  <1>1. StationInv => RainIsCountedOnce
    BY DEF StationInv, SetSound, ObsSound, Disjoint, RainIsCountedOnce
  <1>2. QED
    BY <1>1, StationInvariant, PTL
----------------------------------------------------------------------------
(* The order of the observations in time *)

\* The observations of a set have places of their own in the order they were
\* captured in, and those with a date are dated in that order, none later than
\* now or, as the station dates its uploads, than the upload on its way.
Timed(q) ==
    /\ \A o \in q : o.no \in 1 .. captures
    /\ \A o, p \in q : o.no = p.no => o = p
    /\ \A o \in q : o.timestamp # None =>
          /\ o.timestamp <= clock
          /\ (~NowDates /\ wire # None /\ wire.date # None) => o.timestamp <= wire.date
    /\ \A o, p \in q :
          (o.no < p.no /\ o.timestamp # None /\ p.timestamp # None) => o.timestamp <= p.timestamp

TimesInv ==
    /\ (wire # None /\ wire.date # None) => wire.date <= clock
    /\ Timed(queue)
    /\ file \notin {Torn, None} => Timed(file)

\* A part of a timed set is timed, and so is what is kept of it.
LEMMA PartTimed ==
    ASSUME NEW q, Timed(q)
    PROVE  Timed(Recent(q)) /\ Timed({})
  BY DEF Timed, Recent

\* A set stays timed while the clock and the places go on and no upload is sent.
LEMMA TimedKept ==
    ASSUME TypeOK, NEW q \in SUBSET Observations, Timed(q),
           clock' \in {clock, clock + 1}, captures' \in {captures, captures + 1},
           wire' \in {wire, None}
    PROVE  Timed(q)'
  <1>1. clock \in Nat /\ captures \in Nat
    BY DEF TypeOK
  <1>2. \A o \in q : o.no \in Int /\ o.timestamp \in Nat \cup {None}
    BY DEF Observations
  <1>3. QED
    BY <1>1, <1>2 DEF Timed

\* The observation that is captured next has the next place and no earlier date.
LEMMA CaptureTimed ==
    ASSUME StationAssumption, TypeOK, TimesInv, captureWUStream
    PROVE  Timed(queue)'
  <1>0. PICK obs : obs = Observed(wire, NewPlace)
    OBVIOUS
  <1>1. /\ wire \in Uploads /\ wire # None /\ clock \in Nat /\ captures \in Nat
        /\ queue' = queue \cup {obs} /\ captures' = captures + 1
        /\ clock' = clock /\ wire' \in {None, wire}
    BY <1>0 DEF captureWUStream, TypeOK
  <1>2. obs.no = captures + 1 /\ obs.timestamp = IF NowDates THEN clock ELSE wire.date
    BY <1>0 DEF Observed, NewPlace
  <1>3. wire.date \in Nat \cup {None} /\ (wire.date # None => wire.date <= clock)
    BY <1>1 DEF Uploads, TimesInv
  <1>4. \A o \in queue : /\ o.no \in Int /\ o.no <= captures /\ 1 <= o.no
                         /\ o.timestamp \in Nat \cup {None}
    BY <1>1 DEF TypeOK, Observations, TimesInv, Timed
  <1>5. \A o \in queue : (o.timestamp # None /\ obs.timestamp # None) => o.timestamp <= obs.timestamp
    BY <1>1, <1>2 DEF TimesInv, Timed
  <1>6. /\ \A o \in queue' : o.no \in 1 .. captures'
        /\ \A o, p \in queue' : o.no = p.no => o = p
    BY <1>1, <1>2, <1>4 DEF TimesInv, Timed
  <1>7. \A o \in queue' : o.timestamp # None =>
           /\ o.timestamp <= clock
           /\ (~NowDates /\ wire # None /\ wire.date # None) => o.timestamp <= wire.date
    BY <1>1, <1>2, <1>3 DEF TimesInv, Timed
  <1>8. \A o, p \in queue' :
           (o.no < p.no /\ o.timestamp # None /\ p.timestamp # None) => o.timestamp <= p.timestamp
    BY <1>1, <1>2, <1>4, <1>5 DEF TimesInv, Timed
  <1>9. QED
    BY <1>1, <1>6, <1>7, <1>8 DEF Timed

LEMMA TimesStep ==
    ASSUME StationAssumption, TypeOK, TimesInv, [Next]_vars
    PROVE  TimesInv'
  <1>1. /\ clock \in Nat /\ captures \in Nat /\ queue \in SUBSET Observations
        /\ wire # None => wire \in Uploads /\ wire.date \in Nat \cup {None}
        /\ file \notin {Torn, None} => file \in SUBSET Observations
        /\ None \notin Int
    BY DEF TypeOK, Uploads, StationAssumption
  \* While no upload is sent, what is in the queue and in the file stays timed.
  <1>2. ASSUME clock' \in {clock, clock + 1}, captures' \in {captures, captures + 1},
               wire' \in {wire, None},
               queue' \in {queue, Recent(queue), {}}
                  \cup (IF file \in {Torn, None} THEN {} ELSE {Recent(file)}),
               file' \in {file, queue', Torn}
        PROVE  TimesInv'
    <2>1. (wire' # None /\ wire'.date # None) => wire'.date <= clock'
      BY <1>1, <1>2 DEF TimesInv
    <2>2. \A q \in SUBSET Observations : Timed(q) => Timed(q)'
      BY <1>2, TimedKept
    <2>3. queue' \in SUBSET Observations /\ Timed(queue')
      BY <1>1, <1>2, RecentType, PartTimed DEF TimesInv
    <2>4. Timed(queue)'
      <3>1. PICK q \in SUBSET Observations : q = queue' /\ Timed(q)'
        BY <2>2, <2>3
      <3>2. QED
        BY <3>1 DEF Timed
    <2>5. ASSUME file' \notin {Torn, None} PROVE Timed(file)'
      <3>1. CASE file' = file
        <4>1. PICK q \in SUBSET Observations : q = file' /\ Timed(q)'
          BY <1>1, <2>2, <2>5, <3>1 DEF TimesInv
        <4>2. QED
          BY <4>1 DEF Timed
      <3>2. CASE file' = queue'
        BY <2>4, <3>2 DEF Timed
      <3>3. QED
        BY <1>2, <2>5, <3>1, <3>2
    <2>6. QED
      BY <2>1, <2>4, <2>5 DEF TimesInv
  <1>3. CASE Rains
    BY <1>2, <1>3 DEF Rains, serviceVars
  <1>4. CASE Tick
    BY <1>2, <1>4 DEF Tick, serviceVars
  <1>5. CASE Sends
    <2>1. /\ clock' = clock /\ captures' = captures /\ queue' = queue /\ file' = file
          /\ wire'.date \in {clock, None}
      BY <1>5 DEF Sends, serviceVars
    <2>2. \A o \in queue : o.timestamp # None => o.timestamp <= clock
      BY DEF TimesInv, Timed
    <2>3. ASSUME file \notin {Torn, None}
          PROVE  \A o \in file : o.timestamp # None => o.timestamp <= clock
      BY <2>3 DEF TimesInv, Timed
    <2>4. Timed(queue)'
      BY <2>1, <2>2 DEF TimesInv, Timed
    <2>5. file' \notin {Torn, None} => Timed(file)'
      BY <2>1, <2>3 DEF TimesInv, Timed
    <2>6. QED
      BY <1>1, <2>1, <2>4, <2>5 DEF TimesInv
  <1>6. CASE Loses
    BY <1>2, <1>6 DEF Loses, serviceVars
  <1>7. CASE captureWUStream
    <2>1. Timed(queue)'
      BY <1>7, CaptureTimed
    <2>2. /\ clock' = clock /\ captures' = captures + 1 /\ wire' \in {wire, None} /\ file' = file
      BY <1>7 DEF captureWUStream
    <2>3. ASSUME file \notin {Torn, None} PROVE Timed(file)'
      <3>1. PICK q \in SUBSET Observations : q = file /\ Timed(q)'
        BY <1>1, <2>2, <2>3, TimedKept DEF TimesInv
      <3>2. QED
        BY <2>2, <3>1 DEF Timed
    <2>4. QED
      BY <2>1, <2>2, <2>3 DEF TimesInv
  <1>8. CASE filterQueue
    BY <1>2, <1>8 DEF filterQueue, stationVars
  <1>9. CASE saveQueue
    BY <1>2, <1>9 DEF saveQueue, stationVars
  <1>10. CASE Restarts
    <2>1. queue' \in {{}} \cup (IF file \in {Torn, None} THEN {} ELSE {Recent(file)})
          /\ file' \in {file, Torn}
      BY <1>10 DEF Restarts, Saved
    <2>2. QED
      BY <1>2, <1>10, <2>1 DEF Restarts, stationVars
  <1>11. CASE UNCHANGED vars
    BY <1>2, <1>11 DEF vars, stationVars, serviceVars
  <1>12. QED
    BY <1>3, <1>4, <1>5, <1>6, <1>7, <1>8, <1>9, <1>10, <1>11 DEF Next

\* The observations in memory and on disk are in the order of their dates, after
\* any delays, repetitions and restarts.
THEOREM TimesInvariant == Spec => []TimesInv
  <1>1. Init => TimesInv
    BY DEF Init, TimesInv, Timed
  <1>2. TypeOK /\ TimesInv /\ [Next]_vars => TimesInv'
    BY TimesStep, StationAssumption
  <1>3. QED
    BY <1>1, <1>2, StationTypeCorrect, PTL DEF Spec
----------------------------------------------------------------------------
(* The answers *)

\* A set of natural numbers has a least one, and a greatest one if it is bounded.
LEMMA LeastNatural ==
    ASSUME NEW S \in SUBSET Nat, S # {}
    PROVE  \E m \in S : \A n \in S : m <= n
  <1> DEFINE R == {ss \in Nat \X Nat : ss[1] < ss[2]}
  <1>1. IsWellFoundedOn(R, Nat)
    BY NatLessThanWellFounded DEF OpToRel
  <1>2. \A m, n \in Nat : <<n, m>> \in R <=> n < m
    OBVIOUS
  <1> HIDE DEF R
  <1>3. PICK m \in S : \A n \in S : ~(<<n, m>> \in R)
    BY <1>1, WFMin
  <1>4. \A n \in S : m <= n
    <2>1. TAKE n \in S
    <2>2. ~(<<n, m>> \in R) /\ m \in Nat /\ n \in Nat
      BY <1>3
    <2>3. ~(n < m)
      BY <1>2, <2>2
    <2>4. QED
      BY <2>2, <2>3
  <1>5. QED
    BY <1>4

LEMMA GreatestNatural ==
    ASSUME NEW S \in SUBSET Nat, S # {}, NEW b \in Nat, \A n \in S : n <= b
    PROVE  \E m \in S : \A n \in S : n <= m
  <1> DEFINE T == {b - n : n \in S}
  <1>1. T \in SUBSET Nat /\ T # {}
    <2>1. ASSUME NEW n \in S PROVE b - n \in Nat
      OBVIOUS
    <2>2. QED
      BY <2>1
  <1>2. PICK t \in T : \A u \in T : t <= u
    BY <1>1, LeastNatural
  <1>3. PICK m \in S : t = b - m
    OBVIOUS
  <1>4. \A n \in S : n <= m
    <2>1. TAKE n \in S
    <2>2. b - n \in T /\ b - m <= b - n
      BY <1>2, <1>3
    <2>3. QED
      BY <2>2
  <1>5. QED
    BY <1>4

\* A queue that is not empty has a newest and an oldest observation.
LEMMA EndsOfQueue ==
    ASSUME NEW q \in SUBSET Observations, q # {}, NEW n \in Nat,
           \A o \in q : o.no \in 1 .. n
    PROVE  /\ Newest(q) \in q /\ \A o \in q : o.no <= Newest(q).no
           /\ Oldest(q) \in q /\ \A o \in q : Oldest(q).no <= o.no
  <1> DEFINE nos == {o.no : o \in q}
  <1>1. nos \in SUBSET Nat /\ nos # {} /\ \A k \in nos : k <= n
    OBVIOUS
  <1>2. PICK least \in nos : \A k \in nos : least <= k
    BY <1>1, LeastNatural
  <1>3. PICK most \in nos : \A k \in nos : k <= most
    BY <1>1, GreatestNatural
  <1>4. \E o \in q : \A p \in q : o.no <= p.no
    BY <1>2
  <1>5. \E o \in q : \A p \in q : p.no <= o.no
    BY <1>3
  <1>6. QED
    BY <1>4, <1>5 DEF Newest, Oldest

\* The rain of a sound set fell after the last count before its oldest: each unit
\* is a unit that fell, and no two units are the same.
LEMMA RainOfFell ==
    ASSUME StationAssumption, TypeOK, NEW q \in SUBSET Observations, q # {},
           SetSound(q), Timed(q)
    PROVE  RainOf(q) <= fallen - Oldest(q).since
  <1> DEFINE units == UNION {Units(o) : o \in q}
             first == Oldest(q).since
             all == (first + 1) .. fallen
             f == [u \in units |-> u[1].since + u[2]]
  <1>1. captures \in Nat /\ fallen \in Nat /\ \A o \in q : o.no \in 1 .. captures
    BY DEF TypeOK, Timed
  <1>2. Oldest(q) \in q /\ \A o \in q : Oldest(q).no <= o.no
    BY <1>1, EndsOfQueue
  <1>3. \A o \in q : /\ o.since \in Nat /\ o.upto \in Nat /\ o.no \in Int
                     /\ o.precip \in Nat \cup {None}
                     /\ o.since <= o.upto /\ o.upto <= fallen
                     /\ o.precip # None => o.since + o.precip <= o.upto
    BY <1>1 DEF Observations, SetSound, ObsSound
  <1>4. \A o, p \in q : o.no < p.no => o.upto <= p.since
    BY DEF SetSound, Disjoint
  <1>5. first \in Nat /\ first <= fallen /\ \A o \in q : first <= o.since
    <2>1. first \in Nat /\ first <= fallen
      BY <1>1, <1>2, <1>3
    <2>2. ASSUME NEW o \in q PROVE first <= o.since
      <3>1. CASE Oldest(q).no < o.no
        BY <1>2, <1>3, <1>4, <3>1
      <3>2. CASE Oldest(q).no = o.no
        BY <1>2, <1>3, <3>2 DEF Timed
      <3>3. QED
        BY <1>2, <1>3, <3>1, <3>2
    <2>3. QED
      BY <2>1, <2>2
  <1> HIDE DEF first
  \* What a unit is: an observation with a count and a number up to that count.
  <1>6. ASSUME NEW u \in units
        PROVE  /\ u = <<u[1], u[2]>> /\ u[1] \in q /\ u[2] \in Nat /\ 1 <= u[2]
               /\ u[1].since + u[2] <= u[1].upto
    <2>1. PICK o \in q : u \in Units(o)
      OBVIOUS
    <2>2. o.precip # None /\ u \in {o} \X (1 .. o.precip)
      BY <2>1 DEF Units
    <2>3. u = <<u[1], u[2]>> /\ u[1] = o /\ u[2] \in 1 .. o.precip
      BY <2>2
    <2>4. QED
      BY <1>3, <2>2, <2>3
  <1> HIDE DEF units
  <1>7. f \in [units -> all]
    <2>1. ASSUME NEW u \in units PROVE u[1].since + u[2] \in all
      BY <1>1, <1>3, <1>5, <1>6, <2>1
    <2>2. QED
      BY <2>1
  <1>8. ASSUME NEW u \in units, NEW v \in units, f[u] = f[v]
        PROVE  u = v
    <2>1. u[1].since + u[2] = v[1].since + v[2]
      BY <1>8
    <2>2. ~(u[1].no < v[1].no) /\ ~(v[1].no < u[1].no)
      BY <1>3, <1>4, <1>6, <2>1
    <2>3. u[1] = v[1]
      BY <1>3, <1>6, <2>2 DEF Timed
    <2>4. u[2] = v[2]
      BY <1>3, <1>6, <2>1, <2>3
    <2>5. QED
      BY <1>6, <2>3, <2>4
  <1>9. f \in Injection(units, all)
    BY <1>7, <1>8 DEF Injection, IsInjective
  <1>10. IsFiniteSet(all) /\ Cardinality(all) = fallen - first
    <2>1. first + 1 \in Int /\ fallen \in Int
      BY <1>1, <1>5
    <2>2. /\ IsFiniteSet(all)
          /\ Cardinality(all) = IF first + 1 > fallen THEN 0 ELSE fallen - (first + 1) + 1
      BY <2>1, FS_Interval
    <2>3. QED
      BY <1>1, <1>5, <2>2
  <1>11. Cardinality(units) <= Cardinality(all)
    BY <1>9, <1>10, FS_Injection
  <1>12. QED
    BY <1>10, <1>11 DEF RainOf, units, first

\* What an answer that is not an error is made of.
LEMMA AnswerFacts ==
    ASSUME StationAssumption, StationInv, TimesInv
    PROVE  LET q == Recent(queue)
           IN  /\ ~getWeatherData.error => q # {} /\ getWeatherData.precip = RainOf(q)
                                             /\ getWeatherData.of = Newest(q).timestamp
               /\ ~getWateringData.error => SpansEnough(q) /\ getWateringData.precip = RainOf(q)
               /\ ~getEToData.error => SpansEnough(q) /\ getEToData.precip = RainOf(q)
                                         /\ getEToData.periodStartTime = Oldest(q).timestamp
  BY DEF getWeatherData, getWateringData, getEToData, Insufficient

\* The kept queue is sound, and its ends are in it.
LEMMA RecentFacts ==
    ASSUME StationAssumption, StationInv, TimesInv
    PROVE  LET q == Recent(queue)
           IN  /\ q \in SUBSET Observations /\ SetSound(q) /\ Timed(q)
               /\ \A o \in q : o.timestamp \in Nat /\ clock - o.timestamp < Day
                                 /\ o.timestamp <= clock
               /\ q # {} =>
                     /\ Newest(q) \in q /\ \A o \in q : o.timestamp <= Newest(q).timestamp
                     /\ Oldest(q) \in q /\ \A o \in q : Oldest(q).timestamp <= o.timestamp
  <1> DEFINE q == Recent(queue)
  <1>1. /\ q \in SUBSET Observations /\ SetSound(q) /\ Timed(q)
        /\ \A o \in q : o.timestamp # None /\ clock - o.timestamp < Day
    BY RecentType, PartSound, PartTimed DEF StationInv, TypeOK, TimesInv, Recent
  <1> HIDE DEF q
  <1>2. \A o \in q : o.timestamp \in Nat /\ o.timestamp <= clock /\ o.no \in 1 .. captures
    BY <1>1 DEF Observations, Timed
  <1>3. ASSUME q # {}
        PROVE  /\ Newest(q) \in q /\ \A o \in q : o.no <= Newest(q).no
               /\ Oldest(q) \in q /\ \A o \in q : Oldest(q).no <= o.no
    <2>1. captures \in Nat
      BY DEF StationInv, TypeOK
    <2>2. QED
      BY <1>1, <1>2, <1>3, <2>1, EndsOfQueue
  <1>4. ASSUME NEW o \in q, NEW p \in q, o.no <= p.no
        PROVE  o.timestamp <= p.timestamp
    <2>1. o.no \in Int /\ p.no \in Int /\ o.timestamp \in Nat /\ p.timestamp \in Nat
      BY <1>2
    <2>2. CASE o.no = p.no
      BY <1>1, <2>1, <2>2 DEF Timed
    <2>3. CASE o.no < p.no
      BY <1>1, <2>1, <2>3 DEF Timed
    <2>4. QED
      BY <1>4, <2>1, <2>2, <2>3
  <1>5. QED
    BY <1>1, <1>2, <1>3, <1>4 DEF q

\* Whatever is lost, repeated, delayed or restarted, no answer reports more rain
\* than fell since the last count before its oldest observation
\* (routes/weatherProviders/local.ts:181-340).
THEOREM NoMoreRainThanFell == Spec => []ReportedRainFell
  <1>1. StationInv /\ TimesInv => ReportedRainFell
    <2>1. SUFFICES ASSUME StationInv, TimesInv,
                          NEW answer \in {getWeatherData, getWateringData, getEToData},
                          ~answer.error
                   PROVE  answer.precip <= fallen - Oldest(Recent(queue)).since
      BY DEF ReportedRainFell
    <2>2. answer.precip = RainOf(Recent(queue)) /\ Recent(queue) # {}
      BY <2>1, AnswerFacts, StationAssumption DEF SpansEnough
    <2>3. QED
      BY <2>1, <2>2, RecentFacts, RainOfFell, StationAssumption DEF StationInv
  <1>2. QED
    BY <1>1, StationInvariant, TimesInvariant, PTL

\* An answer for the last day rests on dated observations of the last day that
\* span at least MinSpan, its window starts at the oldest of them and the current
\* weather is the newest (routes/weatherProviders/local.ts:181-340).
THEOREM WindowIsHonest == Spec => []WindowIsTrueSpan
  <1>1. StationInv /\ TimesInv => WindowIsTrueSpan
    <2>1. SUFFICES ASSUME StationInv, TimesInv PROVE WindowIsTrueSpan
      OBVIOUS
    <2> DEFINE q == Recent(queue)
               times == {o.timestamp : o \in q}
    <2>2. /\ \A o \in q : o.timestamp \in Nat /\ clock - o.timestamp < Day
                            /\ o.timestamp <= clock
          /\ q # {} =>
                /\ Newest(q) \in q /\ \A o \in q : o.timestamp <= Newest(q).timestamp
                /\ Oldest(q) \in q /\ \A o \in q : Oldest(q).timestamp <= o.timestamp
      BY <2>1, RecentFacts, StationAssumption
    <2>3. /\ ~getWeatherData.error => q # {} /\ getWeatherData.of = Newest(q).timestamp
          /\ ~getWateringData.error => SpansEnough(q)
          /\ ~getEToData.error => SpansEnough(q) /\ getEToData.periodStartTime = Oldest(q).timestamp
      BY <2>1, AnswerFacts, StationAssumption
    <2>4. clock \in Nat /\ Day \in Nat
      BY <2>1, StationAssumption DEF StationInv, TypeOK
    <2> HIDE DEF q
    <2>5. ASSUME SpansEnough(q)
          PROVE  /\ \E s, t \in times : t - s >= MinSpan
                 /\ \A t \in times : clock - Day < t /\ t <= clock
      <3>1. Newest(q).timestamp \in times /\ Oldest(q).timestamp \in times
        BY <2>2, <2>5 DEF SpansEnough
      <3>2. \E s, t \in times : t - s >= MinSpan
        BY <2>5, <3>1 DEF SpansEnough
      <3>3. \A t \in times : clock - Day < t /\ t <= clock
        BY <2>2, <2>4
      <3>4. QED
        BY <3>2, <3>3
    <2>6. ~getWeatherData.error => \A t \in times : t <= getWeatherData.of
      BY <2>2, <2>3
    <2>7. ~getEToData.error => \A t \in times : getEToData.periodStartTime <= t
      BY <2>2, <2>3 DEF SpansEnough
    <2>8. QED
      BY <2>3, <2>5, <2>6, <2>7 DEF WindowIsTrueSpan, q
  <1>2. QED
    BY <1>1, StationInvariant, TimesInvariant, PTL
=============================================================================
