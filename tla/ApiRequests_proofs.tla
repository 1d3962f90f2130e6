--------------------------- MODULE ApiRequests_proofs ---------------------------
(***************************************************************************)
(* Proofs about the geocoder's cache and the answers of the handlers: for   *)
(* any number of callers, requests, places and entries, lookups overlapping *)
(* in any way, saves cut short anywhere and any crashes, the cache and its  *)
(* file say only what the service has said, and the handlers go by that.    *)
(***************************************************************************)
EXTENDS ApiRequests, SequenceTheorems, FiniteSetTheorems, TLAPS

----------------------------------------------------------------------------
(* Entries *)

Distinct(entries) ==
    \A i, j \in DOMAIN entries : entries[i].place = entries[j].place => i = j

Truthful(entries, said) == \A i \in DOMAIN entries : entries[i].at \in said[entries[i].place]

\* Entries with room for one more, and within the limit.
Kept(entries, said) == entries \in Seq(Entries) /\ Distinct(entries) /\ Truthful(entries, said)
Stored(entries, said) == Kept(entries, said) /\ Len(entries) <= maxCacheEntries

\* What the service has said is never taken back.
Grows(said, more) ==
    /\ said \in [Places -> SUBSET Found]
    /\ more \in [Places -> SUBSET Found]
    /\ \A place \in Places : said[place] \subseteq more[place]

LEMMA SeqFacts ==
    ASSUME NEW entries \in Seq(Entries)
    PROVE  /\ Len(entries) \in Nat
           /\ DOMAIN entries = 1 .. Len(entries)
           /\ \A i \in 1 .. Len(entries) :
                 /\ entries[i] \in Entries
                 /\ entries[i].place \in Places
                 /\ entries[i].at \in Found
  <1>1. \A i \in 1 .. Len(entries) : entries[i] \in Entries
    BY ElementOfSeq
  <1>2. QED
    BY <1>1, LenProperties DEF Entries

LEMMA KeptGrows ==
    ASSUME NEW said, NEW more, Grows(said, more), NEW entries, Stored(entries, said)
    PROVE  Stored(entries, more)
  BY SeqFacts DEF Stored, Kept, Truthful, Grows

\* Distinct places are as many as the entries.
LEMMA DistinctCounts ==
    ASSUME NEW entries \in Seq(Entries), Distinct(entries)
    PROVE  Cardinality(CachedPlaces(entries)) = Len(entries)
  <1> DEFINE S == 1 .. Len(entries)
             T == CachedPlaces(entries)
             f == [i \in S |-> entries[i].place]
  <1>1. DOMAIN entries = S /\ Len(entries) \in Nat
    BY SeqFacts
  <1>2. f \in [S -> T]
    BY <1>1 DEF CachedPlaces
  <1>3. \A t \in T : \E i \in S : f[i] = t
    BY <1>1 DEF CachedPlaces
  <1>4. \A i, j \in S : f[i] = f[j] => i = j
    BY <1>1 DEF Distinct
  <1>5. IsFiniteSet(S) /\ Cardinality(S) = Len(entries)
    BY <1>1, FS_Interval
  <1> HIDE DEF f, S, T
  <1>6. f \in Bijection(S, T)
    BY <1>2, <1>3, <1>4 DEF Bijection, Injection, Surjection, IsInjective
  <1>7. ExistsBijection(S, T)
    BY <1>6 DEF ExistsBijection
  <1>8. Cardinality(T) = Cardinality(S)
    BY <1>5, <1>7, FS_Bijection
  <1>9. QED
    BY <1>5, <1>8 DEF T
----------------------------------------------------------------------------
(* Setting an entry *)

\* A place that is there keeps its position, and the others keep theirs.
LEMMA SetsAgain ==
    ASSUME NEW said, NEW entries, Kept(entries, said), NEW place \in Places, NEW at \in Found,
           at \in said[place], place \in CachedPlaces(entries)
    PROVE  /\ Kept(MapSet(entries, place, at), said)
           /\ Len(MapSet(entries, place, at)) = Len(entries)
           /\ CachedPlaces(MapSet(entries, place, at)) = CachedPlaces(entries)
  <1>1. PICK n, e : n = Len(entries) /\ e = [place |-> place, at |-> at]
    OBVIOUS
  <1>2. /\ n \in Nat /\ DOMAIN entries = 1 .. n
        /\ \A i \in 1 .. n : entries[i] \in Entries
    BY <1>1, SeqFacts DEF Kept
  <1>3. e \in Entries /\ e.place = place /\ e.at = at
    BY <1>1 DEF Entries
  <1>4. PICK new : new = [i \in 1 .. n |-> IF entries[i].place = place THEN e ELSE entries[i]]
    OBVIOUS
  <1>5. MapSet(entries, place, at) = new
    BY <1>1, <1>2, <1>4 DEF MapSet
  <1>6. /\ new \in Seq(Entries) /\ Len(new) = n /\ DOMAIN new = 1 .. n
        /\ \A i \in 1 .. n : new[i] = IF entries[i].place = place THEN e ELSE entries[i]
    BY <1>2, <1>3, <1>4
  <1>7. \A i \in 1 .. n : new[i].place = entries[i].place
    BY <1>3, <1>6
  <1>8. Distinct(new)
    BY <1>2, <1>6, <1>7 DEF Kept, Distinct
  <1>9. Truthful(new, said)
    BY <1>2, <1>3, <1>6 DEF Kept, Truthful
  <1>10. CachedPlaces(new) = CachedPlaces(entries)
    BY <1>2, <1>6, <1>7 DEF CachedPlaces
  <1>11. QED
    BY <1>1, <1>5, <1>6, <1>8, <1>9, <1>10 DEF Kept

\* A place that is not there goes to the end.
LEMMA SetsNew ==
    ASSUME NEW said, NEW entries, Kept(entries, said), NEW place \in Places, NEW at \in Found,
           at \in said[place], place \notin CachedPlaces(entries)
    PROVE  /\ Kept(MapSet(entries, place, at), said)
           /\ Len(MapSet(entries, place, at)) = Len(entries) + 1
           /\ \A i \in 1 .. Len(entries) : MapSet(entries, place, at)[i] = entries[i]
           /\ MapSet(entries, place, at)[Len(entries) + 1].place = place
  <1>1. PICK n, e : n = Len(entries) /\ e = [place |-> place, at |-> at]
    OBVIOUS
  <1>2. /\ n \in Nat /\ DOMAIN entries = 1 .. n
        /\ \A i \in 1 .. n : entries[i] \in Entries
    BY <1>1, SeqFacts DEF Kept
  <1>3. e \in Entries /\ e.place = place /\ e.at = at
    BY <1>1 DEF Entries
  <1>4. PICK new : new = Append(entries, e)
    OBVIOUS
  <1>5. MapSet(entries, place, at) = new
    BY <1>1, <1>4 DEF MapSet
  <1>6. /\ new \in Seq(Entries) /\ Len(new) = n + 1
        /\ \A i \in 1 .. n : new[i] = entries[i]
        /\ new[n + 1] = e
    BY <1>1, <1>3, <1>4, AppendProperties DEF Kept
  <1>7. DOMAIN new = 1 .. n + 1
    BY <1>6, LenProperties
  <1>8. \A i \in 1 .. n : entries[i].place # place
    BY <1>2 DEF CachedPlaces
  <1>9. Distinct(new)
    <2>1. SUFFICES ASSUME NEW i \in 1 .. n + 1, NEW j \in 1 .. n + 1, new[i].place = new[j].place
                   PROVE  i = j
      BY <1>7 DEF Distinct
    <2>2. CASE i \in 1 .. n /\ j \in 1 .. n
      BY <1>2, <1>6, <2>1, <2>2 DEF Kept, Distinct
    <2>3. CASE i = n + 1 \/ j = n + 1
      BY <1>2, <1>3, <1>6, <1>8, <2>1, <2>3
    <2>4. QED
      BY <1>2, <2>2, <2>3
  <1>10. Truthful(new, said)
    <2>1. SUFFICES ASSUME NEW i \in 1 .. n + 1 PROVE new[i].at \in said[new[i].place]
      BY <1>7 DEF Truthful
    <2>2. CASE i \in 1 .. n
      BY <1>2, <1>6, <2>2 DEF Kept, Truthful
    <2>3. CASE i = n + 1
      BY <1>3, <1>6, <2>3
    <2>4. QED
      BY <1>2, <2>2, <2>3
  <1>11. QED
    BY <1>1, <1>3, <1>5, <1>6, <1>9, <1>10 DEF Kept

\* One entry too many: the first one goes.
LEMMA DropsFirst ==
    ASSUME NEW said, NEW entries, Kept(entries, said), Len(entries) = maxCacheEntries + 1
    PROVE  /\ Stored(enforceCacheSizeLimit(entries), said)
           /\ \A i \in 2 .. Len(entries) : entries[i].place \in CachedPlaces(enforceCacheSizeLimit(entries))
           /\ CachedPlaces(enforceCacheSizeLimit(entries)) \subseteq CachedPlaces(entries)
  <1>1. PICK m : m = maxCacheEntries
    OBVIOUS
  <1>2. m \in Nat \ {0} /\ Len(entries) = m + 1
    BY <1>1, GeocoderAssumption
  <1>3. DOMAIN entries = 1 .. m + 1 /\ \A i \in 1 .. m + 1 : entries[i] \in Entries
    BY <1>2, SeqFacts DEF Kept
  <1>4. PICK new : new = SubSeq(entries, 2, m + 1)
    OBVIOUS
  <1>5. enforceCacheSizeLimit(entries) = new
    BY <1>1, <1>2, <1>4 DEF enforceCacheSizeLimit
  <1>6. /\ new \in Seq(Entries) /\ Len(new) = m
        /\ \A i \in 1 .. m : new[i] = entries[i + 1]
    <2>1. \A i \in 2 .. m + 1 : entries[i] \in Entries
      BY <1>2, <1>3
    <2>2. m + 1 \in Int /\ 2 \in Int
      BY <1>2
    <2>3. /\ new \in Seq(Entries)
          /\ Len(new) = IF 2 <= m + 1 THEN (m + 1) - 2 + 1 ELSE 0
          /\ \A i \in 1 .. (m + 1) - 2 + 1 : new[i] = entries[2 + i - 1]
      BY <1>4, <2>1, <2>2, SubSeqProperties
    <2>4. (m + 1) - 2 + 1 = m /\ 2 <= m + 1 /\ \A i \in 1 .. m : 2 + i - 1 = i + 1
      BY <1>2
    <2>5. QED
      BY <2>3, <2>4
  <1>7. DOMAIN new = 1 .. m
    BY <1>6, LenProperties
  <1>8. Distinct(new)
    <2>1. SUFFICES ASSUME NEW i \in 1 .. m, NEW j \in 1 .. m, new[i].place = new[j].place
                   PROVE  i = j
      BY <1>7 DEF Distinct
    <2>2. i + 1 \in 1 .. m + 1 /\ j + 1 \in 1 .. m + 1
      BY <1>2
    <2>3. entries[i + 1].place = entries[j + 1].place
      BY <1>6, <2>1
    <2>4. i + 1 = j + 1
      BY <1>3, <2>2, <2>3 DEF Kept, Distinct
    <2>5. QED
      BY <1>2, <2>4
  <1>9. Truthful(new, said)
    <2>1. SUFFICES ASSUME NEW i \in 1 .. m PROVE new[i].at \in said[new[i].place]
      BY <1>7 DEF Truthful
    <2>2. i + 1 \in 1 .. m + 1
      BY <1>2
    <2>3. QED
      BY <1>3, <1>6, <2>2 DEF Kept, Truthful
  <1>10. \A i \in 2 .. m + 1 : entries[i].place \in CachedPlaces(new)
    <2>1. SUFFICES ASSUME NEW i \in 2 .. m + 1 PROVE entries[i].place \in CachedPlaces(new)
      OBVIOUS
    <2>2. PICK k : k = i - 1
      OBVIOUS
    <2>3. k \in 1 .. m /\ k + 1 = i
      BY <1>2, <2>2
    <2>4. new[k].place = entries[i].place
      BY <1>6, <2>3
    <2>5. QED
      BY <1>7, <2>3, <2>4 DEF CachedPlaces
  <1>11. CachedPlaces(new) \subseteq CachedPlaces(entries)
    <2>1. SUFFICES ASSUME NEW i \in 1 .. m PROVE new[i].place \in CachedPlaces(entries)
      BY <1>7 DEF CachedPlaces
    <2>2. i + 1 \in 1 .. m + 1
      BY <1>2
    <2>3. QED
      BY <1>3, <1>6, <2>2 DEF CachedPlaces
  <1>12. QED
    BY <1>1, <1>2, <1>5, <1>6, <1>8, <1>9, <1>10, <1>11 DEF Stored, Kept

\* A place may be gone only as the first of a full cache, for a new one.
EvictsRightly(before, after) ==
    \A place \in CachedPlaces(before) \ CachedPlaces(after) :
       /\ Len(before) = maxCacheEntries
       /\ place = before[1].place
       /\ CachedPlaces(after) \ CachedPlaces(before) # {}

LEMMA WithinLimit ==
    ASSUME NEW entries, Len(entries) <= maxCacheEntries
    PROVE  enforceCacheSizeLimit(entries) = entries
  BY DEF enforceCacheSizeLimit

LEMMA SetKeeps ==
    ASSUME NEW said, Stored(cache, said), NEW place \in Places, NEW at \in Found, at \in said[place]
    PROVE  Stored(setCacheEntry(place, at), said) /\ EvictsRightly(cache, setCacheEntry(place, at))
  <1>1. PICK set, new : set = MapSet(cache, place, at) /\ new = setCacheEntry(place, at)
    OBVIOUS
  <1>2. Kept(cache, said) /\ Len(cache) \in Nat /\ DOMAIN cache = 1 .. Len(cache) /\ Len(cache) <= maxCacheEntries
    BY SeqFacts DEF Stored, Kept
  <1>3. CASE ~isCacheableLocation(place)
    BY <1>3 DEF setCacheEntry, EvictsRightly
  <1>4. CASE isCacheableLocation(place) /\ place \in CachedPlaces(cache)
    <2>1. Kept(set, said) /\ Len(set) = Len(cache) /\ CachedPlaces(set) = CachedPlaces(cache)
      BY <1>1, <1>2, <1>4, SetsAgain
    <2>2. new = set
      BY <1>1, <1>2, <1>4, <2>1, WithinLimit DEF setCacheEntry
    <2>3. QED
      BY <1>1, <1>2, <2>1, <2>2 DEF Stored, EvictsRightly
  <1>5. CASE isCacheableLocation(place) /\ place \notin CachedPlaces(cache)
    <2>1. /\ Kept(set, said) /\ Len(set) = Len(cache) + 1
          /\ \A i \in 1 .. Len(cache) : set[i] = cache[i]
          /\ set[Len(cache) + 1].place = place
      BY <1>1, <1>2, <1>5, SetsNew
    <2>2. new = enforceCacheSizeLimit(set)
      BY <1>1, <1>5 DEF setCacheEntry
    <2>3. DOMAIN set = 1 .. Len(cache) + 1
      BY <2>1, SeqFacts DEF Kept
    <2>4. CASE Len(cache) + 1 <= maxCacheEntries
      <3>1. new = set
        BY <2>1, <2>2, <2>4, WithinLimit
      <3>2. CachedPlaces(cache) \subseteq CachedPlaces(set)
        <4>1. SUFFICES ASSUME NEW i \in 1 .. Len(cache) PROVE cache[i].place \in CachedPlaces(set)
          BY <1>2 DEF CachedPlaces
        <4>2. i \in 1 .. Len(cache) + 1 /\ set[i] = cache[i]
          BY <1>2, <2>1
        <4>3. QED
          BY <2>3, <4>2 DEF CachedPlaces
      <3>3. QED
        BY <1>1, <2>1, <2>4, <3>1, <3>2 DEF Stored, EvictsRightly
    <2>5. CASE ~(Len(cache) + 1 <= maxCacheEntries)
      <3>1. Len(cache) = maxCacheEntries /\ Len(set) = maxCacheEntries + 1 /\ Len(cache) >= 1
        <4>1. maxCacheEntries \in Nat \ {0}
          BY GeocoderAssumption
        <4>2. Len(cache) \in Nat /\ Len(cache) <= maxCacheEntries /\ Len(set) = Len(cache) + 1
          BY <1>2, <2>1
        <4>3. QED
          BY <2>5, <4>1, <4>2
      <3>2. /\ Stored(new, said)
            /\ \A i \in 2 .. Len(set) : set[i].place \in CachedPlaces(new)
        BY <2>1, <2>2, <3>1, DropsFirst
      <3>3. place \in CachedPlaces(new)
        <4>1. Len(cache) + 1 \in 2 .. Len(set)
          BY <1>2, <2>1, <3>1
        <4>2. QED
          BY <2>1, <3>2, <4>1
      <3>4. ASSUME NEW gone \in CachedPlaces(cache), gone \notin CachedPlaces(new)
            PROVE  gone = cache[1].place
        <4>1. PICK i \in 1 .. Len(cache) : gone = cache[i].place
          BY <1>2 DEF CachedPlaces
        <4>2. i # 1 => i \in 2 .. Len(set)
          BY <1>2, <2>1
        <4>3. QED
          BY <2>1, <3>2, <3>4, <4>1, <4>2
      <3>5. EvictsRightly(cache, new)
        BY <1>5, <3>1, <3>3, <3>4 DEF EvictsRightly
      <3>6. QED
        BY <1>1, <3>2, <3>5
    <2>6. QED
      BY <2>4, <2>5
  <1>6. QED
    BY <1>3, <1>4, <1>5

\* What a cached place is answered with is what the service said of it.
LEMMA CachedIsTold ==
    ASSUME NEW said, Stored(cache, said), NEW place \in Places, IsCached(place)
    PROVE  CachedAt(place) \in said[place]
  <1>1. PICK i : i = CHOOSE j \in DOMAIN cache : cache[j].place = place
    OBVIOUS
  <1>2. \E j \in DOMAIN cache : cache[j].place = place
    BY DEF IsCached, CachedPlaces
  <1>3. i \in DOMAIN cache /\ cache[i].place = place
    BY <1>1, <1>2
  <1>4. cache[i].at \in said[place]
    BY <1>3 DEF Stored, Kept, Truthful
  <1>5. QED
    BY <1>1, <1>4 DEF CachedAt
----------------------------------------------------------------------------
(* The geocoder's invariant and steps *)

GeocoderInv ==
    /\ told \in [Places -> SUBSET Found]
    /\ Stored(cache, told)
    /\ file = Torn \/ Stored(file, told)
    /\ saving = "written" => tmp = cache

LEMMA NoEntries ==
    ASSUME NEW said
    PROVE  Stored(<<>>, said)
  <1>1. <<>> \in Seq(Entries) /\ Len(<<>>) = 0 /\ DOMAIN <<>> = {}
    BY EmptySeq
  <1>2. QED
    BY <1>1, GeocoderAssumption DEF Stored, Kept, Distinct, Truthful

LEMMA GeocoderStarts ==
    ASSUME GeocoderInit
    PROVE  GeocoderInv
  BY NoEntries DEF GeocoderInit, GeocoderInv

LEMMA SettlesStep ==
    ASSUME GeocoderInv, Runs, NEW place \in Places, NEW reply, SettlesLookup(place, reply)
    PROVE  /\ GeocoderInv' /\ Grows(told, told') /\ EvictsRightly(cache, cache') /\ file' = file
           /\ reply \in Found => reply \in told'[place]
  <1>0. saving # "written" /\ saving' = saving
    BY DEF SettlesLookup, Runs
  <1>1. PICK more : more = told'
    OBVIOUS
  <1>2. more = [told EXCEPT ![place] = @ \cup ({reply} \cap Found)]
    BY <1>1 DEF SettlesLookup
  <1>3. told \in [Places -> SUBSET Found]
    BY DEF GeocoderInv
  <1>4. /\ more \in [Places -> SUBSET Found]
        /\ more[place] = told[place] \cup ({reply} \cap Found)
        /\ \A other \in Places : other # place => more[other] = told[other]
    BY <1>2, <1>3
  <1>5. Grows(told, more) /\ (reply \in Found => reply \in more[place])
    BY <1>3, <1>4 DEF Grows
  <1>6. Stored(cache, more) /\ (file = Torn \/ Stored(file, more))
    BY <1>5, KeptGrows DEF GeocoderInv
  <1>7. cache' = Learnt(place, reply) /\ file' = file
    BY DEF SettlesLookup
  <1>8. Stored(cache', more) /\ EvictsRightly(cache, cache')
    <2>1. CASE reply \in Found
      BY <1>5, <1>6, <1>7, <2>1, SetKeeps DEF Learnt
    <2>2. CASE reply \notin Found
      BY <1>6, <1>7, <2>2 DEF Learnt, EvictsRightly
    <2>3. QED
      BY <2>1, <2>2
  <1>9. GeocoderInv'
    BY <1>0, <1>1, <1>4, <1>6, <1>7, <1>8 DEF GeocoderInv, Stored, Kept, Distinct, Truthful
  <1>10. QED
    BY <1>1, <1>5, <1>7, <1>8, <1>9

\* Only the renaming changes the file, and the temporary file is whole then.
LEMMA SavesStep ==
    ASSUME GeocoderInv, saveCache
    PROVE  GeocoderInv' /\ told' = told /\ cache' = cache /\ file' \in {file, cache}
  <1>1. CASE OpensTemporary
    BY <1>1 DEF OpensTemporary, GeocoderInv, Stored, Kept, Distinct, Truthful
  <1>2. CASE WriteEnds
    BY <1>2 DEF WriteEnds, GeocoderInv, Stored, Kept, Distinct, Truthful
  <1>3. CASE Renames
    <2>1. file' = cache /\ cache' = cache /\ told' = told /\ saving' = "no"
      BY <1>3 DEF Renames, GeocoderInv
    <2>2. QED
      BY <2>1 DEF GeocoderInv, Stored, Kept, Distinct, Truthful
  <1>4. CASE SaveFails
    BY <1>4 DEF SaveFails, GeocoderInv, Stored, Kept, Distinct, Truthful
  <1>5. QED
    BY <1>1, <1>2, <1>3, <1>4 DEF saveCache

LEMMA LoadsStep ==
    ASSUME GeocoderInv, Loads
    PROVE  GeocoderInv' /\ told' = told /\ file' = file
  <1>1. /\ told' = told /\ file' = file /\ saving' = "no"
        /\ cache' \in {<<>>, IF file = Torn THEN <<>> ELSE enforceCacheSizeLimit(file)}
    BY DEF Loads
  <1>2. file # Torn => enforceCacheSizeLimit(file) = file
    BY WithinLimit DEF GeocoderInv, Stored
  <1>3. PICK new : new = cache'
    OBVIOUS
  <1>4. Stored(new, told)
    BY <1>1, <1>2, <1>3, NoEntries DEF GeocoderInv
  <1>5. QED
    BY <1>1, <1>3, <1>4 DEF GeocoderInv, Stored, Kept, Distinct, Truthful

LEMMA GeocoderRests ==
    ASSUME GeocoderInv, UNCHANGED geocoderVars
    PROVE  GeocoderInv' /\ told' = told /\ cache' = cache /\ file' = file
  BY DEF geocoderVars, GeocoderInv, Stored, Kept, Distinct, Truthful
----------------------------------------------------------------------------
(* Answers *)

Paths == {"watering", "weatherData", "v1watering", "v1weather", "v1budget", "baseline"}

\* A request as the server takes it.
Taken(request) ==
    /\ request.kind \in Paths
    /\ request.path \in Paths
    /\ request.loc \in Places \cup {"", "gps", "pws:"}
    /\ ~ThroughServer => request.kind = request.path

\* What is said of a place a handler has coordinates for, or may not have yet.
Located(request, at, said) ==
    request.loc \in Places => at \in said[request.loc] /\ at \in Coordinates
Placed(request, at, said) == at = None \/ Located(request, at, said)

\* An error of /v1 has the status of one.
Statused(request, answer) ==
    request.kind \in V1 =>
       /\ answer.status \in Nat
       /\ answer.code \notin {"NoError", None} => answer.status >= 400

Honest(request, at, answer, said) ==
    /\ Statused(request, answer)
    /\ request.loc \in Places /\ at = None =>
          /\ answer # Success
          /\ answer.code = "NoLocationFound" => NotFound \in said[request.loc]

CallSound(r, said) ==
    /\ r.step \in {"idle", "locating", "deciding", "answered"}
    /\ r.step # "idle" => Taken(r.request) /\ Placed(r.request, r.at, said)
    /\ r.step = "locating" => r.request.loc \in Places
    /\ r.step = "deciding" => Located(r.request, r.at, said)
    /\ r.step = "answered" => Honest(r.request, r.at, r.answer, said)

\* The handler's step leaves a sound call.
Serves(c, said) == \E r : CallSound(r, said) /\ call' = [call EXCEPT ![c] = r]

LEMMA AnswersServes ==
    ASSUME NEW c, NEW said, NEW request, Taken(request), NEW at, Placed(request, at, said),
           NEW answer, Honest(request, at, answer, said), Answers(c, request, at, answer)
    PROVE  Serves(c, said)
  <1>1. PICK r : r = [step |-> "answered", request |-> request, at |-> at, answer |-> answer]
    OBVIOUS
  <1>2. r.step = "answered" /\ r.request = request /\ r.at = at /\ r.answer = answer
    BY <1>1
  <1>3. CallSound(r, said)
    BY <1>2 DEF CallSound
  <1>4. call' = [call EXCEPT ![c] = r]
    BY <1>1 DEF Answers
  <1>5. QED
    BY <1>3, <1>4 DEF Serves

LEMMA AsksServes ==
    ASSUME NEW c, NEW said, NEW request, Taken(request), NEW at, NEW step,
           \/ step = "locating" /\ request.loc \in Places /\ at = None
           \/ step = "deciding" /\ Located(request, at, said),
           Asks(c, step, request, at)
    PROVE  Serves(c, said)
  <1>1. PICK r : r = [step |-> step, request |-> request, at |-> at]
    OBVIOUS
  <1>2. r.step = step /\ r.request = request /\ r.at = at
    BY <1>1
  <1>3. CallSound(r, said)
    BY <1>2 DEF CallSound, Placed
  <1>4. call' = [call EXCEPT ![c] = r]
    BY <1>1 DEF Asks
  <1>5. QED
    BY <1>3, <1>4 DEF Serves

\* With coordinates, any answer that has its status; without, none that is a
\* success or calls the place unknown.
LEMMA LocatedServes ==
    ASSUME NEW c, NEW said, NEW request, Taken(request), NEW at, Located(request, at, said),
           NEW answer, Statused(request, answer), Answers(c, request, at, answer)
    PROVE  Serves(c, said)
  <1>1. Placed(request, at, said)
    BY DEF Placed
  <1>2. Honest(request, at, answer, said)
    BY RequestAssumption DEF Honest, Located
  <1>3. QED
    BY <1>1, <1>2, AnswersServes

LEMMA UnlocatedServes ==
    ASSUME NEW c, NEW said, NEW request, Taken(request), NEW answer, Statused(request, answer),
           answer.code # "NoError",
           answer.code = "NoLocationFound" =>
               (request.loc \in Places => NotFound \in said[request.loc]),
           Answers(c, request, None, answer)
    PROVE  Serves(c, said)
  <1>1. PICK at : at = None
    OBVIOUS
  <1>2. answer # Success
    BY DEF Success, AnswerOf
  <1>3. Placed(request, at, said) /\ Honest(request, at, answer, said)
    BY <1>1, <1>2 DEF Placed, Honest
  <1>4. Answers(c, request, at, answer)
    BY <1>1
  <1>5. QED
    BY <1>3, <1>4, AnswersServes

\* An error keeps its code, or the body has none.
LEMMA FailureFacts ==
    ASSUME NEW request, Taken(request), NEW code
    PROVE  /\ Statused(request, Failure(request, code))
           /\ Failure(request, code).code \in {code, None}
  <1>1. PICK answer : answer = Failure(request, code)
    OBVIOUS
  <1>2. CASE request.kind \in V1
    <2>1. answer = AnswerOf(v1Status(code), code, None)
      BY <1>1, <1>2 DEF Failure, V1
    <2>2. answer.status = v1Status(code) /\ answer.code = code
      BY <2>1 DEF AnswerOf
    <2>3. v1Status(code) \in {400, 422, 502}
      BY DEF v1Status
    <2>4. QED
      BY <1>1, <2>2, <2>3 DEF Statused
  <1>3. CASE request.kind \notin V1
    <2>1. answer.code \in {code, None}
      BY <1>1, <1>3 DEF Failure, Taken, Paths, V1, sendWateringError, Bare, AnswerOf
    <2>2. QED
      BY <1>1, <1>3, <2>1 DEF Statused
  <1>4. QED
    BY <1>2, <1>3

LEMMA FailsLocated ==
    ASSUME NEW c, NEW said, NEW request, Taken(request), NEW at, Located(request, at, said),
           NEW code, Fails(c, request, at, code)
    PROVE  Serves(c, said)
  <1>1. PICK answer : answer = Failure(request, code)
    OBVIOUS
  <1>2. Statused(request, answer) /\ Answers(c, request, at, answer)
    BY <1>1, FailureFacts DEF Fails
  <1>3. QED
    BY <1>2, LocatedServes

LEMMA FailsUnlocated ==
    ASSUME NEW c, NEW said, NEW request, Taken(request), NEW code, code # "NoError",
           code = "NoLocationFound" => request.loc \in Places /\ NotFound \in said[request.loc],
           Fails(c, request, None, code)
    PROVE  Serves(c, said)
  <1>1. PICK answer : answer = Failure(request, code)
    OBVIOUS
  <1>2. Statused(request, answer) /\ answer.code \in {code, None}
    BY <1>1, FailureFacts
  <1>3. Answers(c, request, None, answer)
    BY <1>1 DEF Fails
  <1>4. answer.code # "NoError" /\ (answer.code = "NoLocationFound" => code = "NoLocationFound")
    BY <1>2, RequestAssumption
  <1>5. QED
    BY <1>2, <1>3, <1>4, UnlocatedServes

LEMMA BareServes ==
    ASSUME NEW c, NEW said, NEW request, Taken(request), NEW at, Located(request, at, said),
           NEW status \in Nat, Answers(c, request, at, Bare(status))
    PROVE  Serves(c, said)
  <1>1. PICK answer : answer = Bare(status)
    OBVIOUS
  <1>2. answer.status = status /\ answer.code = None
    BY <1>1 DEF Bare, AnswerOf
  <1>3. Statused(request, answer) /\ Answers(c, request, at, answer)
    BY <1>1, <1>2 DEF Statused
  <1>4. QED
    BY <1>3, LocatedServes

LEMMA SuccessServes ==
    ASSUME NEW c, NEW said, NEW request, Taken(request), NEW at, Located(request, at, said),
           Answers(c, request, at, Success)
    PROVE  Serves(c, said)
  <1>1. PICK answer : answer = Success
    OBVIOUS
  <1>2. answer.status = 200 /\ answer.code = "NoError"
    BY <1>1 DEF Success, AnswerOf
  <1>3. Statused(request, answer) /\ Answers(c, request, at, answer)
    BY <1>1, <1>2 DEF Statused
  <1>4. QED
    BY <1>3, LocatedServes

LEMMA GoesOnServes ==
    ASSUME NEW c, NEW said, NEW request, Taken(request), NEW at, Located(request, at, said),
           GoesOn(c, request, at)
    PROVE  Serves(c, said)
  <1>1. CASE \E code : Fails(c, request, at, code)
    BY <1>1, FailsLocated
  <1>2. CASE Decides(c, request, at)
    <2>1. PICK step : step = "deciding"
      OBVIOUS
    <2>2. \/ \E code : Fails(c, request, at, code)
          \/ Answers(c, request, at, Success)
          \/ Asks(c, step, request, at)
      BY <1>2, <2>1 DEF Decides
    <2>3. CASE Asks(c, step, request, at)
      BY <2>1, <2>3, AsksServes
    <2>4. QED
      BY <1>1, <2>2, <2>3, SuccessServes
  <1>3. CASE v1Budget(c, request, at) \/ getBaselineETo(c, request, at)
    <2>1. PICK status \in {200, 404, 500} : Answers(c, request, at, Bare(status))
      BY <1>3 DEF v1Budget, getBaselineETo
    <2>2. status \in Nat
      OBVIOUS
    <2>3. QED
      BY <2>1, <2>2, BareServes
  <1>4. QED
    BY <1>1, <1>2, <1>3 DEF GoesOn

LEMMA LocationServes ==
    ASSUME GeocoderInv, NEW c, NEW request, Taken(request), request.loc \in Places,
           getLocation(c, request)
    PROVE  Serves(c, told)
  <1>1. CASE ~IsCached(request.loc)
    <2>1. PICK step, at : step = "locating" /\ at = None
      OBVIOUS
    <2>2. Asks(c, step, request, at)
      BY <1>1, <2>1 DEF getLocation
    <2>3. QED
      BY <2>1, <2>2, AsksServes
  <1>2. CASE IsCached(request.loc)
    <2>1. PICK at : at = CachedAt(request.loc)
      OBVIOUS
    <2>2. at \in told[request.loc]
      BY <1>2, <2>1, CachedIsTold DEF GeocoderInv
    <2>3. CASE at = NotFound
      <3>1. PICK code : code = "NoLocationFound"
        OBVIOUS
      <3>2. Fails(c, request, None, code) /\ code # "NoError"
        BY <1>2, <2>1, <2>3, <3>1 DEF getLocation
      <3>3. QED
        BY <2>2, <2>3, <3>2, FailsUnlocated
    <2>4. CASE at # NotFound
      <3>1. GoesOn(c, request, at)
        BY <1>2, <2>1, <2>4 DEF getLocation
      <3>2. Located(request, at, told)
        BY <2>2, <2>4 DEF Located, GeocoderInv, Found
      <3>3. QED
        BY <3>1, <3>2, GoesOnServes
    <2>5. QED
      BY <2>3, <2>4
  <1>3. QED
    BY <1>1, <1>2

LEMMA ResolveServes ==
    ASSUME GeocoderInv, NEW c, NEW request, Taken(request), resolveCoordinates(c, request)
    PROVE  Serves(c, told)
  <1>0. {"", "gps", "pws:"} \cap Places = {}
    BY RequestAssumption
  <1>1. CASE request.loc \in {"", "pws:"}
    <2>1. PICK code : code = "InvalidLocationFormat"
      OBVIOUS
    <2>2. Fails(c, request, None, code) /\ code \notin {"NoError", "NoLocationFound"}
      BY <1>0, <1>1, <2>1 DEF resolveCoordinates
    <2>3. QED
      BY <2>2, FailsUnlocated
  <1>2. CASE request.loc = "gps"
    <2>1. request.loc \notin Places /\ request.loc \notin {"", "pws:"}
      BY <1>0, <1>2
    <2>2. PICK at : at = "gps"
      OBVIOUS
    <2>3. GoesOn(c, request, at) /\ Located(request, at, told)
      BY <1>2, <2>1, <2>2 DEF resolveCoordinates, Located
    <2>4. QED
      BY <2>3, GoesOnServes
  <1>3. CASE request.loc \in Places
    <2>1. request.loc \notin {"", "pws:", "gps"}
      BY <1>0, <1>3
    <2>2. getLocation(c, request)
      BY <1>3, <2>1 DEF resolveCoordinates
    <2>3. QED
      BY <1>3, <2>2, LocationServes
  <1>4. QED
    BY <1>1, <1>2, <1>3 DEF Taken

LEMMA RoutedIsTaken ==
    ASSUME NEW sent \in Requests
    PROVE  Taken(Routed(sent))
  <1>1. /\ sent.path \in Paths /\ sent.loc \in Places \cup {"", "gps", "pws:"}
    BY RequestAssumption DEF RequestType, Paths
  <1>2. PICK r : r = Routed(sent)
    OBVIOUS
  <1>3. /\ r.path = sent.path /\ r.loc = sent.loc
        /\ r.kind = IF ThroughServer /\ sent.path \in V1 THEN "watering" ELSE sent.path
    BY <1>2 DEF Routed
  <1>4. QED
    BY <1>1, <1>2, <1>3 DEF Taken, Paths

LEMMA RefusalServes ==
    ASSUME NEW c, NEW said, NEW request, Taken(request), NEW fileMeta,
           Refusal(request, fileMeta) # None,
           Answers(c, request, None, Refusal(request, fileMeta))
    PROVE  Serves(c, said)
  <1>1. PICK refusal : refusal = Refusal(request, fileMeta)
    OBVIOUS
  <1>a. refusal # None
    BY <1>1
  <1> DEFINE legacyError(code) == refusal.code = code
             errors == legacyError("InvalidAdjustmentMethod") \/ legacyError("MalformedAdjustmentOptions")
  <1>2. \/ refusal = Bare(400)
        \/ request.kind \notin V1 /\ refusal = Bare(503)
        \/ request.kind \notin V1 /\ errors
    <2>1. CASE request.kind \in V1
      <3>1. refusal \in {Bare(400), None}
        BY <1>1, <2>1, ZenonT(60) DEF Refusal, V1
      <3>2. refusal = Bare(400)
        BY <1>a, <3>1, Zenon
      <3>3. QED
        BY <3>2, Zenon
    <2>2. CASE request.kind = "baseline"
      BY <1>1, <1>a, <2>2 DEF Refusal, V1
    <2>3. CASE request.kind \in {"watering", "weatherData"}
      <3>1. \A reset : /\ sendWateringError("InvalidAdjustmentMethod", reset).code = "InvalidAdjustmentMethod"
                       /\ sendWateringError("MalformedAdjustmentOptions", reset).code = "MalformedAdjustmentOptions"
        BY DEF sendWateringError, AnswerOf
      <3>2. CASE request.kind = "watering" /\ MethodOf(request) = None /\ request.options # "malformed"
        <4>1. refusal = sendWateringError("InvalidAdjustmentMethod", TRUE)
          BY <1>1, <3>2 DEF Refusal, V1
        <4>2. QED
          BY <2>3, <3>1, <4>1 DEF V1
      <3>3. CASE request.options = "malformed" /\ request.kind = "weatherData"
        <4>1. refusal.code = "MalformedAdjustmentOptions"
          BY <1>1, <3>3 DEF Refusal, V1, sendWateringError, AnswerOf
        <4>2. QED
          BY <2>3, <4>1 DEF V1
      <3>4. CASE request.options = "malformed" /\ request.kind = "watering"
        <4>1. errors
          BY <1>1, <3>4 DEF Refusal, V1, sendWateringError, AnswerOf
        <4>2. QED
          BY <2>3, <4>1 DEF V1
      <3>5. CASE ~(request.options = "malformed") /\ ~(request.kind = "watering" /\ MethodOf(request) = None)
        BY <1>1, <1>a, <2>3, <3>5 DEF Refusal, V1
      <3>6. QED
        BY <2>3, <3>2, <3>3, <3>4, <3>5
    <2>4. QED
      BY <2>1, <2>2, <2>3 DEF Taken, Paths, V1
  <1>3. CASE refusal = Bare(400) \/ (request.kind \notin V1 /\ refusal = Bare(503))
    <2>1. refusal.code = None /\ refusal.status \in {400, 503} /\ (request.kind \in V1 => refusal.status = 400)
      BY <1>3 DEF Bare, AnswerOf
    <2>2. Statused(request, refusal)
      BY <2>1 DEF Statused
    <2>3. refusal.code \notin {"NoError", "NoLocationFound"}
      BY <2>1, RequestAssumption
    <2>4. QED
      BY <1>1, <2>2, <2>3, UnlocatedServes
  <1>4. CASE request.kind \notin V1 /\ errors
    <2>1. Statused(request, refusal) /\ refusal.code \notin {"NoError", "NoLocationFound"}
      BY <1>4 DEF Statused
    <2>2. QED
      BY <1>1, <2>1, UnlocatedServes
  <1>5. QED
    BY <1>2, <1>3, <1>4
----------------------------------------------------------------------------
(* The steps *)

ApiInv ==
    /\ GeocoderInv
    /\ call = [c \in Callers |-> call[c]]
    /\ \A c \in Callers : CallSound(call[c], told)

LEMMA SoundGrows ==
    ASSUME NEW said, NEW more, Grows(said, more), NEW r, CallSound(r, said)
    PROVE  CallSound(r, more)
  BY DEF Grows, CallSound, Honest, Placed, Located

\* The invariant of the next state, in terms of what the calls and the service's
\* answers are then.
LEMMA NextSound ==
    ASSUME GeocoderInv', NEW after, after = call', NEW more, more = told',
           after = [c \in Callers |-> after[c]], \A c \in Callers : CallSound(after[c], more)
    PROVE  ApiInv'
  <1>1. ASSUME NEW c \in Callers
        PROVE  CallSound(call[c], told)'
    <2>1. PICK r : r = after[c]
      OBVIOUS
    <2>2. CallSound(r, more) /\ r = call'[c] /\ more = told'
      BY <2>1
    <2>3. QED
      BY <2>2
  <1>2. (call = [c \in Callers |-> call[c]])'
    OBVIOUS
  <1>3. QED
    BY <1>1, <1>2 DEF ApiInv

\* The step of one call, while the service's answers may have grown.
LEMMA ServesStep ==
    ASSUME ApiInv, GeocoderInv', NEW c \in Callers, NEW more, more = told', Serves(c, more),
           Grows(told, more)
    PROVE  ApiInv'
  <1>1. PICK r : CallSound(r, more) /\ call' = [call EXCEPT ![c] = r]
    BY DEF Serves
  <1>2. PICK after : after = call'
    OBVIOUS
  <1>3. call = [b \in Callers |-> call[b]] /\ \A b \in Callers : CallSound(call[b], told)
    BY DEF ApiInv
  <1>4. after = [b \in Callers |-> after[b]] /\ \A b \in Callers : after[b] = IF b = c THEN r ELSE call[b]
    BY <1>1, <1>2, <1>3
  <1>5. \A b \in Callers : CallSound(after[b], more)
    <2>1. SUFFICES ASSUME NEW b \in Callers PROVE CallSound(after[b], more)
      OBVIOUS
    <2>2. CallSound(call[b], more)
      BY <1>3, SoundGrows
    <2>3. QED
      BY <1>1, <1>4, <2>2
  <1>6. QED
    BY <1>2, <1>4, <1>5, NextSound

LEMMA NothingTold ==
    ASSUME GeocoderInv
    PROVE  Grows(told, told)
  BY DEF GeocoderInv, Grows

\* What every step keeps, and what the two action properties say of it.
StepSound ==
    /\ ApiInv'
    /\ Restarts \/ EvictsRightly(cache, cache')
    /\ file' # file => file' = cache

LEMMA ReceivesStep ==
    ASSUME ApiInv, NEW c \in Callers, Receives(c)
    PROVE  StepSound
  <1>1. PICK sent \in Requests, fileMeta \in BOOLEAN :
           LET request == Routed(sent)
               refusal == Refusal(request, fileMeta)
           IN  IF refusal # None THEN Answers(c, request, None, refusal)
               ELSE resolveCoordinates(c, request)
    BY DEF Receives
  <1>2. PICK request : request = Routed(sent)
    OBVIOUS
  <1>3. Taken(request) /\ GeocoderInv
    BY <1>2, RoutedIsTaken DEF ApiInv
  <1>4. Serves(c, told)
    <2>1. CASE Refusal(request, fileMeta) # None
      BY <1>1, <1>2, <1>3, <2>1, RefusalServes
    <2>2. CASE Refusal(request, fileMeta) = None
      BY <1>1, <1>2, <1>3, <2>2, ResolveServes
    <2>3. QED
      BY <2>1, <2>2
  <1>5. UNCHANGED geocoderVars
    BY DEF Receives
  <1>6. GeocoderInv' /\ told' = told /\ cache' = cache /\ file' = file
    BY <1>3, <1>5, GeocoderRests
  <1>7. Serves(c, told')
    BY <1>4, <1>6
  <1>8. Grows(told, told')
    BY <1>3, <1>6, NothingTold
  <1>9. ApiInv'
    <2>1. PICK more : more = told'
      OBVIOUS
    <2>2. Serves(c, more) /\ Grows(told, more)
      BY <1>7, <1>8, <2>1
    <2>3. QED
      BY <1>6, <2>1, <2>2, ServesStep
  <1>10. QED
    BY <1>6, <1>9 DEF StepSound, EvictsRightly

LEMMA LookupStep ==
    ASSUME ApiInv, NEW c \in Callers, LookupReturns(c)
    PROVE  StepSound
  <1>1. PICK request : request = call[c].request
    OBVIOUS
  <1>2. Taken(request) /\ request.loc \in Places /\ GeocoderInv /\ Runs
    BY <1>1 DEF LookupReturns, ApiInv, CallSound
  <1>3. PICK reply \in ReplyOf(http[c]) :
           /\ SettlesLookup(request.loc, reply)
           /\ CASE reply \in Coordinates -> GoesOn(c, request, reply)
                [] reply = NotFound -> Fails(c, request, None, "NoLocationFound")
                [] OTHER -> Fails(c, request, None, reply)
    BY <1>1 DEF LookupReturns
  <1>4. /\ GeocoderInv' /\ Grows(told, told') /\ EvictsRightly(cache, cache') /\ file' = file
        /\ reply \in Found => reply \in told'[request.loc]
    BY <1>2, <1>3, SettlesStep
  <1>5. PICK more : more = told'
    OBVIOUS
  <1>6. Grows(told, more) /\ (reply \in Found => reply \in more[request.loc])
    BY <1>4, <1>5
  <1>7. Serves(c, more)
    <2>1. CASE reply \in Coordinates
      <3>1. GoesOn(c, request, reply)
        BY <1>3, <2>1, GeocoderAssumption
      <3>2. Located(request, reply, more)
        BY <1>6, <2>1 DEF Located, Found
      <3>3. QED
        BY <1>2, <3>1, <3>2, GoesOnServes
    <2>2. CASE reply = NotFound
      <3>1. reply \notin Coordinates /\ NotFound \in more[request.loc]
        BY <1>6, <2>2, GeocoderAssumption DEF Found
      <3>2. Fails(c, request, None, "NoLocationFound")
        BY <1>3, <2>2, <3>1
      <3>3. PICK code : code = "NoLocationFound"
        OBVIOUS
      <3>4. QED
        BY <1>2, <3>1, <3>2, <3>3, FailsUnlocated
    <2>3. CASE reply \notin Coordinates /\ reply # NotFound
      <3>1. reply \in {"LocationServiceApiError", "UnexpectedError"}
        BY <1>3, <2>3 DEF ReplyOf, Replies, Found
      <3>2. Fails(c, request, None, reply) /\ reply \notin {"NoError", "NoLocationFound"}
        BY <1>3, <2>3, <3>1
      <3>3. QED
        BY <1>2, <3>2, FailsUnlocated
    <2>4. QED
      BY <2>1, <2>2, <2>3
  <1>8. ApiInv'
    BY <1>4, <1>5, <1>6, <1>7, ServesStep
  <1>9. QED
    BY <1>4, <1>8 DEF StepSound

LEMMA DecisionStep ==
    ASSUME ApiInv, NEW c \in Callers, DecisionReturns(c)
    PROVE  StepSound
  <1>1. PICK request : request = call[c].request
    OBVIOUS
  <1>2. PICK at : at = call[c].at
    OBVIOUS
  <1>3. Taken(request) /\ Located(request, at, told) /\ GeocoderInv
    BY <1>1, <1>2 DEF DecisionReturns, ApiInv, CallSound
  <1>4. Answers(c, request, at, Success) \/ \E code : Fails(c, request, at, code)
    BY <1>1, <1>2 DEF DecisionReturns
  <1>5. Serves(c, told)
    BY <1>3, <1>4, SuccessServes, FailsLocated
  <1>6. GeocoderInv' /\ told' = told /\ cache' = cache /\ file' = file
    BY <1>3, GeocoderRests DEF DecisionReturns
  <1>7. PICK more : more = told'
    OBVIOUS
  <1>8. Serves(c, more) /\ Grows(told, more)
    BY <1>3, <1>5, <1>6, <1>7, NothingTold
  <1>9. ApiInv'
    BY <1>6, <1>7, <1>8, ServesStep
  <1>10. QED
    BY <1>6, <1>9 DEF StepSound, EvictsRightly

\* A step that leaves the calls alone, and tells nothing new.
LEMMA CallsAlone ==
    ASSUME ApiInv, GeocoderInv', told' = told, call' = call
    PROVE  ApiInv'
  BY DEF ApiInv

LEMMA RestartsStep ==
    ASSUME ApiInv, Restarts
    PROVE  StepSound
  <1>1. GeocoderInv' /\ told' = told /\ file' = file
    BY LoadsStep DEF ApiInv, Restarts
  <1>2. PICK idle : idle = [step |-> "idle"]
    OBVIOUS
  <1>3. PICK after, more : after = call' /\ more = told'
    OBVIOUS
  <1>4. CallSound(idle, more)
    BY <1>2 DEF CallSound
  <1>5. after = [c \in Callers |-> idle]
    BY <1>2, <1>3 DEF Restarts
  <1>6. after = [c \in Callers |-> after[c]] /\ \A c \in Callers : CallSound(after[c], more)
    BY <1>4, <1>5
  <1>7. ApiInv'
    BY <1>1, <1>3, <1>6, NextSound
  <1>8. QED
    BY <1>1, <1>7 DEF StepSound

LEMMA ApiStep ==
    ASSUME ApiInv, [Next]_requestVars
    PROVE  StepSound
  <1>1. CASE \E c \in Callers : Receives(c) \/ LookupReturns(c) \/ DecisionReturns(c)
    BY <1>1, ReceivesStep, LookupStep, DecisionStep
  <1>2. CASE \/ \E c \in Callers : RequestMoves(c) \/ TimeoutFires(c)
             \/ UNCHANGED requestVars
    <2>1. UNCHANGED geocoderVars /\ call' = call
      BY <1>2 DEF RequestMoves, TimeoutFires, requestVars, geocoderVars
    <2>2. GeocoderInv' /\ told' = told /\ cache' = cache /\ file' = file
      BY <2>1, GeocoderRests DEF ApiInv
    <2>3. QED
      BY <2>1, <2>2, CallsAlone DEF StepSound, EvictsRightly
  <1>3. CASE Saves
    <2>1. GeocoderInv' /\ told' = told /\ cache' = cache /\ file' \in {file, cache} /\ call' = call
      BY <1>3, SavesStep DEF Saves, ApiInv
    <2>2. QED
      BY <2>1, CallsAlone DEF StepSound, EvictsRightly
  <1>4. CASE Restarts
    BY <1>4, RestartsStep
  <1>5. QED
    BY <1>1, <1>2, <1>3, <1>4 DEF Next
----------------------------------------------------------------------------
(* The theorems *)

LEMMA ApiInvariant == Spec => []ApiInv
  <1>1. Init => ApiInv
    <2>1. SUFFICES ASSUME Init PROVE ApiInv
      OBVIOUS
    <2>2. PICK idle : idle = [step |-> "idle"]
      OBVIOUS
    <2>3. call = [c \in Callers |-> idle]
      BY <2>1, <2>2 DEF Init
    <2>4. CallSound(idle, told)
      BY <2>2 DEF CallSound
    <2>5. GeocoderInv
      BY <2>1, GeocoderStarts DEF Init
    <2>6. QED
      BY <2>3, <2>4, <2>5 DEF ApiInv
  <1>2. ApiInv /\ [Next]_requestVars => ApiInv'
    BY ApiStep DEF StepSound
  <1>3. QED
    BY <1>1, <1>2, PTL DEF Spec

\* Geocoder.ts: with overlapping lookups, an eviction for each new place and any
\* crashes, the cache and its file hold each place once, within the limit, with
\* what the service has said of it.
THEOREM CacheIsTruthful == Spec => []CacheSaysWhatWasTold
  <1>1. ApiInv => CacheSaysWhatWasTold
    <2>1. ASSUME NEW entries, Stored(entries, told)
          PROVE  /\ \A i \in DOMAIN entries : entries[i].at \in told[entries[i].place]
                 /\ Cardinality(CachedPlaces(entries)) = Len(entries)
                 /\ Len(entries) <= maxCacheEntries
      BY <2>1, DistinctCounts DEF Stored, Kept, Truthful
    <2>2. SUFFICES ASSUME ApiInv PROVE CacheSaysWhatWasTold
      OBVIOUS
    <2>3. \A entries \in {cache} \cup IF file = Torn THEN {} ELSE {file} : Stored(entries, told)
      BY <2>2 DEF ApiInv, GeocoderInv
    <2>4. QED
      BY <2>1, <2>3 DEF CacheSaysWhatWasTold
  <1>2. QED
    BY <1>1, ApiInvariant, PTL

\* getLocation, resolveCoordinates: whatever overlaps, fails and is cached, evicted,
\* saved and loaded, a handler goes on with coordinates the service gave for the
\* place, and calls it unknown by itself only if the service has.
THEOREM PlacesAreHonest == Spec => []PlacesAreAsTold
  <1>1. ApiInv => PlacesAreAsTold
    BY RequestAssumption DEF ApiInv, CallSound, Placed, Located, Honest, PlacesAreAsTold
  <1>2. QED
    BY <1>1, ApiInvariant, PTL

\* docs/v1-api.md: what keeps /v1 from its status codes is the order of the
\* server's routes alone: the handlers themselves keep to them.
THEOREM HandlersUseStatusCodes ==
    ASSUME ~ThroughServer
    PROVE  Spec => []ErrorsUseStatusCodes
  <1>1. ApiInv => ErrorsUseStatusCodes
    BY DEF ApiInv, CallSound, Taken, Honest, Statused, ErrorsUseStatusCodes
  <1>2. QED
    BY <1>1, ApiInvariant, PTL

\* enforceCacheSizeLimit: only the first entry of a full cache goes, and only for
\* a place that was not there.
THEOREM EvictionsAreRight == Spec => EvictsOnlyForANewPlace
  <1>1. ApiInv /\ [Next]_requestVars =>
           [\A place \in CachedPlaces(cache) \ CachedPlaces(cache') :
              \/ Restarts
              \/ /\ Len(cache) = maxCacheEntries
                 /\ place = cache[1].place
                 /\ CachedPlaces(cache') \ CachedPlaces(cache) # {}]_requestVars
    BY ApiStep DEF StepSound, EvictsRightly
  <1>2. QED
    BY <1>1, ApiInvariant, PTL DEF Spec, EvictsOnlyForANewPlace

\* saveCache: a save cut short by a failure or a crash at any of its calls, and a
\* temporary file left behind, never reach the file: it becomes the whole cache or
\* stays as it is.  It rests on nothing else running while a save is at work.
THEOREM SavesAreWhole == Spec => SavedCacheSurvives
  <1>1. ApiInv /\ [Next]_requestVars => [file' # file => file' = cache]_geocoderVars
    BY ApiStep DEF StepSound
  <1>2. QED
    BY <1>1, ApiInvariant, PTL DEF Spec, SavedCacheSurvives
=============================================================================
