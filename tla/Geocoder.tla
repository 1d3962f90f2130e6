-------------------------------- MODULE Geocoder --------------------------------
(***************************************************************************)
(* The geocoder's cache (routes/geocoders/Geocoder.ts): a Map in the order  *)
(* its places were first set, with a limit, saved now and then to a file    *)
(* and loaded from it when the process starts.  Lookups of one place may    *)
(* overlap, for it is set only when the service has answered.               *)
(*                                                                          *)
(* A save is three system calls, and the process may die between them; they *)
(* are synchronous, so nothing else of this process happens meanwhile.      *)
(***************************************************************************)
EXTENDS Integers, Sequences, FiniteSets

CONSTANTS
    Places,           \* names to look up, in lower case and trimmed
    LongPlaces,       \* those longer than maxLocationLength
    Coordinates,
    NotFound,         \* the null of a place the service does not know
    Torn,             \* a file that is missing, empty, or does not parse
    maxCacheEntries

ASSUME GeocoderAssumption ==
    /\ LongPlaces \subseteq Places
    /\ NotFound \notin Coordinates
    /\ Torn \notin Seq([place : Places, at : Coordinates \cup {NotFound}])
    /\ maxCacheEntries \in Nat \ {0}

VARIABLES
    cache,   \* the entries of the Map in their order
    file,    \* the entries in geocoderCache.json, or Torn
    tmp,     \* those in the temporary file beside it, or Torn
    saving,  \* how far saveCache is: "no", "writing" or "written"
    told     \* history: [Places -> what the service has ever answered]

geocoderVars == <<cache, file, tmp, saving, told>>
----------------------------------------------------------------------------
Found == Coordinates \cup {NotFound}
Entries == [place : Places, at : Found]

CachedPlaces(entries) == {entries[i].place : i \in DOMAIN entries}

\* Map.set: a place that is there keeps its position.
MapSet(entries, place, at) ==
    IF place \in CachedPlaces(entries)
    THEN [i \in DOMAIN entries |->
            IF entries[i].place = place THEN [place |-> place, at |-> at] ELSE entries[i]]
    ELSE Append(entries, [place |-> place, at |-> at])

\* The first entries go until the rest is within the limit.
enforceCacheSizeLimit(entries) ==
    IF Len(entries) <= maxCacheEntries THEN entries
    ELSE SubSeq(entries, Len(entries) - maxCacheEntries + 1, Len(entries))

isCacheableLocation(place) == place \notin LongPlaces

\* Mutant: room is made before the place is set, whether or not it is new.
EvictsFirst(place, at) ==
    IF isCacheableLocation(place)
    THEN MapSet(IF Len(cache) >= maxCacheEntries THEN Tail(cache) ELSE cache, place, at)
    ELSE cache

setCacheEntry(place, at) ==
    IF isCacheableLocation(place) THEN enforceCacheSizeLimit(MapSet(cache, place, at))
    ELSE cache

\* A cached place is answered without asking.
IsCached(place) == isCacheableLocation(place) /\ place \in CachedPlaces(cache)
CachedAt(place) == cache[CHOOSE i \in DOMAIN cache : cache[i].place = place].at

\* What a reply of the service means: coordinates, no result, or an error.
Replies == Found \cup {"LocationServiceApiError", "UnexpectedError"}

\* Mutant: every error is kept as a place that does not exist.
KeepsErrors(place, reply) ==
    setCacheEntry(place, IF reply \in Coordinates THEN reply ELSE NotFound)

\* Coordinates and "no result" are kept, an error is not.
Learnt(place, reply) == IF reply \in Found THEN setCacheEntry(place, reply) ELSE cache

GeocoderInit ==
    /\ cache = <<>>
    /\ file = Torn
    /\ tmp = Torn
    /\ saving = "no"
    /\ told = [place \in Places |-> {}]

\* The end of a lookup that asked the service.
SettlesLookup(place, reply) ==
    /\ cache' = Learnt(place, reply)
    /\ told' = [told EXCEPT ![place] = @ \cup ({reply} \cap Found)]
    /\ UNCHANGED <<file, tmp, saving>>

\* Mutant: the file itself is opened and written.
OpensInPlace ==
    /\ saving = "no"
    /\ saving' = "writing"
    /\ file' = Torn
    /\ UNCHANGED <<cache, tmp, told>>

\* saveCache, on its timer: writeFileSync opens the temporary file and empties
\* it, whatever an earlier process of the same number left there.
OpensTemporary ==
    /\ saving = "no"
    /\ saving' = "writing"
    /\ tmp' = Torn
    /\ UNCHANGED <<cache, file, told>>

\* The rest of the entries is written, and the file is closed.
WriteEnds ==
    /\ saving = "writing"
    /\ saving' = "written"
    /\ tmp' = cache
    /\ UNCHANGED <<cache, file, told>>

\* renameSync.
Renames ==
    /\ saving = "written"
    /\ saving' = "no"
    /\ file' = tmp
    /\ tmp' = Torn
    /\ UNCHANGED <<cache, told>>

\* Any of the calls fails, the first one too, and the temporary file is removed.
\* One that cannot be is not read either: the next save empties it.
SaveFails ==
    /\ saving' = "no"
    /\ tmp' = Torn
    /\ UNCHANGED <<cache, file, told>>

saveCache == OpensTemporary \/ WriteEnds \/ Renames \/ SaveFails

\* The constructor of the next process, which may have the number of the last.
Loads ==
    /\ cache' \in {<<>>, IF file = Torn THEN <<>> ELSE enforceCacheSizeLimit(file)}
    /\ saving' = "no"
    /\ UNCHANGED <<file, tmp, told>>
----------------------------------------------------------------------------
(* Properties *)

GeocoderTypeOK ==
    /\ cache \in Seq(Entries)
    /\ {file, tmp} \subseteq Seq(Entries) \cup {Torn}
    /\ saving \in {"no", "writing", "written"}
    /\ told \in [Places -> SUBSET Found]

\* getLocation: coordinates are kept, and so is "no result", but a lookup that
\* failed is not: what the cache and its file say of a place, also after a
\* restart, the service has said of it; no place is there twice, and there are
\* never more than the limit.
CacheSaysWhatWasTold ==
    \A entries \in {cache} \cup IF file = Torn THEN {} ELSE {file} :
       /\ \A i \in DOMAIN entries : entries[i].at \in told[entries[i].place]
       /\ Cardinality(CachedPlaces(entries)) = Len(entries)
       /\ Len(entries) <= maxCacheEntries

\* saveCache: wherever a save fails or the process dies, and whatever that leaves
\* for the next one of its number, the file changes only to all that the cache
\* holds at that moment: a restart finds the last save that finished.
SavedCacheSurvives == [][file' # file => file' = cache]_geocoderVars
=============================================================================
