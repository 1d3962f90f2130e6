------------------------- MODULE MCWateringDecision -------------------------
(***************************************************************************)
(* Queries for checking WateringDecision: a station's query with a chain,   *)
(* beside a query that names a key and no station.                          *)
(***************************************************************************)
EXTENDS WateringDecision, TLC

CONSTANTS Primary1, Backup, Other, Home, Away, Station, r1, r2

Ask(method, restricted, loc, pws, provider, fallbacks, rules) ==
    [method |-> method, checkRestrictions |-> restricted, loc |-> loc, pws |-> pws,
     provider |-> provider, fallbacks |-> fallbacks, rules |-> rules]

StationQuery == Ask("budget", FALSE, Home, Station, Primary1, <<Backup, None, Backup>>, {"freeze"})
KeyOnlyQuery == Ask("manual", TRUE, Home, KeyOnly, Primary1, <<Backup>>, {"freeze"})

Neighbours == {StationQuery, KeyOnlyQuery}

Caching == {Primary1, PwsProvider, Other}

\* Weather that calls for both skips, of which the first in order wins.
Storm == {{"freeze", "rain"}}

RequestSymmetry == Permutations(Requests)
=============================================================================
