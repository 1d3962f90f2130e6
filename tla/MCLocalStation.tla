---------------------------- MODULE MCLocalStation ----------------------------
(* Values for checking LocalStation. *)
EXTENDS LocalStation

Reading(counts, dated, rainy, fields) ==
    [counts |-> counts, dated |-> dated, rainy |-> rainy, fields |-> fields, token |-> TRUE]

\* A complete reading, one without its rain count, and one without a date.
ThreeReadings ==
    {Reading(TRUE, TRUE, TRUE, Fields), Reading(FALSE, TRUE, FALSE, {"temp"}),
     Reading(TRUE, FALSE, FALSE, {"temp"})}
=============================================================================
