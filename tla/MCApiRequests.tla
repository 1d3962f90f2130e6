---------------------------- MODULE MCApiRequests ----------------------------
(* Values for checking ApiRequests. *)
EXTENDS ApiRequests

CONSTANTS p, q, r, long

Request(path, loc, method, options) ==
    [path |-> path, loc |-> loc, method |-> method, options |-> options]

\* Every kind, every way to be refused, and lookups of three places by several.
SomeRequests ==
    {Request("watering", p, 1, "fine"),
     Request("weatherData", q, None, "fine"),
     Request("v1budget", r, None, "fine"),
     Request("baseline", long, None, "fine"),
     Request("v1watering", "gps", 3, "fine"),
     Request("v1weather", "gps", None, "bad station"),
     Request("watering", "pws:", 0, "fine"),
     Request("weatherData", "gps", None, "malformed")}

\* HTTP_REQUEST_TIMEOUT_MS=0, which is not a time.
NoTimeout == 0
=============================================================================
