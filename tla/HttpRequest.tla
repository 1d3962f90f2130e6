------------------------------ MODULE HttpRequest ------------------------------
(***************************************************************************)
(* httpRequest (routes/weather.ts): the promise around one HTTP exchange,   *)
(* as the events of Node's client settle it or fail to.  Each caller has at *)
(* most one exchange at a time and takes its outcome when it is settled.    *)
(***************************************************************************)
EXTENDS Integers

CONSTANTS
    Callers,
    PerCallTimeout,  \* the timeoutMs argument; None when it is not given
    EnvTimeout,      \* HTTP_REQUEST_TIMEOUT_MS; None when it is not a number
    EarlyClose,      \* whether a peer may close the connection inside a body
    None

VARIABLE http        \* [Callers -> the state of its exchange]

DefaultTimeout == 10000

ASSUME TimeoutAssumption ==
    /\ PerCallTimeout \in Int \cup {None}
    /\ EnvTimeout \in Int \cup {None}
    /\ None \notin Int
    /\ EarlyClose \in BOOLEAN

\* "sent": no answer yet; "head": the status is 200 and the body is arriving;
\* "lost": no event will settle the promise any more.
HttpStates == {"idle", "sent", "head", "lost", "resolved", "rejected"}

\* Mutant: the environment's number is taken as it is.
rawTimeoutMs ==
    IF PerCallTimeout # None /\ PerCallTimeout > 0 THEN PerCallTimeout
    ELSE IF EnvTimeout # None THEN EnvTimeout ELSE DefaultTimeout

\* Only a positive whole number is a time: the call's own, else the
\* environment's, else ten seconds.
requestTimeoutMs ==
    IF PerCallTimeout # None /\ PerCallTimeout > 0 THEN PerCallTimeout
    ELSE IF EnvTimeout # None /\ EnvTimeout > 0 THEN EnvTimeout ELSE DefaultTimeout

HttpInit == http = [c \in Callers |-> "idle"]

Settled(c) == http[c] \in {"resolved", "rejected"}

\* The exchange of c moves from one of the states `from` to the state `to`.
Moves(c, from, to) ==
    /\ http[c] \in from
    /\ http' = [http EXCEPT ![c] = to]

ResponseStarts(c) == Moves(c, {"sent"}, "head")

\* Any other status rejects; the rest of the response is thrown away.
BadStatus(c) == Moves(c, {"sent"}, "rejected")

\* A connection that fails, or ends before any response, is an error event.
ConnectionFails(c) == Moves(c, {"sent", "head"}, "rejected")

\* The idle timer destroys the request, which is an error event.  Node takes a
\* time of 0 as no timer.
TimesOut(c) == requestTimeoutMs > 0 /\ Moves(c, {"sent", "head"}, "rejected")

BodyEnds(c) == Moves(c, {"head"}, "resolved")

\* The peer closes the connection in an orderly way before the body is complete:
\* Node closes the socket, and with it the timer, and tells only the response,
\* on which nothing but "data" and "end" is listened to.
ClosesEarly(c) == EarlyClose /\ Moves(c, {"head"}, "lost")

NetworkStep(c) ==
    \/ ResponseStarts(c)
    \/ BadStatus(c)
    \/ ConnectionFails(c)
    \/ BodyEnds(c)
    \/ ClosesEarly(c)
=============================================================================
