------------------------------- MODULE Gateway -------------------------------
(***************************************************************************)
(* What an HTTP request meets at an agent: the bearer-token check, the     *)
(* fixed-window rate limiter inside it (middleware.py, added in reverse in *)
(* host.py), and the routes (routing.py).  A request is served in one      *)
(* step; what may happen inside POST /api/propose is module Proposing.     *)
(*                                                                         *)
(* Time passes in ticks.  A window is known by its age, and ages stop at   *)
(* the length of the window, from which on they are all alike.             *)
(***************************************************************************)
EXTENDS Naturals, FiniteSets

CONSTANTS
    Clients,      \* client keys
    Tokens,       \* what requests carry, None for no header
    Bearer,       \* bearer_token, None where auth is not configured
    SigningKey, Acb,   \* whether they are configured
    Max,          \* max_requests_per_window
    Window,       \* window_seconds, in ticks
    None

ASSUME GatewayAssumption ==
    /\ Max \in Nat \ {0} /\ Window \in Nat \ {0}
    /\ {SigningKey, Acb} \subseteq BOOLEAN

VARIABLES
    windows,   \* _windows: the age of the window of each key and its count
    recent,    \* the requests of each key that reached a route and are younger than
               \* a window, by age and rank among their tick's (history variable)
    journal,   \* the tokens of the requests that the journal's entries are from
    last       \* the last answer

vars == <<windows, recent, journal, last>>

NoWindow == [age |-> Window, count |-> 0]

Init ==
    /\ windows = [k \in Clients |-> NoWindow]
    /\ recent = [k \in Clients |-> {}]
    /\ journal = {}
    /\ last = None

Older(age) == IF age < Window THEN age + 1 ELSE Window

\* Requests a tick later, without those that are then a window old.
Aged(requests) ==
    {[age |-> q.age + 1, nth |-> q.nth] : q \in {p \in requests : p.age + 1 < Window}}

\* One more in this tick.
Joined(requests) ==
    requests \cup {[age |-> 0, nth |-> Cardinality({q \in requests : q.age = 0}) + 1]}

\* time.monotonic() advances.
Tick ==
    /\ windows' = [k \in Clients |->
                      [age |-> Older(windows[k].age), count |-> windows[k].count]]
    /\ recent' = [k \in Clients |-> Aged(recent[k])]
    /\ last' = None
    /\ UNCHANGED journal
-----------------------------------------------------------------------------
\* AuthMiddleware.

\* (mutant)
PrefixesButOutcome ==
    {"/api/propose", "/api/respond-falsification", "/api/deliberate", "/api/budget"}

\* _PROTECTED_PREFIXES that some route has.
Protected ==
    {"/api/propose", "/api/respond-falsification", "/api/deliberate",
     "/api/record-outcome", "/api/budget"}

Authorised(path, token) == path \in Protected => Bearer # None /\ token = Bearer
-----------------------------------------------------------------------------
\* RateLimitMiddleware.

\* (mutant)
CountOnlyReset(w) == [age |-> w.age, count |-> IF w.age >= Window THEN 1 ELSE w.count + 1]

\* (mutant)
SlidingWindow(w) == [age |-> 0, count |-> IF w.age >= Window THEN 1 ELSE w.count + 1]

\* The window this request falls into, with the request counted.
Counted(w) ==
    IF w.age >= Window
      THEN [age |-> 0, count |-> 1]
      ELSE [age |-> w.age, count |-> w.count + 1]

\* Counts above Max + 1 are all alike.
Capped(w) == IF w.count > Max + 1 THEN [age |-> w.age, count |-> Max + 1] ELSE w

WithinLimit(k) == Counted(windows[k]).count <= Max

CountRequest(k) == windows' = [windows EXCEPT ![k] = Capped(Counted(@))]
-----------------------------------------------------------------------------
\* Routes.  A POST whose body does not fit its model is answered 422.

Writes == {"/api/propose", "/api/record-outcome"}

Unported == {"/api/respond-falsification", "/api/deliberate", "/mcp"}

ById == {"/adj/v0/deliberation/{id}", "/adj/v0/outcome/{id}"}

Queries == {"/adj/v0/calibration", "/adj/v0/deliberations"}

Paths ==
    Writes \cup Unported \cup ById \cup Queries \cup
    {"/api/budget", "/healthz", "/.well-known/adp-manifest.json",
     "/.well-known/adp-calibration.json", "/adj/v0/entries"}

\* The statuses of a path.  500 is an evaluator, a store, a comparison of times
\* or a conversion that raises.
Statuses(path) ==
    CASE path \in Writes \cup Queries -> {200, 422, 500}
      [] path \in Unported -> {501}
      [] path = "/api/budget" -> {422, IF Acb THEN 200 ELSE 503}
      [] path = "/.well-known/adp-calibration.json" -> IF SigningKey THEN {200, 500} ELSE {503}
      [] path \in ById -> {200, 404, 500}
      [] path = "/adj/v0/entries" -> {200, 405, 500}   \* GET, and the POST of peers' pushes
      [] OTHER -> {200}

Answer(k, status) == last' = [client |-> k, status |-> status]

\* Whether an entry was written: what is answered 200 is in the journal, and
\* an answer may still fail when it has been.
Written(path, status) ==
    CASE path \in Writes /\ status = 200 -> {TRUE}
      [] path \in Writes /\ status = 500 -> BOOLEAN
      [] OTHER -> {FALSE}

\* The request reaches its route.
Route(k, path, token) ==
    /\ recent' = [recent EXCEPT ![k] = Joined(@)]
    /\ \E status \in Statuses(path) :
          /\ Answer(k, status)
          /\ \E written \in Written(path, status) :
                journal' = IF written THEN journal \cup {token} ELSE journal

Admit(k, path, token) ==
    /\ Authorised(path, token)
    /\ WithinLimit(k)
    /\ CountRequest(k)
    /\ Route(k, path, token)

\* 429.  The refused request is counted, too.
Refuse(k, path, token) ==
    /\ Authorised(path, token)
    /\ ~WithinLimit(k)
    /\ CountRequest(k)
    /\ Answer(k, 429)
    /\ UNCHANGED <<recent, journal>>

\* (mutant)
CountedToo(k) == CountRequest(k)

\* The limiter does not see what the check around it turns away.
NotCounted(k) == UNCHANGED windows

\* 401, or 500 where the comparison raises, on a token that is not ASCII.
TurnAway(k, path, token) ==
    /\ ~Authorised(path, token)
    /\ NotCounted(k)
    /\ Answer(k, 401) \/ (Bearer # None /\ token # None /\ Answer(k, 500))
    /\ UNCHANGED <<recent, journal>>

\* A request that passes the check.
Request(k) == \E path \in Paths, token \in Tokens : Admit(k, path, token) \/ Refuse(k, path, token)

Next ==
    \/ Tick
    \/ \E k \in Clients :
          \/ Request(k)
          \/ \E path \in Paths, token \in Tokens : TurnAway(k, path, token)

Spec == Init /\ [][Next]_vars

\* Time passes.
FairSpec == Spec /\ WF_vars(Tick)
-----------------------------------------------------------------------------
\* In any span of the length of a window, however it lies to the windows of
\* the limiter, at most twice the limit reaches the routes (the reset at a
\* window's end, middleware.py, RateLimitMiddleware.dispatch).
AtMostTwice == \A k \in Clients : Cardinality(recent[k]) <= 2 * Max

\* A client is refused only after the routes have served it as often as the
\* limit allows within one window: what fails the token check, of a client
\* that has a wrong one or of another behind the same proxy, costs nothing
\* (host.py: "auth runs first, then rate limit").
RefusalsAreEarned ==
    last # None /\ last.status = 429 => Cardinality(recent[last.client]) >= Max

\* Whatever is journaled came with the agent's token, over every route
\* (middleware.py, _PROTECTED_PREFIXES against routing.py).
WritesAreAuthorised == journal \subseteq {Bearer} \ {None}

\* A client that keeps asking is let through again and again, however many of
\* its requests are refused in between: refusals do not extend the window.
EveryClientGetsThrough ==
    \A k \in Clients :
        []<><<Request(k)>>_vars =>
            []<><<\E path \in Paths, token \in Tokens : Admit(k, path, token)>>_vars
=============================================================================
