---------------------------- MODULE LlmFailover ----------------------------
(***************************************************************************)
(* Streaming an answer from whichever language model will give one         *)
(* (app/llm/engine.py): the routing loop with its failover before the      *)
(* first shown byte, the wrapper that continues an answer cut off in the   *)
(* middle, and what all turns share: the request windows and cooldowns of  *)
(* every model and key (ratelimit.py), the circuit breaker of every model  *)
(* (perceived/health.py) and the catalog.                                  *)
(*                                                                         *)
(* A route is a model and a key.  One event loop: an action is the code    *)
(* between two awaits.  Scores, prices and preferences (a sticky model, a  *)
(* model to avoid, free before paid) are left out: the router takes any    *)
(* route it finds usable.  What a provider does is any of what the engine  *)
(* tells apart.                                                            *)
(***************************************************************************)
EXTENDS Integers, FiniteSets

CONSTANTS
    Turns,          \* concurrent answers
    Models, Keys,
    MaxAttempts,    \* routing.max_retries
    NoRouteRetries, \* resilience.route_no_route_retries
    Continuing,     \* turns whose answer is continued, see Raised
    MaxCont,        \* resilience.max_continuations
    Limited,        \* routes that have a request limit,
    Limit,          \* and the limit, rpm
    Threshold,      \* circuit_fail_threshold
    None

ASSUME BoundsAssumption ==
    /\ MaxAttempts \in Nat \ {0} /\ NoRouteRetries \in Nat /\ MaxCont \in Nat
    /\ Limit \in Nat \ {0} /\ Threshold \in Nat \ {0}
ASSUME TurnsAssumption == IsFiniteSet(Turns)
ASSUME NoneAssumption == None \notin Models /\ None \notin Models \X Keys
                         /\ None \notin {"told", "error"}

Routes == Models \X Keys

VARIABLES
    turns,          \* turns[t]: the state of a turn, see TurnRecord
    catalog,        \* models that are in the catalog
    cold,           \* routes on cooldown
    used,           \* used[r]: requests on limited route r recorded in the last minute
    fails,          \* fails[m]: consecutive hard failures
    armed           \* models whose last hard failure is within the breaker's cooldown

shared == <<catalog, cold, used, fails, armed>>
vars == <<turns, shared>>

-----------------------------------------------------------------------------
(* Which routes can be taken.                                              *)

IsOpen(m) == fails[m] >= Threshold /\ m \in armed
\* Mutant: an off-by-one at the limit.
CanMakeOneMore(r) == r \in Limited => used[r] <= Limit
CanMakeRequest(r) == r \in Limited => used[r] < Limit
Candidates == {r \in Routes : r[1] \in catalog}
Usable(skip) ==
    {r \in Candidates : ~IsOpen(r[1]) /\ r \notin skip /\ r \notin cold /\ CanMakeRequest(r)}

-----------------------------------------------------------------------------
(* The routing loop of one call of route_and_stream, and its wrapper.      *)

At(t, place) == turns[t].at = place
RouteOf(t) == turns[t].route
ModelOf(t) == turns[t].route[1]

Fresh(rec) == [rec EXCEPT !.at = "select", !.attempt = 0, !.noRoute = 0, !.skip = {},
                          !.route = None]
Started(on) == [at |-> "select", attempt |-> 0, noRoute |-> 0, skip |-> {}, route |-> None,
                on |-> on, parts |-> 0, cont |-> 0, cut |-> FALSE, end |-> None]

Over(rec, how) == [Started(rec.on) EXCEPT !.at = "over", !.parts = rec.parts, !.end = how]
MayContinue(rec) == rec.on /\ rec.parts > 0 /\ rec.cont < MaxCont
Continued(rec) == Fresh([rec EXCEPT !.cont = @ + 1])

\* Mutant: passed on whatever was shown.
RaisedLoudly(rec, noRoute) ==
    IF MayContinue(rec) /\ ~noRoute THEN Continued(rec) ELSE Over(rec, "error")
\* An exception out of route_and_stream: passed on when nothing was shown, or
\* when mid_stream_continuation is off for this request (the default; the
\* upload route asks for it); else the answer is continued, or ends with what
\* there is.
Raised(rec, noRoute) ==
    IF rec.parts = 0 \/ ~rec.on THEN Over(rec, "error")
    ELSE IF MayContinue(rec) /\ ~noRoute THEN Continued(rec) ELSE Over(rec, "told")

\* route_and_stream returned: continued if the reason recorded last is a limit.
Returned(rec) ==
    IF rec.cut /\ MayContinue(rec) THEN Continued(rec) ELSE Over(rec, "told")

\* The next round of the loop, or the end of it.
Again(rec) ==
    IF rec.attempt + 1 = MaxAttempts THEN Raised(rec, TRUE)
    ELSE [rec EXCEPT !.at = "select", !.attempt = @ + 1, !.route = None]
\* Mutant: the route is not put aside.
NotSkipped(rec) == rec
Skipped(rec) == [rec EXCEPT !.skip = @ \cup {rec.route}]

Become(t, rec) == turns' = [turns EXCEPT ![t] = rec]

\* ProviderHealth.record.
HardFailure(m) ==
    /\ fails' = [fails EXCEPT ![m] = IF @ < Threshold THEN @ + 1 ELSE @]
    /\ armed' = armed \cup {m}
Success(m) == fails' = [fails EXCEPT ![m] = 0] /\ armed' = armed \ {m}

\* set_cooldown, for a minute or a day: how long is left to Expire.
SetCooldown(r) == cold' = cold \cup {r}

-----------------------------------------------------------------------------
\* select_route finds a route; the adapter's stream is opened.
Select(t) ==
    /\ At(t, "select")
    /\ \E r \in Usable(turns[t].skip) : Become(t, [turns[t] EXCEPT !.at = "await", !.route = r])
    /\ UNCHANGED shared

\* No route.  Nothing but an empty catalog makes that final: what this very
\* request has tried counts as throttled, too.
Transient == Candidates # {}
\* Mutant: a wait is not counted.
WaitsUncounted(rec) == rec
Waits(rec) == Again([rec EXCEPT !.noRoute = @ + 1])
LastTry(rec) == rec.noRoute + 1 > NoRouteRetries \/ rec.attempt = MaxAttempts - 1
NoRoute(t) ==
    /\ At(t, "select") /\ Usable(turns[t].skip) = {}
    /\ Become(t, IF ~Transient \/ LastTry(turns[t]) THEN Raised(turns[t], TRUE)
                 ELSE Waits(turns[t]))
    /\ UNCHANGED shared

\* The head of the stream is good: _commit_start, and it is shown.
Shown(t) == [turns[t] EXCEPT !.parts = @ + 1]
Commit(t) ==
    /\ Success(ModelOf(t))
    /\ used' = [used EXCEPT ![RouteOf(t)] = IF RouteOf(t) \in Limited THEN @ + 1 ELSE @]
    /\ UNCHANGED <<catalog, cold>>
Validate(t) ==
    /\ At(t, "await") /\ Commit(t)
    /\ Become(t, [Shown(t) EXCEPT !.at = "stream"])

\* A whole answer shorter than the head.
Finished(rec, cut) == Returned([rec EXCEPT !.cut = cut])
Short(t) ==
    /\ At(t, "await") /\ Commit(t)
    /\ \E cut \in BOOLEAN : Become(t, Finished(Shown(t), cut))

\* Not a byte in first_token_deadline_s.
TimeOut(t) ==
    /\ At(t, "await")
    /\ HardFailure(ModelOf(t))
    /\ SetCooldown(RouteOf(t))
    /\ Become(t, Again(Skipped(turns[t])))
    /\ UNCHANGED <<catalog, used>>

\* Garbage from the start; a short one does not count for the breaker.
Garbage(t) ==
    /\ At(t, "await")
    /\ HardFailure(ModelOf(t)) \/ UNCHANGED <<fails, armed>>
    /\ Become(t, Again(Skipped(turns[t])))
    /\ UNCHANGED <<catalog, cold, used>>

\* The stream ends without a token.
EmptyStream(t) ==
    /\ At(t, "await")
    /\ Become(t, Again(Skipped(turns[t])))
    /\ UNCHANGED shared

\* A ProviderError before the first shown byte: _penalize cools the route down
\* for 402, 403, 404, 413 and 429.
Refused(t) ==
    /\ At(t, "await")
    /\ HardFailure(ModelOf(t))
    /\ SetCooldown(RouteOf(t)) \/ UNCHANGED cold
    /\ Become(t, Again(Skipped(turns[t])))
    /\ UNCHANGED <<catalog, used>>

\* Not to be retried: the call fails.
Fatal(t) ==
    /\ At(t, "await")
    /\ HardFailure(ModelOf(t))
    /\ Become(t, Raised(turns[t], FALSE))
    /\ UNCHANGED <<catalog, cold, used>>

\* A model that is gone is deleted, which takes a while and may fail; the
\* cooldown follows.
Dead(t) ==
    /\ At(t, "await")
    /\ HardFailure(ModelOf(t))
    /\ Become(t, [turns[t] EXCEPT !.at = "disable"])
    /\ UNCHANGED <<catalog, cold, used>>
Disabled(t) ==
    /\ At(t, "disable")
    /\ catalog' \in {catalog, catalog \ {ModelOf(t)}}
    /\ SetCooldown(RouteOf(t))
    /\ Become(t, Again(Skipped(turns[t])))
    /\ UNCHANGED <<used, fails, armed>>

\* The stream ends, by itself, by an error, or because it turned to garbage:
\* then without a word about the reason.
StreamEnd(t) ==
    /\ At(t, "stream")
    /\ \E cut \in BOOLEAN : Become(t, Finished(turns[t], cut))
    /\ UNCHANGED shared
Dropped(t) ==
    /\ At(t, "stream")
    /\ HardFailure(ModelOf(t))
    /\ Become(t, Raised(turns[t], FALSE))
    /\ UNCHANGED <<catalog, cold, used>>
Degenerate(t) ==
    /\ At(t, "stream")
    /\ HardFailure(ModelOf(t))
    /\ Become(t, Returned(turns[t]))
    /\ UNCHANGED <<catalog, cold, used>>

-----------------------------------------------------------------------------
(* Time.                                                                   *)

Expire(r) ==
    /\ r \in cold /\ cold' = cold \ {r}
    /\ UNCHANGED <<turns, catalog, used, fails, armed>>
Slide(r) ==
    /\ used[r] > 0 /\ used' = [used EXCEPT ![r] = @ - 1]
    /\ UNCHANGED <<turns, catalog, cold, fails, armed>>
HalfOpen(m) ==
    /\ m \in armed /\ armed' = armed \ {m}
    /\ UNCHANGED <<turns, catalog, cold, used, fails>>

Init ==
    /\ turns = [t \in Turns |-> Started(t \in Continuing)]
    /\ catalog = Models
    /\ cold = {}
    /\ used = [r \in Routes |-> 0]
    /\ fails = [m \in Models |-> 0]
    /\ armed = {}

Refusal(t) == Refused(t) \/ Fatal(t) \/ Dead(t) \/ Disabled(t)
Step(t) ==
    \/ Select(t) \/ NoRoute(t) \/ Validate(t) \/ Short(t) \/ TimeOut(t) \/ Garbage(t)
    \/ EmptyStream(t) \/ Refusal(t) \/ StreamEnd(t) \/ Dropped(t) \/ Degenerate(t)
Next ==
    \/ \E t \in Turns : Step(t)
    \/ \E r \in Routes : Expire(r) \/ Slide(r)
    \/ \E m \in Models : HalfOpen(m)

Spec == Init /\ [][Next]_vars
\* The first token has a deadline, the adapters a read timeout, every sleep ends.
FairSpec == Spec /\ \A t \in Turns : WF_vars(Step(t))

-----------------------------------------------------------------------------
TurnRecord ==
    [at : {"select", "await", "disable", "stream", "over"},
     attempt : 0 .. MaxAttempts - 1, noRoute : 0 .. NoRouteRetries,
     skip : SUBSET Routes, route : Routes \cup {None}, on : BOOLEAN,
     parts : 0 .. MaxCont + 1, cont : 0 .. MaxCont,
     cut : BOOLEAN, end : {None, "told", "error"}]

TypeOK ==
    /\ turns \in [Turns -> TurnRecord]
    /\ \A t \in Turns : turns[t].on <=> t \in Continuing
    /\ \A t \in Turns : turns[t].route # None <=> turns[t].at \in {"await", "disable", "stream"}
    /\ catalog \subseteq Models /\ armed \subseteq Models
    /\ cold \subseteq Routes
    /\ used \in [Routes -> Nat] /\ fails \in [Models -> 0 .. Threshold]

\* In one call no route is asked twice, whatever it answered the first time
\* and whichever cooldown has run out since: every round that was no wait has
\* ruled out one more (skip, engine.py:861-1095).
NoRouteTwice ==
    \A t \in Turns : ~At(t, "over") =>
        /\ Cardinality(turns[t].skip) + turns[t].noRoute = turns[t].attempt
        /\ RouteOf(t) \notin turns[t].skip

\* The window of a route is checked when a turn chooses it and counted when the
\* first bytes are good: it is overrun by the turns in between, and no more.
WindowOverrun == \A r \in Routes : used[r] < Limit + Cardinality(Turns)

\* Every answer ends, whatever the providers do.
TurnsEnd == \A t \in Turns : At(t, "select") ~> At(t, "over")

Voice(t) == IF At(t, "stream") THEN RouteOf(t) ELSE None
Answer == INSTANCE AnswerStream WITH
    Turns <- Turns, Routes <- Routes, Continuing <- Continuing, MaxParts <- MaxCont + 1,
    None <- None,
    told <- [t \in Turns |-> turns[t].parts], voice <- [t \in Turns |-> Voice(t)],
    end <- [t \in Turns |-> turns[t].end]
\* The engine implements the promise of AnswerStream, whether an answer is
\* continued or its stream is passed through (engine.py:701-806).
Implements == Answer!Spec
=============================================================================
