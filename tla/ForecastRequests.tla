-------------------------- MODULE ForecastRequests --------------------------
(***************************************************************************)
(* api.py and agents/forecast.py: outlooks are asked for, bought from the  *)
(* model one waypoint at a time, kept for a while, and written to the      *)
(* ledger when the model has just made them.                               *)
(*                                                                         *)
(* The handlers are coroutines of one event loop: what one does between    *)
(* two awaits is one step, and they interleave at the model calls.  A      *)
(* point is a corridor of one waypoint to everything but the cache.        *)
(***************************************************************************)
EXTENDS ModelChain, FiniteSetsExt

CONSTANTS
    Requests,
    KeyOf,          \* what each asks for: the key its answer is kept under
    Waypoints,      \* of each key, in order; a point has one
    RiskAt,         \* the risk the model sees at each waypoint, least first
    TTL,            \* vayudoot_forecast_cache_minutes
    MaxClock,
    FaultOf,        \* what each model fails with when it does
    MaxOutages,     \* times a model stops or starts answering
    MaxLosses       \* writes of the ledger that fail

ASSUME KeysAssumption ==
    /\ \A r \in Requests : KeyOf[r] \in DOMAIN Waypoints
    /\ \A k \in DOMAIN Waypoints : Waypoints[k] \in Seq(DOMAIN RiskAt) /\ Waypoints[k] # <<>>
ASSUME FaultAssumption == FaultOf \in [Models -> ModelFaults]
ASSUME BoundsAssumption ==
    /\ TTL \in Nat /\ MaxClock \in Nat /\ MaxOutages \in Nat /\ MaxLosses \in Nat

VARIABLES
    clock,          \* time.monotonic()
    well,           \* the models that would answer; the world's
    wellSince,      \* since when each of them has been; the world's
    throttled,      \* _throttled_at
    cache,          \* _forecast_cache
    request,        \* each request: where it is, what it was answered
    talk,           \* each request's conversations, one a waypoint
    ledger,         \* how often each outlook, <<request, index>>, was recorded
    outages, losses

vars == <<clock, well, wellSince, throttled, cache, request, talk, ledger, outages, losses>>

Keys == DOMAIN Waypoints
Indices(r) == DOMAIN Waypoints[KeyOf[r]]
Outlooks == UNION {{r} \X Indices(r) : r \in Requests}
RiskOf(o) == RiskAt[Waypoints[KeyOf[o[1]]][o[2]]]

Worst(outlooks) == Max({RiskOf(o) : o \in outlooks})

\* CorridorForecast: the waypoints that answered, and the worst risk of them.
NoAnswer == [made |-> 0, outlooks |-> {}, risk |-> 0]
NotAsked == [at |-> "new", began |-> 0, after |-> {}, ended |-> 0, answer |-> NoAnswer]

TypeOK ==
    /\ clock \in 0 .. MaxClock
    /\ well \subseteq Models
    /\ wellSince \in [Models -> LongAgo .. MaxClock]
    /\ throttled \in [Models -> LongAgo .. MaxClock]
    /\ DOMAIN cache \subseteq Keys
    /\ \A k \in DOMAIN cache : cache[k].made \in 0 .. clock
    /\ \A r \in Requests :
         /\ request[r].at \in {"new", "asking", "served", "cached", "busy", "failed"}
         /\ request[r].answer.outlooks \subseteq Outlooks
         /\ \A i \in Indices(r) :
              /\ talk[r][i].at \in {"none", "asking", "answered", "busy", "failed"}
              /\ talk[r][i].at = "asking" <=> talk[r][i].left # {}
    /\ ledger \in [Outlooks -> Nat]

\* No conversation has begun, or all are over and were read.
Silent(r) == [i \in Indices(r) |-> Resting("none")]

Init ==
    /\ clock = 0
    /\ well = Models
    /\ wellSince = [m \in Models |-> LongAgo]
    /\ throttled = [m \in Models |-> LongAgo]
    /\ cache = [k \in {} |-> NoAnswer]
    /\ request = [r \in Requests |-> NotAsked]
    /\ talk = [r \in Requests |-> Silent(r)]
    /\ ledger = [o \in Outlooks |-> 0]
    /\ outages = 0
    /\ losses = 0

-----------------------------------------------------------------------------
(* A request arrives. *)

\* _cached_forecast
Kept(key) == key \in DOMAIN cache /\ clock - cache[key].made <= TTL

Done == {r \in Requests : request[r].at \notin {"new", "asking"}}

FromCache(r) ==
    /\ request[r].at = "new"
    /\ Kept(KeyOf[r])
    /\ request' = [request EXCEPT ![r] = [at |-> "cached", began |-> clock, after |-> Done,
                                         ended |-> clock, answer |-> cache[KeyOf[r]]]]
    /\ UNCHANGED <<clock, well, wellSince, throttled, cache, talk, ledger, outages, losses>>

\* forecast_corridor gathers a conversation for every waypoint at once.
Ask(r) ==
    /\ request[r].at = "new"
    /\ ~Kept(KeyOf[r])
    /\ request' = [request EXCEPT ![r] = [at |-> "asking", began |-> clock, after |-> Done,
                                         ended |-> 0, answer |-> NoAnswer]]
    /\ talk' = [talk EXCEPT ![r] = [i \in Indices(r) |-> Walking(throttled, clock)]]
    /\ UNCHANGED <<clock, well, wellSince, throttled, cache, ledger, outages, losses>>

-----------------------------------------------------------------------------
(* One conversation of it. *)

\* The model answers the turn: it calls its tools, or gives the outlook.
Answer(r, i) ==
    /\ talk[r][i].at = "asking"
    /\ \E k \in Asked(talk[r][i]) : Chain[k] \in well
    /\ talk' \in {[talk EXCEPT ![r][i] = Walking(throttled, clock)],
                 [talk EXCEPT ![r][i] = Resting("answered")]}
    /\ UNCHANGED <<clock, well, wellSince, throttled, cache, request, ledger, outages, losses>>

\* A model cannot answer: it is marked for every call of the process.
Down(r, i) ==
    /\ talk[r][i].at = "asking"
    /\ \E k \in Asked(talk[r][i]) :
         /\ Chain[k] \notin well
         /\ throttled' = [throttled EXCEPT ![Chain[k]] = clock]
         /\ talk' = [talk EXCEPT ![r][i] = Failed(@, FaultOf[Chain[k]])]
    /\ UNCHANGED <<clock, well, wellSince, cache, request, ledger, outages, losses>>

\* The request is at fault, or its answer follows no schema: no model is marked.
Refused(r, i) ==
    /\ talk[r][i].at = "asking"
    /\ \E k \in Asked(talk[r][i]) : Chain[k] \in well
    /\ talk' = [talk EXCEPT ![r][i] = Failed(@, "refused")]
    /\ UNCHANGED <<clock, well, wellSince, throttled, cache, request, ledger, outages, losses>>

-----------------------------------------------------------------------------
(* The handler goes on when every conversation of it is over. *)

Over(r) ==
    /\ request[r].at = "asking"
    /\ \A i \in Indices(r) : talk[r][i].at \in {"answered", "busy", "failed"}

Good(r) == {i \in Indices(r) : talk[r][i].at = "answered"}

Replied(r, at, answer) ==
    [request EXCEPT ![r] = [at |-> at, began |-> request[r].began, after |-> request[r].after,
                            ended |-> clock, answer |-> answer]]

\* forecast_corridor raises the failure of the first waypoint, when all failed.
GiveUp(r) ==
    /\ Over(r)
    /\ Good(r) = {}
    /\ request' = Replied(r, talk[r][1].at, NoAnswer)
    /\ talk' = [talk EXCEPT ![r] = Silent(r)]
    /\ UNCHANGED <<clock, well, wellSince, throttled, cache, ledger, outages, losses>>

\* Faulty: the answer is as old as its question.
Outlook_Begun(r) ==
    LET good == {<<r, i>> : i \in Good(r)}
    IN [made |-> request[r].began, outlooks |-> good, risk |-> Worst(good)]

Outlook(r) ==
    LET good == {<<r, i>> : i \in Good(r)}
    IN [made |-> clock, outlooks |-> good, risk |-> Worst(good)]

\* Faulty: a corridor is kept whoever answered.
Whole_Any(r) == TRUE

\* A corridor with a waypoint missing is served, and not kept.
Whole(r) == Good(r) = Indices(r)

\* Faulty: only what is kept is recorded.
Written_Kept(r) == IF Whole(r) THEN Good(r) ELSE {}

\* ledger.record writes the outlooks one by one, in order.
Written(r) == Good(r)

\* A write that fails loses its outlook and those behind it, and nobody hears of
\* it but the log.
Recording(r) ==
    \/ /\ ledger' = [o \in Outlooks |->
                       ledger[o] + IF o[1] = r /\ o[2] \in Written(r) THEN 1 ELSE 0]
       /\ UNCHANGED losses
    \/ /\ losses < MaxLosses
       /\ losses' = losses + 1
       /\ \E lost \in Written(r) :
            ledger' = [o \in Outlooks |->
                         ledger[o] + IF o[1] = r /\ o[2] \in Written(r) /\ o[2] < lost
                                     THEN 1 ELSE 0]

\* get_corridor_forecast and get_forecast: kept, recorded, served.
Serve(r) ==
    /\ Over(r)
    /\ Good(r) # {}
    /\ request' = Replied(r, "served", Outlook(r))
    /\ cache' = IF Whole(r)
                THEN [k \in DOMAIN cache \cup {KeyOf[r]} |->
                        IF k = KeyOf[r] THEN Outlook(r) ELSE cache[k]]
                ELSE cache
    /\ Recording(r)
    /\ talk' = [talk EXCEPT ![r] = Silent(r)]
    /\ UNCHANGED <<clock, well, wellSince, throttled, outages>>

-----------------------------------------------------------------------------
(* The world. *)

\* Another stage's call finds a model of this chain down, and marks it too.
Elsewhere(m) ==
    /\ m \notin well
    /\ throttled' = [throttled EXCEPT ![m] = clock]
    /\ UNCHANGED <<clock, well, wellSince, cache, request, talk, ledger, outages, losses>>

\* A model stops answering, or answers again.
Turns(m) ==
    /\ outages < MaxOutages
    /\ outages' = outages + 1
    /\ well' = IF m \in well THEN well \ {m} ELSE well \cup {m}
    /\ wellSince' = [wellSince EXCEPT ![m] = IF m \in well THEN 0 ELSE clock]
    /\ UNCHANGED <<clock, throttled, cache, request, talk, ledger, losses>>

Tick ==
    /\ clock < MaxClock
    /\ clock' = clock + 1
    /\ UNCHANGED <<well, wellSince, throttled, cache, request, talk, ledger, outages, losses>>

Handle(r) ==
    \/ FromCache(r)
    \/ Ask(r)
    \/ \E i \in Indices(r) : Answer(r, i) \/ Down(r, i) \/ Refused(r, i)
    \/ GiveUp(r)
    \/ Serve(r)

Next ==
    \/ \E r \in Requests : Handle(r)
    \/ \E m \in Models : Elsewhere(m) \/ Turns(m)
    \/ Tick

Spec == Init /\ [][Next]_vars

-----------------------------------------------------------------------------
(* Properties. *)

GivesUp(r, i) ==
    /\ talk[r][i].at = "asking"
    /\ talk'[r][i].at \in {"busy", "failed"}
    /\ \E k \in Asked(talk[r][i]) : Chain[k] \notin well

\* A model that cannot answer is skipped for a while, by everybody: yet no call gives
\* up for want of a model while its chain holds one that has been answering since
\* before the cooldown, whichever calls marked it, in whatever order, meanwhile.
HealthyModelIsFound ==
    [][\A r \in Requests : \A i \in Indices(r) : GivesUp(r, i) =>
         ~ \E k \in DOMAIN Chain : /\ Chain[k] \in well
                                  /\ wellSince[Chain[k]] < talk[r][i].began - Cooldown]_vars

WholeAnswer(r) == request[r].answer.outlooks = {<<r, i>> : i \in Indices(r)}

\* "A second viewer should not buy the same answer twice": whoever asks after a
\* whole answer was served, and within its time, is not sent to the model again,
\* whatever was kept over it in between.
BoughtOnce ==
    \A r, s \in Requests :
      /\ r \in request[s].after /\ KeyOf[r] = KeyOf[s]
      /\ request[r].at = "served"
      /\ WholeAnswer(r)
      /\ request[s].began - request[r].ended <= TTL
      => request[s].at = "cached"

\* Nobody is shown from the cache a corridor that is calmer than its waypoints:
\* the gap a failing model left is seen once, by those who asked while it failed.
KeptIsWhole ==
    \A r \in Requests :
      request[r].at = "cached" =>
         request[r].answer.risk = Worst({<<r, i>> : i \in Indices(r)})

\* The ledger holds what was made for somebody, once, however often it was shown
\* from the cache; all of it, unless a write failed.
RecordedAsServed ==
    /\ \A o \in Outlooks :
         ledger[o] <= IF request[o[1]].at = "served" /\ o \in request[o[1]].answer.outlooks
                      THEN 1 ELSE 0
    /\ losses = 0 => \A r \in Requests :
         request[r].at = "served" => \A o \in request[r].answer.outlooks : ledger[o] = 1
=============================================================================
