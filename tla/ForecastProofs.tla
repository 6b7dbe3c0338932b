--------------------------- MODULE ForecastProofs ---------------------------
(* What ForecastRequests promises of its cache, its ledger and the chain of   *)
(* models, for every chain, every set of requests and every bound; and what   *)
(* Backtest promises of the runs of the backtest, for every set of cases,     *)
(* stations and readings, every pattern of groups and every budget.           *)
EXTENDS ForecastRequests, Backtest, FiniteSetTheorems, WellFoundedInduction, TLAPS

-----------------------------------------------------------------------------
(* The chain.  What a conversation has left to ask leaves out only models    *)
(* that failed within the cooldown of its turn, or since.                    *)

Times ==
    /\ clock \in Nat
    /\ well \subseteq Models
    /\ wellSince \in [Models -> Int]
    /\ throttled \in [Models -> Int]
    /\ \A m \in Models : throttled[m] <= clock

\* A model that answers was marked, if ever, before it did.
MarkedBefore == \A m \in well : throttled[m] <= wellSince[m]

Talking(t) ==
    /\ t.at = "asking"
    /\ t.began \in Nat /\ t.began <= clock
    /\ t.left \subseteq DOMAIN Chain /\ t.left # {}

\* The places passed over or passed by are of models that do not answer, or have
\* not for long.
PassedOver(t) ==
    \A k \in DOMAIN Chain \ t.left :
      ~(Chain[k] \in well /\ wellSince[Chain[k]] < t.began - Cooldown)

ChainInv ==
    /\ Times
    /\ MarkedBefore
    /\ DOMAIN talk = Requests
    /\ \A r \in Requests : DOMAIN talk[r] = Indices(r)
    /\ \A r \in Requests : \A i \in Indices(r) :
         talk[r][i].at = "asking" => Talking(talk[r][i]) /\ PassedOver(talk[r][i])

LEMMA ChainPlaces == /\ DOMAIN Chain # {}
                     /\ DOMAIN Chain \subseteq Nat
                     /\ \A k \in DOMAIN Chain : Chain[k] \in Models
<1>1. DOMAIN Chain = 1 .. Len(Chain) /\ Len(Chain) \in Nat
  BY ChainAssumption
<1>2. Len(Chain) # 0
  BY ChainAssumption
<1>3. \A k \in 1 .. Len(Chain) : Chain[k] \in Models
  BY ChainAssumption
<1> QED BY <1>1, <1>2, <1>3

\* A turn begins with a chain that leaves out only what failed within the cooldown.
LEMMA FreshWalk ==
    ASSUME Times, MarkedBefore
    PROVE  /\ Talking(Walking(throttled, clock))
           /\ PassedOver(Walking(throttled, clock))
<1> DEFINE fresh == {k \in DOMAIN Chain : clock - throttled[Chain[k]] > Cooldown}
<1>1. Candidates(throttled, clock) = IF fresh = {} THEN DOMAIN Chain ELSE fresh
  BY DEF Candidates
<1>2. Talking(Walking(throttled, clock))
  BY <1>1, ChainPlaces DEF Talking, Walking, Times
<1>3. ASSUME NEW k \in DOMAIN Chain, k \notin Candidates(throttled, clock),
             Chain[k] \in well, wellSince[Chain[k]] < clock - Cooldown
      PROVE  FALSE
  <2>1. ~(clock - throttled[Chain[k]] > Cooldown)
    BY <1>1, <1>3
  <2>2. throttled[Chain[k]] <= wellSince[Chain[k]]
    BY <1>3 DEF MarkedBefore
  <2>3. throttled[Chain[k]] \in Int /\ wellSince[Chain[k]] \in Int /\ clock \in Int
    BY <1>3, ChainPlaces DEF Times
  <2> QED BY <2>1, <2>2, <2>3, <1>3, CooldownAssumption
<1>4. PassedOver(Walking(throttled, clock))
  BY <1>3 DEF PassedOver, Walking
<1> QED BY <1>2, <1>4

\* A model that fails is passed by; it does not answer.
LEMMA NextOfWalk ==
    ASSUME NEW t, Times, Talking(t), PassedOver(t), NEW k \in Asked(t), Chain[k] \notin well,
           NEW fault, Failed(t, fault).at = "asking"
    PROVE  Talking(Failed(t, fault)) /\ PassedOver(Failed(t, fault))
<1>1. k \in t.left /\ \A j \in t.left : k <= j
  BY DEF Asked
<1>2. Asked(t) = {k}
  BY <1>1, ChainPlaces DEF Asked, Talking
<1>3. Failed(t, fault) = [t EXCEPT !.left = @ \ Asked(t)] /\ t.left # Asked(t)
  BY DEF Failed, Raised, Resting
<1>4. Failed(t, fault).left = t.left \ {k} /\ Failed(t, fault).began = t.began
  BY <1>2, <1>3 DEF Talking
<1> QED BY <1>1, <1>2, <1>3, <1>4 DEF Talking, PassedOver

\* What the world and the clock do keeps what was passed over passed over.
LEMMA TimePasses ==
    ASSUME NEW r, NEW i, talk'[r][i] = talk[r][i],
           Times, Talking(talk[r][i]), PassedOver(talk[r][i]), clock' \in Nat, clock' >= clock,
           wellSince' \in [Models -> Int],
           \A m \in Models : m \in well' => \/ m \in well /\ wellSince'[m] = wellSince[m]
                                            \/ wellSince'[m] >= clock
    PROVE  Talking(talk[r][i])' /\ PassedOver(talk[r][i])'
<1> DEFINE t == talk[r][i]
<1>1. Talking(talk[r][i])'
  BY DEF Talking, Times
<1>2. ASSUME NEW k \in DOMAIN Chain \ t.left,
             Chain[k] \in well', wellSince'[Chain[k]] < t.began - Cooldown
      PROVE  FALSE
  <2>1. Chain[k] \in Models /\ wellSince'[Chain[k]] \in Int /\ wellSince[Chain[k]] \in Int
    BY ChainPlaces DEF Times
  <2>2. CASE Chain[k] \in well /\ wellSince'[Chain[k]] = wellSince[Chain[k]]
    BY <2>2, <1>2 DEF PassedOver
  <2>3. CASE wellSince'[Chain[k]] >= clock
    BY <2>1, <2>3, <1>2, CooldownAssumption DEF Talking, Times
  <2> QED BY <2>1, <2>2, <2>3, <1>2
<1> QED BY <1>1, <1>2 DEF PassedOver

LEMMA ChainInit == Init => ChainInv
<1> SUFFICES ASSUME Init PROVE ChainInv
  OBVIOUS
<1>1. Times /\ MarkedBefore
  BY CooldownAssumption DEF Init, Times, MarkedBefore, LongAgo
<1>2. \A r \in Requests : DOMAIN Silent(r) = Indices(r)
                         /\ \A i \in Indices(r) : Silent(r)[i].at # "asking"
  BY DEF Silent, Resting
<1>3. talk = [r \in Requests |-> Silent(r)]
  BY DEF Init
<1> QED BY <1>1, <1>2, <1>3 DEF ChainInv

\* Each step keeps ChainInv; a conversation that is not asking has no chain.
LEMMA ChainNext == ChainInv /\ [Next]_vars => ChainInv'
<1> SUFFICES ASSUME ChainInv, [Next]_vars PROVE ChainInv'
  OBVIOUS
<1> USE DEF ChainInv
<1>1. ASSUME NEW r \in Requests, FromCache(r) PROVE ChainInv'
  BY <1>1 DEF FromCache, Times, MarkedBefore, Talking, PassedOver
<1>2. ASSUME NEW r \in Requests, Ask(r) PROVE ChainInv'
  <2>1. UNCHANGED <<clock, well, wellSince, throttled>>
        /\ talk' = [talk EXCEPT ![r] = [i \in Indices(r) |-> Walking(throttled, clock)]]
    BY <1>2 DEF Ask
  <2>2. Talking(Walking(throttled, clock)) /\ PassedOver(Walking(throttled, clock))
    BY FreshWalk
  <2> QED BY <2>1, <2>2 DEF Times, MarkedBefore, Talking, PassedOver
<1>3. ASSUME NEW r \in Requests, NEW i \in Indices(r), Answer(r, i) PROVE ChainInv'
  <2>1. UNCHANGED <<clock, well, wellSince, throttled>>
        /\ \/ talk' = [talk EXCEPT ![r][i] = Walking(throttled, clock)]
           \/ talk' = [talk EXCEPT ![r][i] = Resting("answered")]
    BY <1>3 DEF Answer
  <2>2. Talking(Walking(throttled, clock)) /\ PassedOver(Walking(throttled, clock))
    BY FreshWalk
  <2>3. Resting("answered").at # "asking"
    BY DEF Resting
  <2> QED BY <2>1, <2>2, <2>3 DEF Times, MarkedBefore, Talking, PassedOver
<1>4. ASSUME NEW r \in Requests, NEW i \in Indices(r), Down(r, i) PROVE ChainInv'
  <2>1. PICK k \in Asked(talk[r][i]) :
          /\ Chain[k] \notin well
          /\ throttled' = [throttled EXCEPT ![Chain[k]] = clock]
          /\ talk' = [talk EXCEPT ![r][i] = Failed(talk[r][i], FaultOf[Chain[k]])]
    BY <1>4 DEF Down
  <2>2. UNCHANGED <<clock, well, wellSince>> /\ talk[r][i].at = "asking"
    BY <1>4 DEF Down
  <2>3. Chain[k] \in Models
    BY <2>2, ChainPlaces DEF Asked, Talking
  <2>4. Times' /\ MarkedBefore'
    BY <2>1, <2>2, <2>3 DEF Times, MarkedBefore
  <2>5. Failed(talk[r][i], FaultOf[Chain[k]]).at = "asking" =>
          /\ Talking(Failed(talk[r][i], FaultOf[Chain[k]]))
          /\ PassedOver(Failed(talk[r][i], FaultOf[Chain[k]]))
    BY <2>1, <2>2, NextOfWalk
  <2> QED BY <2>1, <2>2, <2>4, <2>5 DEF Talking, PassedOver
<1>5. ASSUME NEW r \in Requests, NEW i \in Indices(r), Refused(r, i) PROVE ChainInv'
  <2>1. UNCHANGED <<clock, well, wellSince, throttled>>
        /\ talk' = [talk EXCEPT ![r][i] = Failed(talk[r][i], "refused")]
    BY <1>5 DEF Refused
  <2>2. Failed(talk[r][i], "refused").at # "asking"
    BY DEF Failed, WorthAnother, ModelFaults, Raised, Resting
  <2> QED BY <2>1, <2>2 DEF Times, MarkedBefore, Talking, PassedOver
<1>6. ASSUME NEW r \in Requests, GiveUp(r) \/ Serve(r) PROVE ChainInv'
  <2>1. UNCHANGED <<clock, well, wellSince, throttled>> /\ talk' = [talk EXCEPT ![r] = Silent(r)]
    BY <1>6 DEF GiveUp, Serve
  <2>2. DOMAIN Silent(r) = Indices(r) /\ \A i \in Indices(r) : Silent(r)[i].at # "asking"
    BY DEF Silent, Resting
  <2> QED BY <2>1, <2>2 DEF Times, MarkedBefore, Talking, PassedOver
<1>7. ASSUME NEW m \in Models, Elsewhere(m) PROVE ChainInv'
  BY <1>7 DEF Elsewhere, Times, MarkedBefore, Talking, PassedOver
<1>8. ASSUME NEW m \in Models, Turns(m) PROVE ChainInv'
  <2>1. /\ UNCHANGED <<clock, throttled, talk>>
        /\ well' = IF m \in well THEN well \ {m} ELSE well \cup {m}
        /\ wellSince' = [wellSince EXCEPT ![m] = IF m \in well THEN 0 ELSE clock]
    BY <1>8 DEF Turns
  <2>2. Times' /\ MarkedBefore'
    BY <2>1 DEF Times, MarkedBefore
  <2>3. \A n \in Models : n \in well' => \/ n \in well /\ wellSince'[n] = wellSince[n]
                                         \/ wellSince'[n] >= clock
    BY <2>1 DEF Times
  <2>4. ASSUME NEW r \in Requests, NEW i \in Indices(r), talk'[r][i].at = "asking"
        PROVE  Talking(talk[r][i])' /\ PassedOver(talk[r][i])'
    BY <2>1, <2>2, <2>3, <2>4, TimePasses DEF Times
  <2> QED BY <2>1, <2>2, <2>4
<1>9. CASE Tick
  <2>1. clock' = clock + 1 /\ UNCHANGED <<well, wellSince, throttled, talk>>
    BY <1>9 DEF Tick
  <2>2. Times' /\ MarkedBefore'
    BY <2>1 DEF Times, MarkedBefore
  <2>4. ASSUME NEW r \in Requests, NEW i \in Indices(r), talk'[r][i].at = "asking"
        PROVE  Talking(talk[r][i])' /\ PassedOver(talk[r][i])'
    <3>1. clock \in Nat /\ clock' \in Nat /\ clock' >= clock
      BY <2>1 DEF Times
    <3> QED BY <2>1, <2>2, <2>4, <3>1, TimePasses DEF Times
  <2> QED BY <2>1, <2>2, <2>4
<1>10. CASE UNCHANGED vars
  BY <1>10 DEF vars, Times, MarkedBefore, Talking, PassedOver
<1> QED BY <1>1, <1>2, <1>3, <1>4, <1>5, <1>6, <1>7, <1>8, <1>9, <1>10 DEF Next, Handle

\* Only a model that is down makes a conversation give up for want of one.
LEMMA GivingUp ==
    ASSUME ChainInv, Next, NEW r \in Requests, NEW i \in Indices(r), GivesUp(r, i)
    PROVE  Down(r, i)
<1> USE DEF ChainInv
<1>1. talk[r][i].at = "asking" /\ talk'[r][i].at \in {"busy", "failed"}
  BY DEF GivesUp
<1>2. ASSUME NEW q \in Requests, FromCache(q) PROVE FALSE
  BY <1>1, <1>2 DEF FromCache
<1>3. ASSUME NEW q \in Requests, Ask(q) PROVE FALSE
  <2>1. talk' = [talk EXCEPT ![q] = [j \in Indices(q) |-> Walking(throttled, clock)]]
    BY <1>3 DEF Ask
  <2> QED BY <2>1, <1>1 DEF Walking
<1>4. ASSUME NEW q \in Requests, NEW j \in Indices(q), Answer(q, j) PROVE FALSE
  <2>1. \/ talk' = [talk EXCEPT ![q][j] = Walking(throttled, clock)]
        \/ talk' = [talk EXCEPT ![q][j] = Resting("answered")]
    BY <1>4 DEF Answer
  <2> QED BY <2>1, <1>1 DEF Walking, Resting
<1>5. ASSUME NEW q \in Requests, NEW j \in Indices(q), Down(q, j) PROVE Down(r, i)
  <2>1. PICK k \in Asked(talk[q][j]) :
          talk' = [talk EXCEPT ![q][j] = Failed(talk[q][j], FaultOf[Chain[k]])]
    BY <1>5 DEF Down
  <2>2. q = r /\ j = i
    BY <2>1, <1>1
  <2> QED BY <2>2, <1>5
<1>6. ASSUME NEW q \in Requests, NEW j \in Indices(q), Refused(q, j) PROVE FALSE
  <2>1. talk' = [talk EXCEPT ![q][j] = Failed(talk[q][j], "refused")]
    BY <1>6 DEF Refused
  <2>2. q = r /\ j = i
    BY <2>1, <1>1
  <2>3. PICK k \in Asked(talk[r][i]) : Chain[k] \in well
    BY <1>6, <2>2 DEF Refused
  <2>4. PICK n \in Asked(talk[r][i]) : Chain[n] \notin well
    BY DEF GivesUp
  <2>5. k \in Nat /\ n \in Nat /\ k <= n /\ n <= k
    BY <1>1, ChainPlaces DEF Asked, Talking
  <2> QED BY <2>3, <2>4, <2>5
<1>7. ASSUME NEW q \in Requests, GiveUp(q) \/ Serve(q) PROVE FALSE
  <2>1. talk' = [talk EXCEPT ![q] = Silent(q)]
    BY <1>7 DEF GiveUp, Serve
  <2> QED BY <2>1, <1>1 DEF Silent, Resting
<1>8. ASSUME (\E m \in Models : Elsewhere(m) \/ Turns(m)) \/ Tick PROVE FALSE
  BY <1>8, <1>1 DEF Elsewhere, Turns, Tick
<1> QED BY <1>2, <1>3, <1>4, <1>5, <1>6, <1>7, <1>8 DEF Next, Handle

\* No call gives up for want of a model while its chain holds one that has been
\* answering since before the cooldown, however many calls share the marks.
THEOREM ModelIsFound == Spec => HealthyModelIsFound
<1>1. ASSUME ChainInv, Next, NEW r \in Requests, NEW i \in Indices(r), GivesUp(r, i),
             NEW k \in DOMAIN Chain, Chain[k] \in well,
             wellSince[Chain[k]] < talk[r][i].began - Cooldown
      PROVE  FALSE
  <2>1. Down(r, i)
    BY <1>1, GivingUp
  <2>2. PICK j \in Asked(talk[r][i]) :
          /\ Chain[j] \notin well
          /\ talk' = [talk EXCEPT ![r][i] = Failed(talk[r][i], FaultOf[Chain[j]])]
    BY <2>1 DEF Down
  <2>3. talk[r][i].at = "asking" /\ talk'[r][i] = Failed(talk[r][i], FaultOf[Chain[j]])
    BY <1>1, <2>2 DEF ChainInv, GivesUp
  <2>4. Talking(talk[r][i]) /\ PassedOver(talk[r][i])
    BY <1>1, <2>3 DEF ChainInv
  <2>5. k \in talk[r][i].left
    BY <1>1, <2>4 DEF PassedOver
  <2>6. j \in DOMAIN Chain /\ Chain[j] \in Models
    BY <2>4, ChainPlaces DEF Asked, Talking
  <2>7. FaultOf[Chain[j]] \in ModelFaults
    BY <2>6, FaultAssumption
  <2>8. Failed(talk[r][i], FaultOf[Chain[j]]).at # "asking"
    BY <1>1, <2>3 DEF GivesUp
  <2>9. talk[r][i].left = Asked(talk[r][i])
    BY <2>4, <2>7, <2>8 DEF Failed, WorthAnother, Talking
  <2>10. k \in Nat /\ j \in Nat /\ k <= j /\ j <= k
    BY <2>2, <2>5, <2>9, <2>6, ChainPlaces DEF Asked
  <2> QED BY <1>1, <2>2, <2>10
<1>2. ChainInv /\ [Next]_vars =>
        [\A r \in Requests : \A i \in Indices(r) : GivesUp(r, i) =>
           ~ \E k \in DOMAIN Chain : /\ Chain[k] \in well
                                    /\ wellSince[Chain[k]] < talk[r][i].began - Cooldown]_vars
  BY <1>1
<1> QED BY ChainInit, ChainNext, <1>2, PTL DEF Spec, HealthyModelIsFound

-----------------------------------------------------------------------------
(* The cache.  A whole answer that was served is in it, or a later one.      *)

All(r) == {<<r, i>> : i \in Indices(r)}

Answers == [made : Nat, outlooks : SUBSET Outlooks,
            risk : {Worst(o) : o \in SUBSET Outlooks} \cup {0}]
Request == [at : {"new", "asking", "served", "cached", "busy", "failed"}, began : Nat,
            after : SUBSET Requests, ended : Nat, answer : Answers]

Stamps ==
    /\ clock \in Nat
    /\ request \in [Requests -> Request]
    /\ \A r \in Requests : request[r].ended <= clock
    /\ \A k \in DOMAIN cache : cache[k] \in Answers

KeptLast ==
    \A r \in Requests : request[r].at = "served" /\ WholeAnswer(r) =>
      KeyOf[r] \in DOMAIN cache /\ request[r].ended <= cache[KeyOf[r]].made

AfterDone == \A s \in Requests : request[s].after \subseteq Done

CacheIsWhole ==
    \A r \in Requests : KeyOf[r] \in DOMAIN cache => cache[KeyOf[r]].risk = Worst(All(r))

CacheInv ==
    Stamps /\ KeptLast /\ AfterDone /\ CacheIsWhole /\ BoughtOnce /\ KeptIsWhole

LEMMA OutlookIsAnswer ==
    ASSUME clock \in Nat, NEW r \in Requests
    PROVE  /\ Outlook(r) \in Answers
           /\ Outlook(r).made = clock /\ Outlook(r).outlooks = {<<r, i>> : i \in Good(r)}
<1>1. {<<r, i>> : i \in Good(r)} \in SUBSET Outlooks
  BY DEF Good, Outlooks
<1> QED BY <1>1 DEF Outlook, Answers

\* Requests that ask for the same see the same waypoints.
LEMMA SameKeySameWorst ==
    ASSUME NEW r \in Requests, NEW s \in Requests, KeyOf[r] = KeyOf[s]
    PROVE  Worst(All(r)) = Worst(All(s))
<1>1. Indices(r) = Indices(s)
  BY DEF Indices
<1>2. \A i \in Indices(r) : RiskOf(<<r, i>>) = RiskOf(<<s, i>>)
  BY DEF RiskOf
<1>3. {RiskOf(o) : o \in All(r)} = {RiskOf(o) : o \in All(s)}
  BY <1>1, <1>2 DEF All
<1> QED BY <1>3 DEF Worst

LEMMA FirstWaypoint == \A r \in Requests : 1 \in Indices(r)
<1> SUFFICES ASSUME NEW r \in Requests PROVE 1 \in Indices(r)
  OBVIOUS
<1>1. Waypoints[KeyOf[r]] \in Seq(DOMAIN RiskAt) /\ Waypoints[KeyOf[r]] # <<>>
  BY KeysAssumption
<1>2. DOMAIN Waypoints[KeyOf[r]] = 1 .. Len(Waypoints[KeyOf[r]])
      /\ Len(Waypoints[KeyOf[r]]) \in Nat /\ Len(Waypoints[KeyOf[r]]) # 0
  BY <1>1
<1> QED BY <1>2 DEF Indices

LEMMA CacheInit == Init => CacheInv
<1> SUFFICES ASSUME Init PROVE CacheInv
  OBVIOUS
<1>1. NotAsked \in Request /\ NotAsked.ended = 0 /\ NotAsked.at = "new" /\ NotAsked.after = {}
  BY DEF NotAsked, Request, NoAnswer, Answers
<1>2. clock = 0 /\ request = [r \in Requests |-> NotAsked] /\ DOMAIN cache = {}
  BY DEF Init
<1>3. Stamps /\ KeptLast /\ AfterDone /\ CacheIsWhole
  BY <1>1, <1>2 DEF Stamps, KeptLast, AfterDone, CacheIsWhole
<1>4. BoughtOnce /\ KeptIsWhole
  BY <1>1, <1>2 DEF BoughtOnce, KeptIsWhole
<1> QED BY <1>3, <1>4 DEF CacheInv

LEMMA CacheNext == CacheInv /\ [Next]_vars => CacheInv'
<1> SUFFICES ASSUME CacheInv, [Next]_vars PROVE CacheInv'
  OBVIOUS
<1> USE DEF CacheInv
<1>1. ASSUME NEW s \in Requests, FromCache(s) PROVE CacheInv'
  <2>1. /\ request[s].at = "new" /\ Kept(KeyOf[s]) /\ UNCHANGED <<clock, cache>>
        /\ request' = [request EXCEPT ![s] = [at |-> "cached", began |-> clock, after |-> Done,
                                             ended |-> clock, answer |-> cache[KeyOf[s]]]]
    BY <1>1 DEF FromCache
  <2>2. Stamps'
    BY <2>1 DEF Stamps, Request, Kept, Done
  <2>3. Done' = Done \cup {s} /\ AfterDone'
    BY <2>1 DEF Stamps, AfterDone, Done
  <2>4. KeptLast' /\ CacheIsWhole'
    BY <2>1 DEF Stamps, KeptLast, CacheIsWhole, WholeAnswer
  <2>5. BoughtOnce'
    BY <2>1 DEF Stamps, BoughtOnce, WholeAnswer
  <2>6. KeptIsWhole'
    BY <2>1 DEF Stamps, KeptIsWhole, CacheIsWhole, Kept, All
  <2> QED BY <2>2, <2>3, <2>4, <2>5, <2>6
<1>2. ASSUME NEW s \in Requests, Ask(s) PROVE CacheInv'
  <2>1. /\ request[s].at = "new" /\ ~Kept(KeyOf[s]) /\ UNCHANGED <<clock, cache>>
        /\ request' = [request EXCEPT ![s] = [at |-> "asking", began |-> clock, after |-> Done,
                                             ended |-> 0, answer |-> NoAnswer]]
    BY <1>2 DEF Ask
  <2>2. Stamps'
    BY <2>1 DEF Stamps, Request, Done, NoAnswer, Answers
  <2>3. Done' = Done /\ AfterDone'
    BY <2>1 DEF Stamps, AfterDone, Done
  <2>4. KeptLast' /\ CacheIsWhole'
    BY <2>1 DEF Stamps, KeptLast, CacheIsWhole, WholeAnswer
  <2>5. ASSUME NEW r \in Done, KeyOf[r] = KeyOf[s], request[r].at = "served", WholeAnswer(r),
               clock - request[r].ended <= TTL
        PROVE  FALSE
    <3>1. KeyOf[s] \in DOMAIN cache /\ request[r].ended <= cache[KeyOf[s]].made
      BY <2>5 DEF KeptLast, Done
    <3>2. clock \in Nat /\ request[r].ended \in Nat /\ cache[KeyOf[s]].made \in Nat
      BY <3>1, <2>5 DEF Stamps, Done, Request, Answers
    <3> QED BY <2>1, <3>1, <3>2, <2>5, BoundsAssumption DEF Kept
  <2>6. BoughtOnce'
    BY <2>1, <2>5 DEF Stamps, BoughtOnce, WholeAnswer, Done
  <2>7. KeptIsWhole'
    BY <2>1 DEF Stamps, KeptIsWhole
  <2> QED BY <2>2, <2>3, <2>4, <2>6, <2>7
<1>3. ASSUME NEW s \in Requests, GiveUp(s) PROVE CacheInv'
  <2>1. /\ request[s].at = "asking" /\ UNCHANGED <<clock, cache>>
        /\ request' = Replied(s, talk[s][1].at, NoAnswer)
        /\ talk[s][1].at \in {"busy", "failed"}
    BY <1>3, FirstWaypoint DEF GiveUp, Over, Good
  <2>2. Stamps'
    BY <2>1 DEF Stamps, Request, Replied, NoAnswer, Answers
  <2>3. Done' = Done \cup {s} /\ AfterDone'
    BY <2>1 DEF Stamps, AfterDone, Done, Request, Replied
  <2>4. KeptLast' /\ CacheIsWhole'
    BY <2>1 DEF Stamps, KeptLast, CacheIsWhole, WholeAnswer, Request, Replied
  <2>5. BoughtOnce'
    BY <2>1 DEF Stamps, BoughtOnce, WholeAnswer, Request, Replied, AfterDone, Done
  <2>6. KeptIsWhole'
    BY <2>1 DEF Stamps, KeptIsWhole, Request, Replied
  <2> QED BY <2>2, <2>3, <2>4, <2>5, <2>6
<1>4. ASSUME NEW s \in Requests, Serve(s) PROVE CacheInv'
  <2>1. /\ request[s].at = "asking" /\ UNCHANGED clock
        /\ request' = Replied(s, "served", Outlook(s))
    BY <1>4 DEF Serve, Over
  <2>2. ASSUME Whole(s)
        PROVE  KeptLast' /\ CacheIsWhole' /\ (\A k \in DOMAIN cache : cache[k] \in Answers)'
    <3>1. cache' = [k \in DOMAIN cache \cup {KeyOf[s]} |->
                      IF k = KeyOf[s] THEN Outlook(s) ELSE cache[k]]
      BY <1>4, <2>2 DEF Serve
    <3>2. Outlook(s).risk = Worst(All(s))
      BY <2>2 DEF Outlook, Whole, All
    <3>3. Outlook(s) \in Answers /\ Outlook(s).made = clock
      BY OutlookIsAnswer DEF Stamps
    <3>4. (\A k \in DOMAIN cache : cache[k] \in Answers)' /\ CacheIsWhole'
      BY <3>1, <3>2, <3>3, SameKeySameWorst DEF Stamps, CacheIsWhole
    <3>5. ASSUME NEW r \in Requests, request'[r].at = "served", WholeAnswer(r)'
          PROVE  KeyOf[r] \in DOMAIN cache' /\ request'[r].ended <= cache'[KeyOf[r]].made
      <4>1. request'[r].ended <= clock /\ request'[r].ended \in Nat
        BY <2>1 DEF Stamps, Request, Replied
      <4>2. CASE r = s
        BY <4>1, <4>2, <3>1, <3>3
      <4>3. CASE r # s
        BY <4>1, <4>3, <3>1, <3>3, <3>5, <2>1 DEF KeptLast, Stamps, WholeAnswer, Replied
      <4> QED BY <4>2, <4>3
    <3> QED BY <3>4, <3>5 DEF KeptLast
  <2>3. ASSUME ~Whole(s)
        PROVE  KeptLast' /\ CacheIsWhole' /\ (\A k \in DOMAIN cache : cache[k] \in Answers)'
    <3>1. UNCHANGED cache
      BY <1>4, <2>3 DEF Serve
    <3>2. request'[s].answer.outlooks = {<<s, i>> : i \in Good(s)}
      BY <2>1, OutlookIsAnswer DEF Stamps, Request, Replied
    <3>3. PICK i \in Indices(s) : i \notin Good(s)
      BY <2>3 DEF Whole, Good
    <3>4. <<s, i>> \notin {<<s, j>> : j \in Good(s)}
      BY <3>3
    <3>5. ~WholeAnswer(s)'
      BY <3>2, <3>4 DEF WholeAnswer, Replied
    <3> QED BY <3>1, <3>5, <2>1 DEF KeptLast, CacheIsWhole, Stamps, WholeAnswer, Replied
  <2>4. KeptLast' /\ CacheIsWhole' /\ (\A k \in DOMAIN cache : cache[k] \in Answers)'
    BY <2>2, <2>3
  <2>5. Stamps'
    BY <2>1, <2>4, OutlookIsAnswer DEF Stamps, Request, Replied
  <2>6. Done' = Done \cup {s} /\ AfterDone'
    BY <2>1 DEF Stamps, AfterDone, Done, Request, Replied
  <2>7. BoughtOnce' /\ KeptIsWhole'
    BY <2>1 DEF Stamps, BoughtOnce, KeptIsWhole, WholeAnswer, Request, Replied, AfterDone, Done
  <2> QED BY <2>4, <2>5, <2>6, <2>7
<1>5. ASSUME UNCHANGED <<request, cache>>, clock' = clock \/ clock' = clock + 1 PROVE CacheInv'
  <2>1. Stamps'
    BY <1>5 DEF Stamps, Request
  <2>2. KeptLast' /\ AfterDone' /\ CacheIsWhole' /\ BoughtOnce' /\ KeptIsWhole'
    BY <1>5 DEF KeptLast, AfterDone, CacheIsWhole, BoughtOnce, KeptIsWhole, WholeAnswer, Done
  <2> QED BY <2>1, <2>2
<1>6. ASSUME NEW s \in Requests, NEW i \in Indices(s), Answer(s, i) \/ Down(s, i) \/ Refused(s, i)
      PROVE  CacheInv'
  BY <1>5, <1>6 DEF Answer, Down, Refused
<1>7. ASSUME NEW m \in Models, Elsewhere(m) \/ Turns(m) PROVE CacheInv'
  BY <1>5, <1>7 DEF Elsewhere, Turns
<1>8. CASE Tick
  BY <1>5, <1>8 DEF Tick
<1>9. CASE UNCHANGED vars
  BY <1>5, <1>9 DEF vars
<1> QED BY <1>1, <1>2, <1>3, <1>4, <1>6, <1>7, <1>8, <1>9 DEF Next, Handle

\* Whoever asks within its time for what was served whole is not sent to the model.
THEOREM NobodyBuysTwice == Spec => []BoughtOnce
BY CacheInit, CacheNext, PTL DEF Spec, CacheInv

\* What is shown from the cache is no calmer than its worst waypoint.
THEOREM NothingKeptIsCalmer == Spec => []KeptIsWhole
BY CacheInit, CacheNext, PTL DEF Spec, CacheInv

-----------------------------------------------------------------------------
(* The ledger. *)

LedgerInv ==
    /\ Stamps
    /\ ledger \in [Outlooks -> Nat]
    /\ losses \in Nat
    /\ \A r \in Requests : request[r].answer.outlooks \subseteq Outlooks
    /\ RecordedAsServed

LEMMA LedgerInit == Init => LedgerInv
<1> SUFFICES ASSUME Init PROVE LedgerInv
  OBVIOUS
<1>1. request = [r \in Requests |-> NotAsked] /\ ledger = [o \in Outlooks |-> 0] /\ losses = 0
  BY DEF Init
<1>2. Stamps
  BY CacheInit DEF CacheInv
<1>3. NotAsked.at = "new" /\ NotAsked.answer.outlooks = {}
  BY DEF NotAsked, NoAnswer
<1>4. \A o \in Outlooks : o[1] \in Requests
  BY DEF Outlooks
<1> QED BY <1>1, <1>2, <1>3, <1>4 DEF LedgerInv, RecordedAsServed

\* What is written for a request is at most its good outlooks, once each, and all
\* of them unless a write failed.
LEMMA WhatIsRecorded ==
    ASSUME NEW r \in Requests, Recording(r), ledger \in [Outlooks -> Nat], losses \in Nat
    PROVE  /\ ledger' \in [Outlooks -> Nat] /\ losses' \in Nat
           /\ \A o \in Outlooks :
                /\ ledger'[o] \in {ledger[o], ledger[o] + 1}
                /\ ~(o[1] = r /\ o[2] \in Good(r)) => ledger'[o] = ledger[o]
           /\ losses' = 0 => /\ losses = 0
                             /\ \A o \in Outlooks :
                                  o[1] = r /\ o[2] \in Good(r) => ledger'[o] = ledger[o] + 1
<1>1. CASE /\ ledger' = [o \in Outlooks |->
                           ledger[o] + IF o[1] = r /\ o[2] \in Written(r) THEN 1 ELSE 0]
           /\ UNCHANGED losses
  BY <1>1 DEF Written
<1>2. ASSUME losses' = losses + 1, NEW lost \in Written(r),
             ledger' = [o \in Outlooks |->
                          ledger[o] + IF o[1] = r /\ o[2] \in Written(r) /\ o[2] < lost
                                      THEN 1 ELSE 0]
      PROVE  /\ ledger' \in [Outlooks -> Nat] /\ losses' \in Nat /\ losses' # 0
             /\ \A o \in Outlooks :
                  /\ ledger'[o] \in {ledger[o], ledger[o] + 1}
                  /\ ~(o[1] = r /\ o[2] \in Good(r)) => ledger'[o] = ledger[o]
  BY <1>2 DEF Written
<1> QED BY <1>1, <1>2 DEF Recording

LEMMA LedgerNext == LedgerInv /\ [Next]_vars /\ CacheInv' => LedgerInv'
<1> SUFFICES ASSUME LedgerInv, [Next]_vars, CacheInv' PROVE LedgerInv'
  OBVIOUS
<1> USE DEF LedgerInv
<1>0. Stamps' /\ \A o \in Outlooks : o[1] \in Requests /\ o = <<o[1], o[2]>> /\ o[2] \in Indices(o[1])
  BY DEF CacheInv, Outlooks
<1>a. (\A r \in Requests : request[r].answer.outlooks \subseteq Outlooks)'
  BY <1>0 DEF Stamps, Request, Answers
<1>1. ASSUME NEW s \in Requests, UNCHANGED <<ledger, losses>>, request[s].at # "served",
             request'[s].at # "served", \A r \in Requests \ {s} : request'[r] = request[r]
      PROVE  LedgerInv'
  <2>1. RecordedAsServed'
    BY <1>0, <1>1 DEF RecordedAsServed
  <2> QED BY <1>0, <1>a, <1>1, <2>1
<1>2. ASSUME NEW s \in Requests, FromCache(s) \/ Ask(s) PROVE LedgerInv'
  <2>1. UNCHANGED <<ledger, losses>> /\ request[s].at = "new"
        /\ request'[s].at \in {"cached", "asking"}
        /\ \A r \in Requests \ {s} : request'[r] = request[r]
    BY <1>2 DEF FromCache, Ask, Stamps
  <2> QED BY <1>1, <2>1
<1>3. ASSUME NEW s \in Requests, GiveUp(s) PROVE LedgerInv'
  <2>1. UNCHANGED <<ledger, losses>> /\ request[s].at = "asking"
        /\ request'[s].at \in {"busy", "failed"}
        /\ \A r \in Requests \ {s} : request'[r] = request[r]
    BY <1>3, FirstWaypoint DEF GiveUp, Over, Good, Replied, Stamps
  <2> QED BY <1>1, <2>1
<1>4. ASSUME NEW s \in Requests, Serve(s) PROVE LedgerInv'
  <2>1. /\ request[s].at = "asking" /\ Recording(s) /\ clock \in Nat
        /\ request' = Replied(s, "served", Outlook(s))
    BY <1>4 DEF Serve, Over, Stamps
  <2>2. /\ request'[s].at = "served" /\ request'[s].answer.outlooks = {<<s, i>> : i \in Good(s)}
        /\ \A r \in Requests \ {s} : request'[r] = request[r]
    BY <2>1, OutlookIsAnswer DEF Replied, Stamps
  <2>3. ASSUME NEW o \in Outlooks, o[1] = s
        PROVE  /\ ledger[o] = 0
               /\ o \in request'[s].answer.outlooks <=> o[2] \in Good(s)
    <3>1. ledger[o] <= 0 /\ ledger[o] \in Nat
      BY <2>1, <2>3 DEF RecordedAsServed
    <3>2. o = <<s, o[2]>>
      BY <1>0, <2>3
    <3> QED BY <3>1, <3>2, <2>2
  <2>4. ASSUME NEW o \in Outlooks
        PROVE  ledger'[o] <= IF request'[o[1]].at = "served" /\ o \in request'[o[1]].answer.outlooks
                             THEN 1 ELSE 0
    <3>1. CASE o[1] = s
      BY <2>1, <2>2, <2>3, <3>1, WhatIsRecorded
    <3>2. CASE o[1] # s
      BY <1>0, <2>1, <2>2, <3>2, WhatIsRecorded DEF RecordedAsServed
    <3> QED BY <3>1, <3>2
  <2>5. ASSUME losses' = 0, NEW r \in Requests, request'[r].at = "served",
               NEW o \in request'[r].answer.outlooks
        PROVE  ledger'[o] = 1
    <3>1. o \in Outlooks
      BY <1>a
    <3>2. CASE r = s
      <4>1. o[1] = s /\ o[2] \in Good(s)
        BY <2>2, <2>5, <3>2
      <4> QED BY <2>1, <2>3, <2>5, <3>1, <4>1, WhatIsRecorded
    <3>3. CASE r # s
      <4>1. losses = 0 /\ request[r].at = "served" /\ o \in request[r].answer.outlooks
        BY <2>1, <2>2, <2>5, <3>3, WhatIsRecorded
      <4>2. ledger[o] = 1
        BY <4>1 DEF RecordedAsServed
      <4>3. ledger'[o] \in {1, 2} /\ ledger'[o] <= 1
        BY <2>1, <2>4, <3>1, <4>2, WhatIsRecorded
      <4> QED BY <4>3
    <3> QED BY <3>2, <3>3
  <2>6. RecordedAsServed'
    BY <2>4, <2>5 DEF RecordedAsServed
  <2> QED BY <1>0, <1>a, <2>1, <2>6, WhatIsRecorded
<1>5. ASSUME UNCHANGED <<request, ledger, losses>> PROVE LedgerInv'
  BY <1>0, <1>a, <1>5 DEF RecordedAsServed
<1>6. ASSUME NEW s \in Requests, NEW i \in Indices(s), Answer(s, i) \/ Down(s, i) \/ Refused(s, i)
      PROVE  LedgerInv'
  BY <1>5, <1>6 DEF Answer, Down, Refused
<1>7. ASSUME (\E m \in Models : Elsewhere(m) \/ Turns(m)) \/ Tick \/ UNCHANGED vars
      PROVE  LedgerInv'
  BY <1>5, <1>7 DEF Elsewhere, Turns, Tick, vars
<1> QED BY <1>2, <1>3, <1>4, <1>6, <1>7 DEF Next, Handle

\* The ledger holds what was served from the model, once, and nothing else.
THEOREM LedgerIsWhatWasServed == Spec => []RecordedAsServed
<1>1. Init => CacheInv /\ LedgerInv
  BY CacheInit, LedgerInit
<1>2. CacheInv /\ LedgerInv /\ [Next]_vars => (CacheInv /\ LedgerInv)'
  BY CacheNext, LedgerNext
<1>3. LedgerInv => RecordedAsServed
  BY DEF LedgerInv
<1> QED BY <1>1, <1>2, <1>3, PTL DEF Spec

-----------------------------------------------------------------------------
(* Least and greatest members, and sorting.                                  *)

LEMMA LeastOfNaturals ==
    ASSUME NEW T, T \subseteq Nat, T # {}
    PROVE  \E x \in T : \A y \in T : x <= y
<1>1. PICK x \in T : \A y \in T : ~ (<<y, x>> \in OpToRel(<, Nat))
  BY NatLessThanWellFounded, WFMin
<1>2. x \in Nat /\ \A y \in T : ~(y < x)
  BY <1>1 DEF OpToRel
<1> QED
  BY <1>2

\* The fewer members are below one, the lower it is.
LEMMA LeastOfFinite ==
    ASSUME NEW S, IsFiniteSet(S), S \subseteq Int, S # {}
    PROVE  \E x \in S : \A y \in S : x <= y
<1> DEFINE Below(x) == {y \in S : y < x}
           T == {Cardinality(Below(x)) : x \in S}
<1>1. \A x \in S : IsFiniteSet(Below(x)) /\ Cardinality(Below(x)) \in Nat
  <2> SUFFICES ASSUME NEW x \in S
               PROVE  IsFiniteSet(Below(x)) /\ Cardinality(Below(x)) \in Nat
    OBVIOUS
  <2>1. Below(x) \in SUBSET S
    OBVIOUS
  <2> HIDE DEF Below
  <2> QED
    BY <2>1, FS_Subset, FS_CardinalityType
<1>2. T \subseteq Nat /\ T # {}
  BY <1>1
<1>3. PICK n \in T : \A m \in T : n <= m
  BY <1>2, LeastOfNaturals
<1>4. PICK x \in S : n = Cardinality(Below(x))
  BY <1>3
<1>5. ASSUME NEW y \in S, y < x
      PROVE  FALSE
  <2>0. x \in Int /\ \A z \in S : z \in Int /\ (z < y => z < x)
    BY <1>5
  <2>1. y \in Below(x) /\ y \notin Below(y)
    BY <2>0, <1>5
  <2>5. Below(y) \in SUBSET Below(x)
    BY <2>0
  <2>2. IsFiniteSet(Below(x)) /\ Cardinality(Below(x)) \in Nat /\ Cardinality(Below(y)) \in Nat
    BY <1>1
  <2>3. Cardinality(Below(y)) \in T
    OBVIOUS
  <2> HIDE DEF Below, T
  <2>4. Cardinality(Below(y)) < Cardinality(Below(x))
    BY <2>1, <2>5, <2>2, FS_Subset
  <2> QED
    BY <2>2, <2>3, <2>4, <1>3, <1>4
<1> QED
  BY <1>5

LEMMA MinOfFinite ==
    ASSUME NEW S, IsFiniteSet(S), S \subseteq Int, S # {}
    PROVE  Min(S) \in S /\ \A y \in S : Min(S) <= y
  BY LeastOfFinite DEF Min

\* The greatest is the least of the opposites.
LEMMA MaxOfFinite ==
    ASSUME NEW S, IsFiniteSet(S), S \subseteq Int, S # {}
    PROVE  Max(S) \in S /\ \A y \in S : y <= Max(S)
<1> DEFINE opposite == [x \in S |-> -x]
           T == {-x : x \in S}
<1>1. IsFiniteSet(T)
  <2>1. opposite \in Surjection(S, T)
    BY DEF Surjection
  <2> QED
    BY <2>1, FS_Surjection
<1>2. T \subseteq Int /\ T # {}
  OBVIOUS
<1>3. PICK t \in T : \A u \in T : t <= u
  <2> HIDE DEF T
  <2> QED
    BY <1>1, <1>2, LeastOfFinite
<1>4. PICK x \in S : t = -x
  BY <1>3
<1>5. ASSUME NEW y \in S
      PROVE  y <= x
  <2>1. -y \in T
    OBVIOUS
  <2>2. -x <= -y
    BY <1>3, <1>4, <2>1
  <2>3. x \in Int /\ y \in Int
    OBVIOUS
  <2> HIDE DEF T
  <2> QED
    BY <2>2, <2>3
<1> QED
  BY <1>5 DEF Max

-----------------------------------------------------------------------------
(* Sorting, and shuffling. *)

\* A set is put in some order by a bijection.
LEMMA ShuffledIsABijection ==
    ASSUME NEW S, IsFiniteSet(S)
    PROVE  /\ Shuffled(S) \in [1 .. Cardinality(S) -> S]
           /\ \A i, j \in 1 .. Cardinality(S) : Shuffled(S)[i] = Shuffled(S)[j] => i = j
           /\ \A x \in S : \E i \in 1 .. Cardinality(S) : Shuffled(S)[i] = x
<1> DEFINE n == Cardinality(S)
           q == Shuffled(S)
<1>1. n \in Nat /\ \E b : b \in Bijection(1 .. n, S)
  BY FS_CardinalityType DEF ExistsBijection
<1>2. q \in [1 .. n -> S] /\ \A i, j \in DOMAIN q : q[i] = q[j] => i = j
  <2>1. PICK b : b \in Bijection(1 .. n, S)
    BY <1>1
  <2>2. b \in [1 .. n -> S] /\ \A i, j \in DOMAIN b : b[i] = b[j] => i = j
    BY <2>1 DEF Bijection, Injection, IsInjective
  <2> QED
    BY <2>2 DEF Shuffled
<1>3. q \in Injection(1 .. n, S)
  BY <1>2 DEF Injection, IsInjective
<1>4. IsFiniteSet(1 .. n) /\ Cardinality(1 .. n) = n
  BY <1>1, FS_Interval
<1>5. q \in Surjection(1 .. n, S)
  BY <1>3, <1>4, FS_Injection
<1> QED
  BY <1>2, <1>5 DEF Surjection

\* A strict order of finitely many numbers them through: each by how many come
\* before it.
LEMMA RankIsABijection ==
    ASSUME NEW S, IsFiniteSet(S), NEW before \in [S -> SUBSET S],
           \A x \in S : x \notin before[x],
           \A x, y \in S : x \in before[y] => before[x] \subseteq before[y],
           \A x, y \in S : x = y \/ x \in before[y] \/ y \in before[x],
           NEW rank, rank = [x \in S |-> 1 + Cardinality(before[x])]
    PROVE  /\ rank \in Bijection(S, 1 .. Cardinality(S))
           /\ \A x, y \in S : rank[x] < rank[y] => x \in before[y]
<1> DEFINE n == Cardinality(S)
<1>1. ASSUME NEW x \in S
      PROVE  /\ IsFiniteSet(before[x]) /\ Cardinality(before[x]) \in Nat
             /\ Cardinality(before[x]) < n
  <2>1. before[x] \in SUBSET S /\ x \notin before[x]
    OBVIOUS
  <2>2. IsFiniteSet(before[x]) /\ Cardinality(before[x]) <= n /\ Cardinality(before[x]) # n
    BY <2>1, FS_Subset
  <2> QED
    BY <2>2, FS_CardinalityType
<1>2. ASSUME NEW x \in S, NEW y \in S, x \in before[y]
      PROVE  Cardinality(before[x]) < Cardinality(before[y])
  <2>1. before[x] \in SUBSET before[y] /\ x \notin before[x]
    BY <1>2
  <2>2. IsFiniteSet(before[y]) /\ Cardinality(before[x]) \in Nat /\ Cardinality(before[y]) \in Nat
    BY <1>1
  <2> QED
    BY <1>2, <2>1, <2>2, FS_Subset
<1>3. n \in Nat
  BY FS_CardinalityType
<1> HIDE DEF n
<1>4. rank \in [S -> 1 .. n]
  BY <1>1, <1>3
<1>5. \A x, y \in S : x # y => rank[x] # rank[y]
  BY <1>1, <1>2
<1>6. rank \in Injection(S, 1 .. n)
  BY <1>4, <1>5 DEF Injection, IsInjective
<1>7. IsFiniteSet(1 .. n) /\ Cardinality(1 .. n) = n
  BY <1>3, FS_Interval
<1>8. rank \in Surjection(S, 1 .. n)
  BY <1>6, <1>7, FS_Injection DEF n
<1>9. ASSUME NEW x \in S, NEW y \in S, rank[x] < rank[y]
      PROVE  x \in before[y]
  <2>1. x # y /\ y \notin before[x]
    BY <1>9, <1>1, <1>2
  <2> QED
    BY <2>1
<1> QED
  BY <1>6, <1>8, <1>9 DEF Bijection, n

\* Equals are ordered by some numbering of the set.
LEMMA SortedIsSorted ==
    ASSUME NEW S, IsFiniteSet(S), NEW key \in [S -> Int]
    PROVE  /\ Sorted(S, key) \in [1 .. Cardinality(S) -> S]
           /\ \A i, j \in 1 .. Cardinality(S) : i < j =>
                 /\ Sorted(S, key)[i] # Sorted(S, key)[j]
                 /\ key[Sorted(S, key)[i]] <= key[Sorted(S, key)[j]]
<1> DEFINE n == Cardinality(S)
           Before(x, y, number) == key[x] < key[y] \/ (key[x] = key[y] /\ number[x] < number[y])
<1>1. n \in Nat
  BY FS_CardinalityType
<1>2. PICK number : number \in [S -> Int] /\ \A x, y \in S : number[x] = number[y] => x = y
  <2> DEFINE place == [x \in S |-> CHOOSE i \in 1 .. n : Shuffled(S)[i] = x]
  <2>1. \A x \in S : place[x] \in 1 .. n /\ Shuffled(S)[place[x]] = x
    BY ShuffledIsABijection
  <2>2. place \in [S -> Int] /\ \A x, y \in S : place[x] = place[y] => x = y
    BY <2>1, <1>1
  <2> QED
    BY <2>2
<1> DEFINE before == [y \in S |-> {x \in S : Before(x, y, number)}]
           rank == [x \in S |-> 1 + Cardinality(before[x])]
<1>3. /\ before \in [S -> SUBSET S]
      /\ \A x \in S : x \notin before[x]
      /\ \A x, y \in S : x = y \/ x \in before[y] \/ y \in before[x]
  BY <1>2
<1>4. \A x, y \in S : x \in before[y] => before[x] \subseteq before[y]
  BY <1>2
<1>5. /\ rank \in Bijection(S, 1 .. n)
      /\ \A x, y \in S : rank[x] < rank[y] => x \in before[y]
  <2> HIDE DEF before
  <2> QED
    BY <1>3, <1>4, RankIsABijection
<1>6. /\ rank \in [S -> 1 .. n]
      /\ \A x, y \in S : rank[x] = rank[y] => x = y
      /\ \A i \in 1 .. n : \E x \in S : rank[x] = i
  BY <1>5 DEF Bijection, Injection, Surjection, IsInjective
<1>7. \A x, y \in S : x \in before[y] => key[x] <= key[y]
  BY <1>2
<1> HIDE DEF before, rank
<1> DEFINE q == [i \in 1 .. n |-> CHOOSE x \in S : rank[x] = i]
<1>8. q \in [1 .. n -> S] /\ \A i \in 1 .. n : rank[q[i]] = i
  BY <1>6
<1>9. \A i, j \in DOMAIN q : i < j => q[i] # q[j] /\ key[q[i]] <= key[q[j]]
  <2> SUFFICES ASSUME NEW i \in 1 .. n, NEW j \in 1 .. n, i < j
               PROVE  q[i] # q[j] /\ key[q[i]] <= key[q[j]]
    OBVIOUS
  <2>1. q[i] \in S /\ q[j] \in S /\ rank[q[i]] = i /\ rank[q[j]] = j
    BY <1>8
  <2> HIDE DEF q
  <2>2. q[i] \in before[q[j]]
    BY <2>1, <1>5
  <2> QED
    BY <2>1, <2>2, <1>7, <1>1
<1> HIDE DEF q, n
<1>10. \E p \in [1 .. n -> S] :
         \A i, j \in DOMAIN p : i < j => p[i] # p[j] /\ key[p[i]] <= key[p[j]]
  BY <1>8, <1>9
<1> QED
  BY <1>10 DEF Sorted, n

-----------------------------------------------------------------------------
(* What observe asks for depends on nothing but what it is answered.         *)

Sound(station, pollutant, read) ==
    {s \in station.sensors[pollutant] : read[s] # None /\ DOMAIN HourlySeries(read[s]) # {}}

\* Of one station.
LEMMA SensorByAsked ==
    ASSUME NEW station, NEW pollutant, NEW read, NEW other,
           IsFiniteSet(station.sensors[pollutant]), station.sensors[pollutant] \subseteq Int,
           \A s \in AskedOf(station, pollutant, read) : other[s] = read[s]
    PROVE  /\ Sensor(station, pollutant, other) = Sensor(station, pollutant, read)
           /\ AskedOf(station, pollutant, other) = AskedOf(station, pollutant, read)
           /\ Sensor(station, pollutant, read) # None =>
                other[Sensor(station, pollutant, read)] = read[Sensor(station, pollutant, read)]
<1> DEFINE sensors == station.sensors[pollutant]
           good == Sound(station, pollutant, read)
           better == Sound(station, pollutant, other)
<1>1. /\ Sensor(station, pollutant, read) = IF good = {} THEN None ELSE Max(good)
      /\ Sensor(station, pollutant, other) = IF better = {} THEN None ELSE Max(better)
  BY DEF Sensor, Sound
<1>2. /\ good \in SUBSET sensors /\ better \in SUBSET sensors
      /\ \A s \in sensors : other[s] = read[s] => (s \in good <=> s \in better)
  BY DEF Sound
<1>3. IsFiniteSet(good) /\ good \subseteq Int /\ IsFiniteSet(better) /\ better \subseteq Int
  BY <1>2, FS_Subset
<1> HIDE DEF good, better
<1>4. CASE good = {}
  <2>1. \A s \in sensors : other[s] = read[s]
    BY <1>1, <1>4 DEF AskedOf
  <2>2. better = {}
    BY <2>1, <1>2, <1>4
  <2> QED
    BY <2>2, <1>1, <1>4 DEF AskedOf
<1>5. CASE good # {}
  <2> DEFINE m == Max(good)
  <2>1. m \in good /\ m \in sensors /\ \A s \in good : s <= m
    BY <1>5, <1>3, <1>2, MaxOfFinite
  <2> HIDE DEF m
  <2>2. \A s \in sensors : s >= m => other[s] = read[s]
    BY <1>1, <1>5 DEF AskedOf, m
  <2>3. m \in better /\ other[m] = read[m]
    BY <2>1, <2>2, <1>2, <1>3
  <2>4. Max(better) \in better /\ \A s \in better : s <= Max(better)
    BY <2>3, <1>3, MaxOfFinite
  <2>5. Max(better) \in good
    <3>1. Max(better) \in sensors /\ Max(better) >= m
      BY <2>3, <2>4, <1>2, <1>3
    <3> QED
      BY <3>1, <2>2, <2>4, <1>2
  <2>6. Max(better) = m
    <3>1. Max(better) <= m /\ m <= Max(better)
      BY <2>1, <2>3, <2>4, <2>5
    <3>2. m \in Int /\ Max(better) \in Int
      BY <2>3, <2>4, <1>3
    <3> QED
      BY <3>1, <3>2
  <2> QED
    BY <2>3, <2>6, <1>1, <1>5 DEF AskedOf, m
<1> QED
  BY <1>4, <1>5

\* A list of stations, each with the sensors of finitely many instruments.
Listed(nearby) ==
    /\ nearby \in [1 .. Len(nearby) -> Range(nearby)] /\ Len(nearby) \in Nat
    /\ \A i \in DOMAIN nearby, p \in DOMAIN Pollutants :
         /\ IsFiniteSet(nearby[i].sensors[Pollutants[p]])
         /\ nearby[i].sensors[Pollutants[p]] \subseteq Int

Giving(nearby, pollutant, read, n) == {i \in 1 .. n : Sensor(nearby[i], pollutant, read) # None}

LEMMA GivingGrows ==
    ASSUME NEW nearby, NEW pollutant, NEW read, NEW m \in Nat, NEW n \in Nat, m <= n
    PROVE  /\ Cardinality(Giving(nearby, pollutant, read, m)) \in Nat
           /\ Cardinality(Giving(nearby, pollutant, read, m))
                <= Cardinality(Giving(nearby, pollutant, read, n))
<1>1. IsFiniteSet(1 .. n) /\ Giving(nearby, pollutant, read, n) \in SUBSET (1 .. n)
  BY FS_Interval DEF Giving
<1>2. Giving(nearby, pollutant, read, m) \in SUBSET Giving(nearby, pollutant, read, n)
  BY DEF Giving
<1>3. IsFiniteSet(Giving(nearby, pollutant, read, n))
  BY <1>1, FS_Subset
<1> QED
  BY <1>2, <1>3, FS_Subset, FS_CardinalityType

\* Of one pollutant: up to the last station that is needed.
LEMMA SeriesByAsked ==
    ASSUME NEW nearby, Listed(nearby), NEW p \in DOMAIN Pollutants, NEW read, NEW other,
           \A i \in Consulted(nearby, Pollutants[p], read) :
             \A s \in AskedOf(nearby[i], Pollutants[p], read) : other[s] = read[s]
    PROVE  /\ Consulted(nearby, Pollutants[p], other) = Consulted(nearby, Pollutants[p], read)
           /\ SeriesOf(nearby, Pollutants[p], other) = SeriesOf(nearby, Pollutants[p], read)
           /\ \A i \in Consulted(nearby, Pollutants[p], read) :
                AskedOf(nearby[i], Pollutants[p], other) = AskedOf(nearby[i], Pollutants[p], read)
<1> DEFINE q == Pollutants[p]
           C == Consulted(nearby, q, read)
           D == Consulted(nearby, q, other)
           G(n) == Cardinality(Giving(nearby, q, read, n))
           H(n) == Cardinality(Giving(nearby, q, other, n))
<1>1. DOMAIN nearby = 1 .. Len(nearby) /\ Len(nearby) \in Nat
  BY DEF Listed
<1>2. /\ C = {i \in DOMAIN nearby : G(i - 1) < MaxStations}
      /\ D = {i \in DOMAIN nearby : H(i - 1) < MaxStations}
  BY DEF Consulted, Giving
<1>3. ASSUME NEW i \in C
      PROVE  /\ Sensor(nearby[i], q, other) = Sensor(nearby[i], q, read)
             /\ AskedOf(nearby[i], q, other) = AskedOf(nearby[i], q, read)
             /\ Sensor(nearby[i], q, read) # None =>
                  other[Sensor(nearby[i], q, read)] = read[Sensor(nearby[i], q, read)]
  <2>1. i \in DOMAIN nearby
    BY <1>2
  <2>2. IsFiniteSet(nearby[i].sensors[q]) /\ nearby[i].sensors[q] \subseteq Int
    BY <2>1 DEF Listed
  <2>3. \A s \in AskedOf(nearby[i], q, read) : other[s] = read[s]
    OBVIOUS
  <2> HIDE DEF q, C
  <2> QED
    BY <2>2, <2>3, SensorByAsked
<1>4. \A m, n \in Nat : m <= n => G(m) \in Nat /\ G(m) <= G(n) /\ H(m) \in Nat /\ H(m) <= H(n)
  <2> HIDE DEF q
  <2> QED
    BY GivingGrows
<1>5. MaxStations \in Nat
  BY RangeAssumption
<1> HIDE DEF C, D, G, H
<1>6. ASSUME NEW n \in Nat, \A i \in 1 .. n : i \in C
      PROVE  G(n) = H(n)
  BY <1>3, <1>6 DEF Giving, G, H
<1>7. ASSUME NEW i \in C
      PROVE  i - 1 \in Nat /\ \A j \in 1 .. i - 1 : j \in C
  <2>1. i \in 1 .. Len(nearby) /\ i - 1 \in Nat /\ G(i - 1) < MaxStations
    BY <1>1, <1>2
  <2>2. ASSUME NEW j \in 1 .. i - 1
        PROVE  j \in C
    <3>1. j \in DOMAIN nearby /\ j - 1 \in Nat /\ j - 1 <= i - 1
      BY <2>1, <1>1
    <3>2. G(j - 1) <= G(i - 1) /\ G(j - 1) \in Nat /\ G(i - 1) \in Nat
      <4>1. j - 1 \in Nat /\ i - 1 \in Nat /\ j - 1 <= i - 1 /\ i - 1 <= i - 1
        BY <3>1, <2>1
      <4> QED
        BY <4>1, <1>4, Zenon
    <3>3. G(j - 1) < MaxStations
      BY <3>2, <2>1, <1>5
    <3> QED
      BY <3>1, <3>3, <1>2
  <2> QED
    BY <2>1, <2>2
<1>8. C \subseteq D
  <2> SUFFICES ASSUME NEW i \in C
               PROVE  i \in D
    OBVIOUS
  <2>1. i - 1 \in Nat /\ G(i - 1) = H(i - 1)
    BY <1>6, <1>7
  <2> QED
    BY <2>1, <1>2
<1>9. D \subseteq C
  <2> SUFFICES ASSUME NEW i \in D, i \notin C
               PROVE  FALSE
    OBVIOUS
  <2> DEFINE T == {j \in 1 .. i : j \notin C}
  <2>1. i \in 1 .. Len(nearby) /\ H(i - 1) < MaxStations
    BY <1>1, <1>2
  <2>2. T \subseteq Nat /\ T # {}
    BY <2>1, <1>1
  <2>3. PICK k \in T : \A j \in T : k <= j
    BY <2>2, LeastOfNaturals
  <2>4. k \in 1 .. i /\ k \notin C /\ k - 1 \in Nat /\ i - 1 \in Nat /\ k - 1 <= i - 1
    BY <2>1, <1>1
  <2>5. \A j \in 1 .. k - 1 : j \in C
    BY <2>3, <2>4, <2>1, <1>1
  <2>6. G(k - 1) = H(k - 1)
    BY <2>4, <2>5, <1>6
  <2>7. k \in DOMAIN nearby
    BY <2>1, <2>4, <1>1
  <2>8. ~(G(k - 1) < MaxStations)
    BY <2>4, <2>7, <1>2
  <2>9. H(k - 1) <= H(i - 1) /\ H(k - 1) \in Nat /\ H(i - 1) \in Nat
    BY <2>4, <1>4
  <2> QED
    BY <2>1, <2>6, <2>8, <2>9, <1>5
<1>10. C = D
  BY <1>8, <1>9
<1>11. SeriesOf(nearby, q, other) = SeriesOf(nearby, q, read)
  <2> DEFINE F == {i \in C : Sensor(nearby[i], q, read) # None}
  <2>1. F = {i \in D : Sensor(nearby[i], q, other) # None}
    BY <1>3, <1>10
  <2>2. SeriesOf(nearby, q, read) = [i \in F |-> HourlySeries(read[Sensor(nearby[i], q, read)])]
    BY DEF SeriesOf, C
  <2>3. SeriesOf(nearby, q, other) = [i \in F |-> HourlySeries(other[Sensor(nearby[i], q, other)])]
    BY <2>1 DEF SeriesOf, D
  <2>4. ASSUME NEW i \in F
        PROVE  HourlySeries(other[Sensor(nearby[i], q, other)])
                 = HourlySeries(read[Sensor(nearby[i], q, read)])
    BY <1>3
  <2> QED
    BY <2>2, <2>3, <2>4
<1> QED
  BY <1>3, <1>10, <1>11 DEF C, D

\* Of them all: the next pollutant only where nobody gave the one before.
LEMMA ObservationByAsked ==
    ASSUME NEW nearby, Listed(nearby), NEW read, NEW other, NEW start, NEW hours,
           \A s \in SensorsAsked(nearby, read) : other[s] = read[s]
    PROVE  /\ SensorsAsked(nearby, other) = SensorsAsked(nearby, read)
           /\ Observation(nearby, other, start, hours) = Observation(nearby, read, start, hours)
<1> DEFINE T == Tried(nearby, read)
           U == Tried(nearby, other)
           NoneFrom(p) == DOMAIN SeriesOf(nearby, Pollutants[p], read) = {}
           Mute(p) == DOMAIN SeriesOf(nearby, Pollutants[p], other) = {}
<1>1. DOMAIN Pollutants = 1 .. Len(Pollutants) /\ Len(Pollutants) \in Nat
  BY PollutantsAssumption
<1>2. ASSUME NEW p \in T
      PROVE  /\ SeriesOf(nearby, Pollutants[p], other) = SeriesOf(nearby, Pollutants[p], read)
             /\ Consulted(nearby, Pollutants[p], other) = Consulted(nearby, Pollutants[p], read)
             /\ \A i \in Consulted(nearby, Pollutants[p], read) :
                  AskedOf(nearby[i], Pollutants[p], other) = AskedOf(nearby[i], Pollutants[p], read)
  <2>1. p \in DOMAIN Pollutants
    BY DEF Tried
  <2>2. \A i \in Consulted(nearby, Pollutants[p], read) :
          \A s \in AskedOf(nearby[i], Pollutants[p], read) : other[s] = read[s]
    BY DEF SensorsAsked
  <2> QED
    BY <2>1, <2>2, SeriesByAsked
<1>3. /\ T = {p \in DOMAIN Pollutants : \A q \in 1 .. p - 1 : NoneFrom(q)}
      /\ U = {p \in DOMAIN Pollutants : \A q \in 1 .. p - 1 : Mute(q)}
  BY DEF Tried
<1>4. \A p \in T : NoneFrom(p) <=> Mute(p)
  BY <1>2
<1> HIDE DEF T, U, NoneFrom, Mute
<1>5. \A p \in T : \A q \in 1 .. p - 1 : q \in T
  BY <1>1, <1>3
<1>6. T \subseteq U
  BY <1>3, <1>4, <1>5
<1>7. U \subseteq T
  <2> SUFFICES ASSUME NEW p \in U, p \notin T
               PROVE  FALSE
    OBVIOUS
  <2> DEFINE R == {q \in 1 .. p : q \notin T}
  <2>1. p \in 1 .. Len(Pollutants)
    BY <1>1, <1>3
  <2>2. R \subseteq Nat /\ R # {}
    BY <2>1, <1>1
  <2>3. PICK k \in R : \A q \in R : k <= q
    BY <2>2, LeastOfNaturals
  <2>4. k \in 1 .. p /\ k \notin T /\ k \in DOMAIN Pollutants
    BY <2>1, <1>1
  <2>5. \A q \in 1 .. k - 1 : q \in T /\ Mute(q)
    BY <2>1, <2>3, <2>4, <1>1, <1>3
  <2> QED
    BY <2>4, <2>5, <1>3, <1>4
<1>8. T = U
  BY <1>6, <1>7
<1>9. SensorsAsked(nearby, other) = SensorsAsked(nearby, read)
  <2> DEFINE A(p, who) == UNION {AskedOf(nearby[i], Pollutants[p], who) :
                                   i \in Consulted(nearby, Pollutants[p], who)}
  <2>1. \A p \in T : A(p, other) = A(p, read)
    BY <1>2
  <2>2. /\ SensorsAsked(nearby, read) = UNION {A(p, read) : p \in T}
        /\ SensorsAsked(nearby, other) = UNION {A(p, other) : p \in T}
    BY <1>8 DEF SensorsAsked, T, U
  <2> HIDE DEF A
  <2> QED
    BY <2>1, <2>2
<1>10. Observation(nearby, other, start, hours) = Observation(nearby, read, start, hours)
  <2> DEFINE gave == {p \in T : DOMAIN SeriesOf(nearby, Pollutants[p], read) # {}}
             give == {p \in U : DOMAIN SeriesOf(nearby, Pollutants[p], other) # {}}
  <2>1. gave = give
    BY <1>4, <1>8 DEF NoneFrom, Mute
  <2>2. CASE gave = {}
    BY <2>1, <2>2 DEF Observation, T, U
  <2>3. CASE gave # {}
    <3>1. IsFiniteSet(gave) /\ gave \subseteq Int
      <4>1. gave \in SUBSET (1 .. Len(Pollutants)) /\ IsFiniteSet(1 .. Len(Pollutants))
        BY <1>1, <1>3, FS_Interval
      <4> HIDE DEF gave
      <4> QED
        BY <4>1, FS_Subset
    <3>2. Max(gave) \in T
      <4>1. Max(gave) \in gave
        <5> HIDE DEF gave
        <5> QED
          BY <3>1, <2>3, MaxOfFinite
      <4> QED
        BY <4>1
    <3>3. SeriesOf(nearby, Pollutants[Max(gave)], other) = SeriesOf(nearby, Pollutants[Max(gave)], read)
      BY <3>2, <1>2 DEF T
    <3> QED
      BY <2>1, <3>3 DEF Observation, T, U
  <2> QED
    BY <2>2, <2>3
<1> QED
  BY <1>9, <1>10

-----------------------------------------------------------------------------
(* What a case reads.                                                        *)

LEMMA NearIsListed ==
    ASSUME NEW c \in Cases
    PROVE  /\ Listed(Near(c))
           /\ \A i \in DOMAIN Near(c), p \in DOMAIN Pollutants :
                Near(c)[i].sensors[Pollutants[p]] \subseteq Sensors
<1> DEFINE place == Stations[CaseOf[c].place]
           active == {s \in place : Active(s, CaseOf[c].issued - DayHours, CaseOf[c].issued + Horizon)}
           n == Cardinality(active)
<1>1. /\ IsFiniteSet(place) /\ IsFiniteSet(Sensors) /\ Sensors \subseteq Int
      /\ \A s \in place : /\ s.distance \in Int
                          /\ \A p \in DOMAIN Pollutants : s.sensors[Pollutants[p]] \subseteq Sensors
  BY CasesAssumption, StationsAssumption DEF Sensors
<1>2. IsFiniteSet(active) /\ n \in Nat
  <2>1. active \in SUBSET place
    OBVIOUS
  <2> HIDE DEF active, place
  <2> QED
    BY <1>1, <2>1, FS_Subset, FS_CardinalityType
<1>3. [s \in active |-> s.distance] \in [active -> Int]
  BY <1>1
<1>4. Near(c) = Sorted(active, [s \in active |-> s.distance])
  BY DEF Near, Nearby
<1>5. Near(c) \in [1 .. n -> active]
  <2> HIDE DEF active
  <2> QED
    BY <1>2, <1>3, <1>4, SortedIsSorted
<1> HIDE DEF n
<1>6. Near(c) \in Seq(active) /\ Len(Near(c)) = n
  BY <1>2, <1>5
<1>7. Near(c) \in [1 .. Len(Near(c)) -> Range(Near(c))] /\ Len(Near(c)) \in Nat
  BY <1>2, <1>5, <1>6 DEF Range
<1>8. ASSUME NEW i \in DOMAIN Near(c), NEW p \in DOMAIN Pollutants
      PROVE  /\ Near(c)[i].sensors[Pollutants[p]] \in SUBSET Sensors
             /\ IsFiniteSet(Near(c)[i].sensors[Pollutants[p]])
  <2>1. Near(c)[i] \in place
    BY <1>5
  <2>2. Near(c)[i].sensors[Pollutants[p]] \in SUBSET Sensors
    BY <1>1, <2>1
  <2> QED
    BY <1>1, <2>2, FS_Subset
<1> QED
  BY <1>1, <1>7, <1>8 DEF Listed

LEMMA MonthsOfACase ==
    ASSUME NEW c \in Cases
    PROVE  IsFiniteSet(MonthsOf(c)) /\ MonthsOf(c) \subseteq Int /\ MonthsOf(c) \subseteq Months
<1> DEFINE first == (CaseOf[c].issued - DayHours) \div MonthHours
           last == (CaseOf[c].issued + Horizon - 1) \div MonthHours
<1>1. first \in Int /\ last \in Int
  BY CasesAssumption, DayAssumption
<1> HIDE DEF first, last
<1>2. MonthsOf(c) \in SUBSET (first .. last) /\ MonthsOf(c) \subseteq Months
  BY DEF MonthsOf, first, last
<1>3. IsFiniteSet(first .. last)
  BY <1>1, FS_Interval
<1>4. IsFiniteSet(MonthsOf(c))
  BY <1>2, <1>3, FS_Subset
<1>5. MonthsOf(c) \subseteq Int
  BY <1>1, <1>2
<1> QED
  BY <1>2, <1>4, <1>5

LEMMA FirstWaitingIsWaiting ==
    ASSUME NEW c \in Cases, NEW asked,
           \E p \in DOMAIN Pollutants, i \in DOMAIN Near(c) : Waiting(c, asked, p, i) # {}
    PROVE  FirstWaiting(c, asked) \in Sensors /\ Readable(c, FirstWaiting(c, asked)) # {}
<1> DEFINE P == {q \in DOMAIN Pollutants : \E j \in DOMAIN Near(c) : Waiting(c, asked, q, j) # {}}
           p == Min(P)
           I == {j \in DOMAIN Near(c) : Waiting(c, asked, p, j) # {}}
           i == Min(I)
           W == Waiting(c, asked, p, i)
<1>1. /\ P \in SUBSET (1 .. Len(Pollutants)) /\ P # {} /\ Len(Pollutants) \in Nat
      /\ DOMAIN Near(c) = 1 .. Len(Near(c)) /\ Len(Near(c)) \in Nat
  BY PollutantsAssumption, NearIsListed DEF Listed
<1>2. p \in P
  <2>1. IsFiniteSet(1 .. Len(Pollutants))
    BY <1>1, FS_Interval
  <2> HIDE DEF P
  <2>2. IsFiniteSet(P)
    BY <1>1, <2>1, FS_Subset
  <2>3. P \subseteq Int
    BY <1>1
  <2> QED
    BY <1>1, <2>2, <2>3, MinOfFinite
<1>3. I \in SUBSET (1 .. Len(Near(c))) /\ I # {}
  <2> HIDE DEF p
  <2> QED
    BY <1>1, <1>2
<1>4. i \in I
  <2>1. IsFiniteSet(1 .. Len(Near(c)))
    BY <1>1, FS_Interval
  <2> HIDE DEF I
  <2>2. IsFiniteSet(I)
    BY <1>3, <2>1, FS_Subset
  <2>3. I \subseteq Int
    BY <1>1, <1>3
  <2> QED
    BY <1>3, <2>2, <2>3, MinOfFinite
<1>5. p \in DOMAIN Pollutants /\ i \in DOMAIN Near(c) /\ W # {}
  <2>1. p \in DOMAIN Pollutants
    BY <1>2
  <2> HIDE DEF p
  <2>2. i \in DOMAIN Near(c) /\ Waiting(c, asked, p, i) # {}
    <3> HIDE DEF i
    <3> QED
      BY <1>4
  <2> QED
    BY <2>1, <2>2
<1>6. FirstWaiting(c, asked) = Max(W)
  BY DEF FirstWaiting
<1> HIDE DEF p, i
<1>7. /\ Near(c)[i].sensors[Pollutants[p]] \subseteq Sensors
      /\ IsFiniteSet(Near(c)[i].sensors[Pollutants[p]])
      /\ Near(c)[i].sensors[Pollutants[p]] \subseteq Int
  BY <1>5, NearIsListed DEF Listed
<1>8. W \in SUBSET Near(c)[i].sensors[Pollutants[p]] /\ \A s \in W : Readable(c, s) # {}
  BY DEF Waiting
<1> HIDE DEF W
<1>9. IsFiniteSet(W) /\ W \subseteq Int
  BY <1>7, <1>8, FS_Subset
<1>10. Max(W) \in W
  BY <1>5, <1>9, MaxOfFinite
<1> QED
  BY <1>6, <1>7, <1>8, <1>10

\* What is due is a file of the cache that is not there, and never an answer.
LEMMA DueIsUntried ==
    ASSUME NEW c \in Cases, NEW f \in Due(c)
    PROVE  f \in Files /\ Untried(f) /\ f[1] # "answer"
<1> DEFINE asked == SensorsAsked(Near(c), ReadBy(c))
           sensor == FirstWaiting(c, asked)
<1>1. CASE ~Placed(c)
  <2>1. f = <<"place", CaseOf[c].place>> /\ Untried(f)
    BY <1>1 DEF Due
  <2> QED
    BY <2>1, CasesAssumption DEF Files
<1>2. CASE /\ Placed(c)
           /\ \E p \in DOMAIN Pollutants, i \in DOMAIN Near(c) : Waiting(c, asked, p, i) # {}
  <2>1. f = <<"hours", sensor, Min(Readable(c, sensor))>>
    BY <1>2 DEF Due
  <2> HIDE DEF asked
  <2>2. sensor \in Sensors /\ Readable(c, sensor) # {}
    BY <1>2, FirstWaitingIsWaiting
  <2> HIDE DEF sensor
  <2>3. Readable(c, sensor) \in SUBSET MonthsOf(c)
    BY DEF Readable
  <2>4. IsFiniteSet(Readable(c, sensor)) /\ Readable(c, sensor) \subseteq Int
    BY <2>3, MonthsOfACase, FS_Subset
  <2>5. Min(Readable(c, sensor)) \in Readable(c, sensor)
    BY <2>2, <2>4, MinOfFinite
  <2>6. Min(Readable(c, sensor)) \in Months /\ Untried(<<"hours", sensor, Min(Readable(c, sensor))>>)
    BY <2>3, <2>5, MonthsOfACase DEF Readable
  <2> QED
    BY <2>1, <2>2, <2>6 DEF Files
<1>3. CASE /\ Placed(c)
           /\ ~ \E p \in DOMAIN Pollutants, i \in DOMAIN Near(c) : Waiting(c, asked, p, i) # {}
  <2>1. f = <<"cams", c>> /\ Untried(f)
    BY <1>3 DEF Due
  <2> QED
    BY <2>1 DEF Files
<1> QED
  BY <1>1, <1>2, <1>3

-----------------------------------------------------------------------------
(* The order in which the agent is asked.                                    *)

\* A place in a round of a fixed length tells the round.
LEMMA Rounds ==
    ASSUME NEW l \in Nat \ {0}, NEW a \in Nat, NEW b \in Nat, NEW p \in 1 .. l, NEW q \in 1 .. l
    PROVE  /\ l * a + p \in Nat \ {0}
           /\ l * a + p = l * b + q => a = b /\ p = q
           /\ a < b => l * a + p <= l * b
<1>1. l * a \in Nat /\ l * b \in Nat
  OBVIOUS
<1>2. a < b => l * a + l <= l * b
  <2> SUFFICES ASSUME a < b
               PROVE  l * a + l <= l * b
    OBVIOUS
  <2>1. PICK d \in Nat : b = a + 1 + d
    <3>1. b - a - 1 \in Nat /\ b = a + 1 + (b - a - 1)
      OBVIOUS
    <3> QED
      BY <3>1
  <2>2. l * b = l * a + l + l * d /\ l * d \in Nat
    BY <2>1
  <2> QED
    BY <1>1, <2>2
<1>3. b < a => l * b + l <= l * a
  <2> SUFFICES ASSUME b < a
               PROVE  l * b + l <= l * a
    OBVIOUS
  <2>1. PICK d \in Nat : a = b + 1 + d
    <3>1. a - b - 1 \in Nat /\ a = b + 1 + (a - b - 1)
      OBVIOUS
    <3> QED
      BY <3>1
  <2>2. l * a = l * b + l + l * d /\ l * d \in Nat
    BY <2>1
  <2> QED
    BY <1>1, <2>2
<1>4. ASSUME NEW x \in Nat, NEW y \in Nat, x + p = y + q, x + l <= y
      PROVE  FALSE
  BY <1>4
<1>5. ASSUME NEW x \in Nat, NEW y \in Nat, x + p = y + q, y + l <= x
      PROVE  FALSE
  BY <1>5
<1>6. l * a + p \in Nat \ {0}
  BY <1>1
<1>7. a < b => l * a + p <= l * b
  BY <1>1, <1>2
<1>8. ASSUME l * a + p = l * b + q
      PROVE  a = b /\ p = q
  <2>1. ~(a < b) /\ ~(b < a)
    BY <1>1, <1>2, <1>3, <1>4, <1>5, <1>8
  <2>2. a = b
    BY <2>1
  <2>3. l * a = l * b
    BY <2>2
  <2>4. p = q
    BY <2>3, <1>1, <1>8
  <2> QED
    BY <2>2, <2>4
<1> QED
  BY <1>6, <1>7, <1>8

LEMMA SameRound ==
    ASSUME NEW l \in Nat \ {0}, NEW a \in Nat, NEW b \in Nat, NEW p \in 1 .. l, NEW q \in 1 .. l,
           l * a + p = l * b + q
    PROVE  a = b /\ p = q
  BY Rounds

\* Division, by what it does.
LEMMA Division ==
    ASSUME NEW s \in Nat \ {0}, NEW n \in Nat
    PROVE  /\ n \div s \in Nat /\ n % s \in 0 .. s - 1
           /\ n = s * (n \div s) + (n % s)
  OBVIOUS

\* What a group has of the pattern, and where in it the n-th of it is drawn.
LEMMA PlaceOfTheNth ==
    ASSUME NEW g \in Groups, NEW n \in Nat \ {0}
    PROVE  /\ Share(g) \in Nat \ {0}
           /\ PlaceIn(g, n) \in PlacesOf(g)
           /\ Cardinality({j \in PlacesOf(g) : j < PlaceIn(g, n)}) = (n - 1) % Share(g)
<1> DEFINE P == PlacesOf(g)
           before == [y \in P |-> {x \in P : x < y}]
           rank == [x \in P |-> 1 + Cardinality(before[x])]
<1>1. Len(Pattern) \in Nat /\ P \in SUBSET (1 .. Len(Pattern))
  BY PatternAssumption DEF PlacesOf
<1>2. P \subseteq Int
  BY <1>1
<1>3. P # {}
  <2>1. PICK c \in Cases : g = CaseOf[c].group
    BY DEF Groups
  <2>2. PICK i \in DOMAIN Pattern : Pattern[i] = g
    BY <2>1, PatternAssumption
  <2> QED
    BY <2>2 DEF PlacesOf
<1> HIDE DEF P
<1>4. IsFiniteSet(P)
  <2>1. IsFiniteSet(1 .. Len(Pattern))
    BY <1>1, FS_Interval
  <2> QED
    BY <1>1, <2>1, FS_Subset
<1>5. Share(g) = Cardinality(P) /\ Share(g) \in Nat \ {0}
  BY <1>3, <1>4, FS_EmptySet, FS_CardinalityType DEF Share, P
<1>6. /\ before \in [P -> SUBSET P]
      /\ \A x \in P : x \notin before[x]
      /\ \A x, y \in P : x = y \/ x \in before[y] \/ y \in before[x]
  BY <1>2
<1>7. ASSUME NEW x \in P, NEW y \in P, x \in before[y]
      PROVE  before[x] \subseteq before[y]
  <2>1. x < y /\ \A z \in P : z < x => z < y
    BY <1>2, <1>7
  <2> QED
    BY <2>1
<1>8. rank \in Bijection(P, 1 .. Share(g))
  <2> HIDE DEF before
  <2> QED
    BY <1>4, <1>5, <1>6, <1>7, RankIsABijection
<1>9. ((n - 1) % Share(g)) + 1 \in 1 .. Share(g)
  BY <1>5, Division
<1>10. PICK i \in P : rank[i] = ((n - 1) % Share(g)) + 1
  BY <1>8, <1>9 DEF Bijection, Surjection
<1>11. Cardinality(before[i]) = (n - 1) % Share(g)
  <2> HIDE DEF before
  <2>1. before[i] \in SUBSET P
    BY <1>6
  <2>2. Cardinality(before[i]) \in Nat
    BY <2>1, <1>4, FS_Subset, FS_CardinalityType
  <2>3. (n - 1) % Share(g) \in Nat
    BY <1>5, Division
  <2>4. rank[i] = 1 + Cardinality(before[i])
    OBVIOUS
  <2> QED
    BY <2>2, <2>3, <2>4, <1>10
<1> QED
  BY <1>5, <1>11 DEF PlaceIn, P

Number(rows, c) ==
    CHOOSE n \in DOMAIN Members(rows, CaseOf[c].group) : Members(rows, CaseOf[c].group)[n] = c

OfGroup(rows, g) == {c \in Usable(rows) : CaseOf[c].group = g}

LEMMA MembersAreNumbered ==
    ASSUME NEW rows
    PROVE  /\ IsFiniteSet(Usable(rows)) /\ Usable(rows) \subseteq Cases
           /\ \A g : /\ IsFiniteSet(OfGroup(rows, g)) /\ Cardinality(OfGroup(rows, g)) \in Nat
                    /\ Members(rows, g) \in [1 .. Cardinality(OfGroup(rows, g)) -> OfGroup(rows, g)]
                    /\ \A i, j \in 1 .. Cardinality(OfGroup(rows, g)) :
                         Members(rows, g)[i] = Members(rows, g)[j] => i = j
           /\ \A c \in Usable(rows) :
                /\ CaseOf[c].group \in Groups
                /\ Number(rows, c) \in 1 .. Cardinality(OfGroup(rows, CaseOf[c].group))
                /\ Members(rows, CaseOf[c].group)[Number(rows, c)] = c
<1>1. Usable(rows) \in SUBSET Cases /\ IsFiniteSet(Cases)
  BY CasesAssumption DEF Usable
<1>2. IsFiniteSet(Usable(rows))
  BY <1>1, FS_Subset
<1>3. ASSUME NEW g
      PROVE  /\ IsFiniteSet(OfGroup(rows, g)) /\ Cardinality(OfGroup(rows, g)) \in Nat
             /\ Members(rows, g) = Shuffled(OfGroup(rows, g))
  <2>1. OfGroup(rows, g) \in SUBSET Usable(rows)
    BY DEF OfGroup
  <2>2. IsFiniteSet(OfGroup(rows, g))
    BY <2>1, <1>2, FS_Subset
  <2> QED
    BY <2>2, FS_CardinalityType DEF Members, OfGroup
<1>4. ASSUME NEW c \in Usable(rows)
      PROVE  /\ CaseOf[c].group \in Groups
             /\ Number(rows, c) \in 1 .. Cardinality(OfGroup(rows, CaseOf[c].group))
             /\ Members(rows, CaseOf[c].group)[Number(rows, c)] = c
  <2> DEFINE g == CaseOf[c].group
  <2>1. c \in OfGroup(rows, g)
    BY DEF OfGroup
  <2>2. /\ DOMAIN Members(rows, g) = 1 .. Cardinality(OfGroup(rows, g))
        /\ \E i \in 1 .. Cardinality(OfGroup(rows, g)) : Members(rows, g)[i] = c
    BY <2>1, <1>3, ShuffledIsABijection
  <2>3. g \in Groups
    BY <1>1 DEF Groups
  <2> QED
    BY <2>2, <2>3 DEF Number
<1>5. ASSUME NEW g
      PROVE  /\ Members(rows, g) \in [1 .. Cardinality(OfGroup(rows, g)) -> OfGroup(rows, g)]
             /\ \A i, j \in 1 .. Cardinality(OfGroup(rows, g)) :
                  Members(rows, g)[i] = Members(rows, g)[j] => i = j
  BY <1>3, ShuffledIsABijection
<1> QED
  BY <1>1, <1>2, <1>3, <1>4, <1>5

LEMMA DrawnAtIsAPlace ==
    ASSUME NEW rows, NEW c \in Usable(rows)
    PROVE  /\ DrawnAt(rows, c) \in Nat \ {0}
           /\ \A r \in Nat : Number(rows, c) <= Share(CaseOf[c].group) * r
                             => DrawnAt(rows, c) <= Len(Pattern) * r
           /\ \A d \in Usable(rows) : DrawnAt(rows, c) = DrawnAt(rows, d) => c = d
<1> DEFINE l == Len(Pattern)
           x(d) == Number(rows, d) - 1
           s(d) == Share(CaseOf[d].group)
           a(d) == x(d) \div s(d)
           p(d) == PlaceIn(CaseOf[d].group, Number(rows, d))
<1>1. l \in Nat
  BY PatternAssumption
<1>2. ASSUME NEW d \in Usable(rows)
      PROVE  /\ DrawnAt(rows, d) = l * a(d) + p(d)
             /\ x(d) \in Nat /\ Number(rows, d) = x(d) + 1 /\ s(d) \in Nat \ {0}
             /\ a(d) \in Nat /\ x(d) % s(d) \in Nat /\ x(d) = s(d) * a(d) + (x(d) % s(d))
             /\ p(d) \in 1 .. l /\ Pattern[p(d)] = CaseOf[d].group
             /\ Cardinality({j \in PlacesOf(CaseOf[d].group) : j < p(d)}) = x(d) % s(d)
  <2>1. Number(rows, d) \in Nat \ {0} /\ CaseOf[d].group \in Groups
    BY MembersAreNumbered
  <2>2. x(d) \in Nat /\ Number(rows, d) = x(d) + 1
    BY <2>1
  <2>3. /\ s(d) \in Nat \ {0} /\ p(d) \in PlacesOf(CaseOf[d].group)
        /\ Cardinality({j \in PlacesOf(CaseOf[d].group) : j < p(d)}) = x(d) % s(d)
    BY <2>1, PlaceOfTheNth
  <2>4. p(d) \in 1 .. l /\ Pattern[p(d)] = CaseOf[d].group
    BY <2>3, PatternAssumption DEF PlacesOf
  <2>5. DrawnAt(rows, d) = l * a(d) + p(d)
    BY DEF DrawnAt, Number
  <2> HIDE DEF x, s, p
  <2>6. /\ x(d) \div s(d) \in Nat /\ x(d) % s(d) \in 0 .. s(d) - 1
        /\ x(d) = s(d) * (x(d) \div s(d)) + (x(d) % s(d))
    BY <2>2, <2>3, Division, Zenon
  <2>7. a(d) \in Nat /\ x(d) % s(d) \in Nat /\ x(d) = s(d) * a(d) + (x(d) % s(d))
    BY <2>6, <2>3
  <2> QED
    BY <2>2, <2>3, <2>4, <2>5, <2>7
<1>3. l \in Nat \ {0}
  <2>1. p(c) \in 1 .. l
    BY <1>2
  <2> HIDE DEF p
  <2> QED
    BY <2>1, <1>1
<1>4. c \in Cases
  BY MembersAreNumbered
<1> HIDE DEF l, x, s, a, p
<1>5. DrawnAt(rows, c) \in Nat \ {0}
  <2>1. a(c) \in Nat /\ p(c) \in 1 .. l /\ DrawnAt(rows, c) = l * a(c) + p(c)
    BY <1>2
  <2>2. l * a(c) + p(c) \in Nat \ {0}
    BY <2>1, <1>3, Rounds, Zenon
  <2> QED
    BY <2>1, <2>2
<1>6. ASSUME NEW r \in Nat, Number(rows, c) <= s(c) * r
      PROVE  DrawnAt(rows, c) <= l * r
  <2>1. a(c) < r
    <3> SUFFICES ASSUME ~(a(c) < r)
                 PROVE  FALSE
      OBVIOUS
    <3>1. a(c) \in Nat /\ s(c) \in Nat \ {0} /\ x(c) \in Nat /\ x(c) % s(c) \in Nat
      BY <1>2
    <3>2. PICK d \in Nat : a(c) = r + d
      <4>1. a(c) - r \in Nat /\ a(c) = r + (a(c) - r)
        BY <3>1
      <4> QED
        BY <4>1
    <3>3. s(c) * a(c) = s(c) * r + s(c) * d /\ s(c) * d \in Nat /\ s(c) * r \in Nat
      BY <3>1, <3>2
    <3>4. x(c) = s(c) * a(c) + (x(c) % s(c)) /\ x(c) + 1 <= s(c) * r
      BY <1>2, <1>6
    <3> QED
      BY <3>1, <3>3, <3>4
  <2>2. a(c) \in Nat /\ p(c) \in 1 .. l /\ DrawnAt(rows, c) = l * a(c) + p(c)
    BY <1>2
  <2>3. l * a(c) + p(c) <= l * r
    BY <2>1, <2>2, <1>3, Rounds, Zenon
  <2> QED
    BY <2>2, <2>3
<1>7. ASSUME NEW d \in Usable(rows), DrawnAt(rows, c) = DrawnAt(rows, d)
      PROVE  c = d
  <2>0. /\ a(c) \in Nat /\ p(c) \in 1 .. l /\ a(d) \in Nat /\ p(d) \in 1 .. l
        /\ l * a(c) + p(c) = l * a(d) + p(d)
    BY <1>2, <1>7
  <2>1. a(c) = a(d) /\ p(c) = p(d)
    <3>1. \A i, j \in Nat, u, v \in 1 .. l : l * i + u = l * j + v => i = j /\ u = v
      BY <1>3, SameRound
    <3> DEFINE i == a(c)
               j == a(d)
               u == p(c)
               v == p(d)
    <3>2. i \in Nat /\ j \in Nat /\ u \in 1 .. l /\ v \in 1 .. l /\ l * i + u = l * j + v
      BY <2>0
    <3> HIDE DEF i, j, u, v
    <3>3. i = j /\ u = v
      BY <3>1, <3>2
    <3> QED
      BY <3>3 DEF i, j, u, v
  <2>2. CaseOf[c].group = CaseOf[d].group
    BY <2>1, <1>2
  <2>3. s(c) = s(d)
    BY <2>2 DEF s
  <2>4. x(c) % s(c) = x(d) % s(d)
    BY <2>1, <2>2, <1>2
  <2>5. s(c) * a(c) = s(d) * a(d)
    BY <2>1, <2>3
  <2>6. x(c) = x(d)
    BY <2>4, <2>5, <1>2
  <2>7. Number(rows, c) = Number(rows, d)
    BY <2>6, <1>2
  <2> QED
    BY <2>2, <2>7, MembersAreNumbered
<1> QED
  BY <1>5, <1>6, <1>7 DEF l, s

LEMMA AgentCasesInOrder ==
    ASSUME NEW rows
    PROVE  /\ AgentCases(rows) \in [1 .. Cardinality(Usable(rows)) -> Usable(rows)]
           /\ AgentCases(rows) \in Seq(Cases)
           /\ Len(AgentCases(rows)) = Cardinality(Usable(rows))
           /\ \A i, j \in DOMAIN AgentCases(rows) : AgentCases(rows)[i] = AgentCases(rows)[j] => i = j
           /\ \A c \in Usable(rows) : \E i \in DOMAIN AgentCases(rows) : AgentCases(rows)[i] = c
           /\ \A j \in DOMAIN AgentCases(rows) : j <= DrawnAt(rows, AgentCases(rows)[j])
<1> DEFINE U == Usable(rows)
           n == Cardinality(U)
           todo == AgentCases(rows)
           key == [c \in U |-> DrawnAt(rows, c)]
<1>1. IsFiniteSet(U) /\ n \in Nat /\ U \subseteq Cases
  BY MembersAreNumbered, FS_CardinalityType
<1>2. key \in [U -> Int] /\ \A c \in U : key[c] \in Nat \ {0}
  BY DrawnAtIsAPlace
<1>3. \A c, d \in U : key[c] = key[d] => c = d
  BY DrawnAtIsAPlace
<1>4. todo = Sorted(U, key)
  BY DEF AgentCases
<1> HIDE DEF U, key
<1>5. /\ todo \in [1 .. n -> U]
      /\ \A i, j \in 1 .. n : i < j => todo[i] # todo[j] /\ key[todo[i]] <= key[todo[j]]
  BY <1>1, <1>2, <1>4, SortedIsSorted
<1>6. DOMAIN todo = 1 .. n
  BY <1>5
<1> HIDE DEF todo, n
<1>7. todo \in Seq(Cases) /\ Len(todo) = n
  BY <1>1, <1>5
<1>8. \A i, j \in 1 .. n : todo[i] = todo[j] => i = j
  <2> SUFFICES ASSUME NEW i \in 1 .. n, NEW j \in 1 .. n, i # j
               PROVE  todo[i] # todo[j]
    OBVIOUS
  <2>1. i < j \/ j < i
    BY <1>1
  <2> QED
    BY <2>1, <1>5
<1>9. ASSUME NEW c \in U
      PROVE  \E i \in 1 .. n : todo[i] = c
  <2>1. todo \in Injection(1 .. n, U)
    BY <1>5, <1>6, <1>8 DEF Injection, IsInjective
  <2>2. Cardinality(1 .. n) = n
    BY <1>1, FS_Interval
  <2>3. todo \in Surjection(1 .. n, U)
    BY <2>1, <2>2, <1>1, FS_Injection DEF n
  <2> QED
    BY <2>3 DEF Surjection
<1>10. ASSUME NEW j \in 1 .. n
       PROVE  j <= key[todo[j]]
  <2> DEFINE d == key[todo[j]]
             f == [i \in 1 .. j |-> key[todo[i]]]
  <2>1. d \in Nat \ {0} /\ j \in Nat
    BY <1>1, <1>2, <1>5
  <2>2. \A i \in 1 .. j : i \in 1 .. n /\ todo[i] \in U /\ key[todo[i]] \in Nat \ {0} /\ key[todo[i]] <= d
    BY <1>1, <1>2, <1>5, <2>1
  <2>3. f \in [1 .. j -> 1 .. d]
    <3> HIDE DEF d
    <3> QED
      BY <2>1, <2>2
  <2>4. \A i, k \in 1 .. j : f[i] = f[k] => i = k
    BY <2>2, <1>3, <1>8
  <2>5. f \in Injection(1 .. j, 1 .. d)
    BY <2>3, <2>4 DEF Injection, IsInjective
  <2>6. /\ Cardinality(1 .. j) = j /\ Cardinality(1 .. d) = d /\ IsFiniteSet(1 .. d)
    <3> HIDE DEF d
    <3> QED
      BY <2>1, FS_Interval
  <2> HIDE DEF f, d
  <2>7. j <= d
    BY <2>5, <2>6, FS_Injection
  <2> QED
    BY <2>7 DEF d
<1>11. \A j \in 1 .. n : j <= DrawnAt(rows, todo[j])
  BY <1>5, <1>10 DEF key
<1> QED
  BY <1>5, <1>6, <1>7, <1>8, <1>9, <1>11 DEF todo, n, U

LEMMA MinOfTwo ==
    ASSUME NEW a \in Int, NEW b \in Int
    PROVE  Min({a, b}) \in {a, b} /\ Min({a, b}) <= a /\ Min({a, b}) <= b
<1>1. \E x \in {a, b} : \A y \in {a, b} : x <= y
  OBVIOUS
<1> QED
  BY <1>1 DEF Min

\* How many of a group are among the first m.
DrawnOf(todo, g, m) == {i \in 1 .. m : CaseOf[todo[i]].group = g}

LEMMA GroupsHaveTheirShare ==
    ASSUME NEW rows, NEW todo, todo = AgentCases(rows), NEW n \in DOMAIN todo, NEW g \in Groups
    PROVE  Cardinality(DrawnOf(todo, g, n))
             >= Min({Cardinality(DrawnOf(todo, g, Len(todo))), Share(g) * (n \div Len(Pattern))})
<1> DEFINE U == Usable(rows)
           all == Cardinality(DrawnOf(todo, g, Len(todo)))
           r == n \div Len(Pattern)
           k == Min({all, Share(g) * r})
           m == Cardinality(OfGroup(rows, g))
           member == Members(rows, g)
<1>1. /\ todo \in [1 .. Len(todo) -> U] /\ Len(todo) \in Nat /\ n \in 1 .. Len(todo)
      /\ \A i, j \in 1 .. Len(todo) : todo[i] = todo[j] => i = j
      /\ \A c \in U : \E i \in 1 .. Len(todo) : todo[i] = c
      /\ \A j \in 1 .. Len(todo) : j <= DrawnAt(rows, todo[j])
  <2>1. Cardinality(U) \in Nat
    BY MembersAreNumbered, FS_CardinalityType
  <2> QED
    BY <2>1, AgentCasesInOrder
<1>2. /\ m \in Nat /\ IsFiniteSet(OfGroup(rows, g)) /\ member \in [1 .. m -> OfGroup(rows, g)]
      /\ \A i, j \in 1 .. m : member[i] = member[j] => i = j
  BY MembersAreNumbered
<1>3. ASSUME NEW i \in 1 .. Len(todo)
      PROVE  IsFiniteSet(DrawnOf(todo, g, i)) /\ Cardinality(DrawnOf(todo, g, i)) \in Nat
  <2>1. DrawnOf(todo, g, i) \in SUBSET (1 .. i) /\ i \in Nat
    BY <1>1 DEF DrawnOf
  <2>2. IsFiniteSet(1 .. i)
    BY <2>1, FS_Interval
  <2>3. IsFiniteSet(DrawnOf(todo, g, i))
    BY <2>1, <2>2, FS_Subset
  <2> QED
    BY <2>3, FS_CardinalityType
<1>4. all \in Nat /\ all <= m
  <2> DEFINE S == DrawnOf(todo, g, Len(todo))
             f == [i \in S |-> todo[i]]
  <2>1. \A i \in S : i \in 1 .. Len(todo) /\ todo[i] \in OfGroup(rows, g)
    BY <1>1 DEF DrawnOf, OfGroup
  <2>2. f \in Injection(S, OfGroup(rows, g))
    <3> HIDE DEF S
    <3> QED
      BY <2>1, <1>1 DEF Injection, IsInjective
  <2>3. Len(todo) \in 1 .. Len(todo)
    BY <1>1
  <2>4. all \in Nat
    BY <2>3, <1>3
  <2> HIDE DEF f
  <2> QED
    BY <2>2, <2>4, <1>2, FS_Injection
<1>5. Len(Pattern) \in Nat \ {0} /\ Share(g) \in Nat \ {0}
  <2>1. PICK c \in Cases : g = CaseOf[c].group
    BY DEF Groups
  <2>2. Len(Pattern) \in Nat \ {0}
    BY <2>1, PatternAssumption
  <2>3. 1 \in Nat \ {0}
    OBVIOUS
  <2>4. Share(g) \in Nat \ {0}
    BY <2>3, PlaceOfTheNth
  <2> QED
    BY <2>2, <2>4
<1>6. r \in Nat /\ Len(Pattern) * r <= n
  <2>1. n \in Nat
    BY <1>1
  <2>2. n \div Len(Pattern) \in Nat /\ n % Len(Pattern) \in 0 .. Len(Pattern) - 1
        /\ n = Len(Pattern) * (n \div Len(Pattern)) + (n % Len(Pattern))
    BY <2>1, <1>5, Division, Zenon
  <2> HIDE DEF r
  <2>3. r = n \div Len(Pattern)
    BY DEF r
  <2>4. n % Len(Pattern) \in Nat /\ r \in Nat /\ n = Len(Pattern) * r + (n % Len(Pattern))
    BY <2>2, <2>3, <1>5
  <2>5. Len(Pattern) * r \in Nat
    BY <2>4, <1>5
  <2> QED
    BY <2>1, <2>4, <2>5
<1> HIDE DEF r, all
<1>7. k \in Nat /\ k <= m /\ k <= Share(g) * r
  <2>1. Share(g) * r \in Nat
    BY <1>5, <1>6
  <2> DEFINE t == Share(g) * r
  <2> HIDE DEF t
  <2>2. Min({all, t}) \in {all, t} /\ Min({all, t}) <= all /\ Min({all, t}) <= t
    <3>1. t \in Int /\ all \in Int
      BY <2>1, <1>4 DEF t
    <3> QED
      BY <3>1, MinOfTwo
  <2> QED
    BY <2>1, <2>2, <1>2, <1>4 DEF t
<1> HIDE DEF k, m, member
<1>8. ASSUME NEW i \in 1 .. k
      PROVE  \E j \in DrawnOf(todo, g, n) : todo[j] = member[i]
  <2> DEFINE c == member[i]
  <2>1. i \in 1 .. m /\ i <= Share(g) * r
    BY <1>2, <1>5, <1>6, <1>7
  <2>2. c \in OfGroup(rows, g)
    BY <2>1, <1>2
  <2>3. c \in U /\ CaseOf[c].group = g
    BY <2>2 DEF OfGroup
  <2>4. Number(rows, c) \in 1 .. m /\ member[Number(rows, c)] = c
    BY <2>3, MembersAreNumbered DEF m, member
  <2>5. Number(rows, c) = i
    BY <2>1, <2>4, <1>2
  <2>6. Number(rows, c) <= Share(CaseOf[c].group) * r
    BY <2>1, <2>3, <2>5
  <2> HIDE DEF c
  <2>7. DrawnAt(rows, c) \in Nat /\ DrawnAt(rows, c) <= Len(Pattern) * r
    BY <2>3, <2>6, <1>6, DrawnAtIsAPlace
  <2>8. PICK j \in 1 .. Len(todo) : todo[j] = c
    BY <2>3, <1>1
  <2>9. j <= DrawnAt(rows, c)
    BY <2>8, <1>1
  <2>10. j <= n
    <3>1. Len(Pattern) * r \in Nat /\ n \in Nat /\ j \in Nat
      BY <1>1, <1>5, <1>6
    <3> QED
      BY <3>1, <2>7, <2>9, <1>6
  <2>11. j \in DrawnOf(todo, g, n)
    BY <2>3, <2>8, <2>10, <1>1 DEF DrawnOf
  <2> QED
    BY <2>8, <2>11 DEF c
<1>9. k <= Cardinality(DrawnOf(todo, g, n))
  <2> DEFINE S == DrawnOf(todo, g, n)
             f == [i \in 1 .. k |-> CHOOSE j \in S : todo[j] = member[i]]
  <2>1. \A i \in 1 .. k : f[i] \in S /\ todo[f[i]] = member[i]
    BY <1>8
  <2>2. \A i, j \in 1 .. k : f[i] = f[j] => i = j
    BY <2>1, <1>2, <1>7
  <2>3. f \in Injection(1 .. k, S)
    BY <2>1, <2>2 DEF Injection, IsInjective
  <2>4. IsFiniteSet(S) /\ Cardinality(S) \in Nat
    BY <1>1, <1>3
  <2>5. Cardinality(1 .. k) = k
    BY <1>7, FS_Interval
  <2> HIDE DEF f, S
  <2>6. k <= Cardinality(S)
    BY <2>3, <2>4, <2>5, FS_Injection
  <2> QED
    BY <2>6 DEF S
<1> QED
  BY <1>1, <1>3, <1>7, <1>9 DEF k, all, r

-----------------------------------------------------------------------------
(* The types of the backtest. *)

LEMMA ScoreType ==
    ASSUME NEW o, NEW cams
    PROVE  Score(o, cams) \in Scores
<1>1. ASSUME NEW p, NEW t
      PROVE  BandFor(p, t) \in Bands
  <2> DEFINE S == {i \in 1 .. 3 : t > 10 * LimitsOf[p][i]}
  <2>1. IsFiniteSet(1 .. 3) /\ Cardinality(1 .. 3) = 3
    <3>1. 1 \in Int /\ 3 \in Int /\ ~(1 > 3) /\ 3 = 3 - 1 + 1
      OBVIOUS
    <3>2. Cardinality(1 .. 3) = IF 1 > 3 THEN 0 ELSE 3 - 1 + 1
      BY <3>1, FS_Interval, Zenon
    <3> QED
      BY <3>1, <3>2, FS_Interval, Zenon
  <2>2. S \in SUBSET (1 .. 3)
    OBVIOUS
  <2> HIDE DEF S
  <2>3. Cardinality(S) \in Nat /\ Cardinality(S) <= 3
    BY <2>1, <2>2, FS_Subset, FS_CardinalityType
  <2>4. BandFor(p, t) = 1 + Cardinality(S)
    BY DEF BandFor, S
  <2> QED
    BY <2>3, <2>4 DEF Bands
<1>2. \A p, t : BandOf(p, t) \in Bands \cup {None}
  BY <1>1 DEF BandOf
<1>3. CASE o.status # "scored"
  BY <1>3 DEF Score, Scores
<1>4. CASE o.status = "scored"
  <2>1. BandFor(o.pollutant, o.value) \in Bands \cup {None}
    BY <1>1
  <2>2. (IF o.pollutant \in DOMAIN cams THEN BandOf(o.pollutant, cams[o.pollutant]) ELSE None)
          \in Bands \cup {None}
    BY <1>2
  <2>3. BandOf(o.pollutant, o.persistence) \in Bands \cup {None}
    BY <1>2
  <2> QED
    BY <1>4, <2>1, <2>2, <2>3 DEF Score, Scores
<1> QED
  BY <1>3, <1>4

\* Only a run that has stopped has failed a third time, and each has a forecaster.
Underway ==
    /\ run.failures = 3 => run.at = "stopped"
    /\ run.at # "off" => run.forecaster \in Forecasters

LEMMA NoRunType == RunOK(NoRun) /\ NoRun.failures = 0 /\ NoRun.at = "off"
  BY DEF NoRun, RunOK

LEMMA CaseIsACase ==
    ASSUME BacktestTypeOK, Observing
    PROVE  Case \in Cases /\ run.next \in DOMAIN Order
  BY OrderAssumption DEF BacktestTypeOK, RunOK, NoRun, Observing, Case

LEMMA SubjectIsACase ==
    ASSUME BacktestTypeOK, Asking
    PROVE  Subject \in Cases
  BY DEF BacktestTypeOK, RunOK, NoRun, Asking, Subject

LEMMA BacktestTypeStep ==
    ASSUME BacktestTypeOK, Underway, BacktestNext
    PROVE  BacktestTypeOK' /\ Underway'
<1> DEFINE Answered(d) == \A c \in Cases, k \in Forecasters :
                            d[<<"answer", c, k>>] \in Told \cup {None, Torn}
<1>0. /\ DOMAIN disk = Files /\ Answered(disk) /\ complete \in BOOLEAN
      /\ RunOK(run) /\ runs \in 0 .. MaxRuns /\ faults \in 0 .. MaxFaults
  BY DEF BacktestTypeOK
<1> HIDE DEF Answered
<1>a. ASSUME DOMAIN disk' = Files, Answered(disk'), complete' \in BOOLEAN,
             RunOK(run'), runs' \in 0 .. MaxRuns, faults' \in 0 .. MaxFaults
      PROVE  BacktestTypeOK'
  BY <1>a DEF BacktestTypeOK, Answered, RunOK, NoRun, Files
<1>b. /\ run.failures \in 0 .. 3 /\ run.next \in Nat \ {0}
      /\ run.failures = 3 => run.at = "stopped"
      /\ run.at # "off" => run.forecaster \in Forecasters
  BY <1>0 DEF RunOK, NoRun, Underway
<1>1. ASSUME Start
      PROVE  BacktestTypeOK' /\ Underway'
  <2>1. PICK k \in Forecasters, budget \in Budgets :
          run' = [NoRun EXCEPT !.at = "observing", !.forecaster = k, !.budget = budget]
    BY <1>1 DEF Start
  <2>2. RunOK(run') /\ run'.failures = 0 /\ run'.forecaster \in Forecasters
    BY <2>1, NoRunType DEF RunOK, NoRun
  <2>3. runs' \in 0 .. MaxRuns /\ UNCHANGED <<disk, complete, faults>>
    BY <1>0, <1>1, BoundsOfRuns DEF Start
  <2> QED
    BY <1>0, <1>a, <2>2, <2>3 DEF Underway
<1>2. ASSUME Fetch
      PROVE  BacktestTypeOK' /\ Underway'
  <2>1. PICK f \in Due(Case) : disk' = [disk EXCEPT ![f] = Fetched(f)]
    BY <1>2 DEF Fetch
  <2>2. f[1] # "answer"
    BY <1>2, CaseIsACase, DueIsUntried DEF Fetch
  <2>3. \A c \in Cases, k \in Forecasters : <<"answer", c, k>> # f
    BY <2>2
  <2>4. Answered(disk') /\ DOMAIN disk' = Files
    BY <1>0, <2>1, <2>3 DEF Answered
  <2>5. UNCHANGED <<complete, run, runs, faults>>
    BY <1>2 DEF Fetch
  <2> QED
    BY <1>0, <1>a, <2>4, <2>5 DEF Underway
<1>3. ASSUME FetchFails
      PROVE  BacktestTypeOK' /\ Underway'
  <2>1. PICK f \in Due(Case) : run' = [run EXCEPT !.down = @ \cup {f}, !.whole = FALSE]
    BY <1>3 DEF FetchFails
  <2>2. f \in Files
    BY <1>3, CaseIsACase, DueIsUntried DEF FetchFails
  <2>3. RunOK(run') /\ run'.failures = run.failures /\ run'.at = run.at
          /\ run'.forecaster = run.forecaster
    BY <1>0, <2>1, <2>2 DEF RunOK, NoRun
  <2>4. faults' \in 0 .. MaxFaults /\ UNCHANGED <<disk, complete, runs>>
    BY <1>0, <1>3, BoundsOfRuns DEF FetchFails
  <2> QED
    BY <1>0, <1>a, <1>b, <2>3, <2>4 DEF Underway
<1>4. ASSUME Observe
      PROVE  BacktestTypeOK' /\ Underway'
  <2> DEFINE row == Score(ObservationOf(Case), CamsOf(Case))
             whole == Complete(Case)
             case == Case
  <2>1. row \in Scores /\ case \in Cases
    BY <1>4, ScoreType, CaseIsACase DEF Observe
  <2>2. whole \in BOOLEAN
    BY DEF Complete, Placed, Held
  <2>3. run' = [run EXCEPT !.next = @ + 1, !.down = {}, !.whole = @ /\ whole, !.rows[case] = row]
    BY <1>4 DEF Observe
  <2> HIDE DEF row, whole, case
  <2>4. RunOK(run') /\ run'.failures = run.failures /\ run'.at = run.at
          /\ run'.forecaster = run.forecaster
    BY <1>0, <2>1, <2>2, <2>3 DEF RunOK, NoRun
  <2>5. UNCHANGED <<disk, complete, runs, faults>>
    BY <1>4 DEF Observe
  <2> QED
    BY <1>0, <1>a, <1>b, <2>4, <2>5 DEF Underway
<1>5. ASSUME ArchiveUnreadable \/ AnswerUnreadable \/ Report
      PROVE  BacktestTypeOK' /\ Underway'
  <2>1. run' = NoRun /\ UNCHANGED <<disk, complete, runs, faults>>
    BY <1>5 DEF ArchiveUnreadable, AnswerUnreadable, Report
  <2> QED
    BY <1>0, <1>a, <2>1, NoRunType DEF Underway
<1>6. ASSUME Pick
      PROVE  BacktestTypeOK' /\ Underway'
  <2> DEFINE todo == AgentCases(run.rows)
  <2>1. todo \in Seq(Cases)
    BY AgentCasesInOrder
  <2>2. /\ run' = [run EXCEPT !.at = "asking", !.next = 1, !.todo = todo] /\ run.at = "observing"
        /\ UNCHANGED <<disk, complete, runs, faults>>
    BY <1>6 DEF Pick
  <2> HIDE DEF todo
  <2>3. RunOK(run') /\ run'.failures = run.failures /\ run'.forecaster = run.forecaster
    BY <1>0, <2>1, <2>2 DEF RunOK, NoRun
  <2> QED
    BY <1>0, <1>a, <1>b, <2>2, <2>3 DEF Underway
<1>7. ASSUME FromDisk
      PROVE  BacktestTypeOK' /\ Underway'
  <2> DEFINE answer == disk[SubjectFile]
             case == Subject
  <2>1. case \in Cases /\ Held(SubjectFile) /\ SubjectFile = <<"answer", case, run.forecaster>>
    BY <1>7, SubjectIsACase DEF FromDisk, SubjectFile, AnswerFile
  <2>2. run.forecaster \in Forecasters
    BY <1>7, <1>b DEF FromDisk, Asking
  <2>3. answer \in Told
    BY <1>0, <2>1, <2>2 DEF Held, Answered
  <2>4. /\ run' = [run EXCEPT !.next = @ + 1, !.answers[case] = answer]
        /\ UNCHANGED <<disk, complete, runs, faults>>
    BY <1>7 DEF FromDisk
  <2> HIDE DEF answer, case
  <2>5. RunOK(run') /\ run'.failures = run.failures /\ run'.at = run.at
          /\ run'.forecaster = run.forecaster
    BY <1>0, <2>1, <2>3, <2>4 DEF RunOK, NoRun
  <2> QED
    BY <1>0, <1>a, <1>b, <2>4, <2>5 DEF Underway
<1>8. ASSUME Skip
      PROVE  BacktestTypeOK' /\ Underway'
  <2>1. run' = [run EXCEPT !.next = @ + 1] /\ UNCHANGED <<disk, complete, runs, faults>>
    BY <1>8 DEF Skip
  <2>2. RunOK(run') /\ run'.failures = run.failures /\ run'.at = run.at
          /\ run'.forecaster = run.forecaster
    BY <1>0, <2>1 DEF RunOK, NoRun
  <2> QED
    BY <1>0, <1>a, <1>b, <2>1, <2>2 DEF Underway
<1>9. ASSUME Fail
      PROVE  BacktestTypeOK' /\ Underway'
  <2>1. PICK cost \in Costs :
          run' = [run EXCEPT !.next = @ + 1, !.at = IF run.failures = 2 THEN "stopped" ELSE @,
                             !.spent = @ + Charged, !.used = @ + cost, !.failures = @ + 1]
    BY <1>9 DEF Fail
  <2>2. cost \in Nat /\ run.at = "asking"
    BY <1>9, CallsAssumption DEF Fail, Affordable, Asking
  <2>3. run.failures \in 0 .. 2
    BY <2>2, <1>b
  <2>4. /\ RunOK(run') /\ run'.forecaster = run.forecaster
        /\ run'.failures = run.failures + 1
        /\ run'.at = IF run.failures = 2 THEN "stopped" ELSE "asking"
    BY <1>0, <2>1, <2>2, <2>3 DEF RunOK, NoRun, Charged
  <2>5. UNCHANGED <<disk, complete, runs, faults>>
    BY <1>9 DEF Fail
  <2> QED
    BY <1>0, <1>a, <1>b, <2>2, <2>3, <2>4, <2>5 DEF Underway
<1>10. ASSUME Kill
       PROVE  BacktestTypeOK' /\ Underway'
  <2>1. disk' = disk \/ \E f \in Open : disk' = [disk EXCEPT ![f] = Torn]
    BY <1>10 DEF Kill
  <2>2. DOMAIN disk' = Files /\ Answered(disk')
    <3>1. CASE disk' = disk
      BY <1>0, <3>1
    <3>2. ASSUME NEW f \in Open, disk' = [disk EXCEPT ![f] = Torn]
          PROVE  DOMAIN disk' = Files /\ Answered(disk')
      <4>1. DOMAIN disk' = Files /\ \A g \in Files : disk'[g] \in {disk[g], Torn}
        BY <1>0, <3>2
      <4>2. \A c \in Cases, k \in Forecasters : <<"answer", c, k>> \in Files
        BY DEF Files
      <4> QED
        BY <1>0, <4>1, <4>2 DEF Answered
    <3> QED
      BY <2>1, <3>1, <3>2
  <2>3. faults' \in 0 .. MaxFaults /\ run' = NoRun /\ UNCHANGED <<complete, runs>>
    BY <1>0, <1>10, BoundsOfRuns DEF Kill
  <2> QED
    BY <1>0, <1>a, <2>2, <2>3, NoRunType DEF Underway
<1>11. ASSUME Arrive
       PROVE  BacktestTypeOK' /\ Underway'
  <2>1. complete' = TRUE /\ UNCHANGED <<disk, run, runs, faults>>
    BY <1>11 DEF Arrive
  <2> QED
    BY <1>0, <1>a, <1>b, <2>1 DEF Underway
<1> QED
  BY <1>1, <1>2, <1>3, <1>4, <1>5, <1>6, <1>7, <1>8, <1>9, <1>10, <1>11 DEF BacktestNext

LEMMA BacktestTypeInductive ==
    /\ BacktestInit => BacktestTypeOK /\ Underway
    /\ BacktestTypeOK /\ Underway /\ [BacktestNext]_backtestVars => (BacktestTypeOK /\ Underway)'
<1>1. ASSUME BacktestInit
      PROVE  BacktestTypeOK /\ Underway
  <2>1. 0 \in 0 .. MaxRuns /\ 0 \in 0 .. MaxFaults
    BY BoundsOfRuns
  <2>2. \A c \in Cases, k \in Forecasters : <<"answer", c, k>> \in Files
    BY DEF Files
  <2>3. PICK answers \in [PastAnswers -> Told \cup {Torn}] :
          disk = [f \in Files |->
                    IF f[1] = "answer" /\ <<f[2], f[3]>> \in PastAnswers THEN answers[<<f[2], f[3]>>]
                    ELSE None]
    BY <1>1 DEF BacktestInit
  <2>4. \A c \in Cases, k \in Forecasters : disk[<<"answer", c, k>>] \in Told \cup {None, Torn}
    BY <2>2, <2>3
  <2>5. run = NoRun /\ complete = FALSE /\ runs = 0 /\ faults = 0
    BY <1>1 DEF BacktestInit
  <2>6. RunOK(run) /\ Underway
    BY <2>5, NoRunType DEF Underway
  <2> QED
    BY <2>1, <2>3, <2>4, <2>5, <2>6 DEF BacktestTypeOK
<1>2. ASSUME BacktestTypeOK, Underway, UNCHANGED backtestVars
      PROVE  (BacktestTypeOK /\ Underway)'
  BY <1>2 DEF BacktestTypeOK, Underway, backtestVars, Files
<1> QED
  BY <1>1, <1>2, BacktestTypeStep

\* The types of the backtest's state: what a cache file may hold, and what a run
\* may carry from its first case to its report.
THEOREM BacktestTypes == BacktestSpec => []BacktestTypeOK
<1>1. BacktestSpec => [](BacktestTypeOK /\ Underway)
  BY BacktestTypeInductive, PTL DEF BacktestSpec
<1> QED
  BY <1>1, PTL

-----------------------------------------------------------------------------
(* The budget of a run.  Every asking fails and is charged three requests,   *)
(* whatever it took: what is spent counts the failures, of which the budget  *)
(* has room for one in three requests and a run stands three.                *)

Dearest == Max(Costs)

Budget ==
    /\ run.used <= run.failures * Dearest
    /\ run.spent = 3 * run.failures
    /\ run.spent <= run.budget
    /\ run.at \in {"off", "observing"} => run.failures = 0 /\ run.used = 0

LEMMA DearestIsABound ==
    Dearest \in Nat /\ \A c \in Costs : c \in Nat /\ c <= Dearest
<1>1. IsFiniteSet(Costs) /\ Costs # {} /\ Costs \subseteq Int /\ \A c \in Costs : c \in Nat
  BY CallsAssumption
<1>2. Max(Costs) \in Costs /\ \A c \in Costs : c <= Max(Costs)
  BY <1>1, MaxOfFinite
<1> QED
  BY <1>1, <1>2 DEF Dearest

LEMMA CountsOfARun ==
    ASSUME BacktestTypeOK
    PROVE  /\ run.spent \in Nat /\ run.used \in Nat
           /\ run.failures \in 0 .. 3 /\ run.budget \in Nat
<1>1. run.spent \in Nat /\ run.used \in Nat /\ run.failures \in 0 .. 3
  BY DEF BacktestTypeOK, RunOK
<1>2. run.budget \in Budgets \cup {0}
  BY DEF BacktestTypeOK, RunOK
<1>3. \A b \in Budgets \cup {0} : b \in Nat
  BY CallsAssumption
<1> QED
  BY <1>1, <1>2, <1>3

LEMMA BudgetStep ==
    ASSUME BacktestTypeOK, Underway, Budget, BacktestNext
    PROVE  Budget'
<1>0. /\ RunOK(run) /\ Dearest \in Nat
      /\ run.spent \in Nat /\ run.used \in Nat /\ run.failures \in 0 .. 3 /\ run.budget \in Nat
  BY DearestIsABound, CountsOfARun DEF BacktestTypeOK
<1>a. ASSUME run'.spent = run.spent, run'.used = run.used, run'.failures = run.failures,
             run'.budget = run.budget,
             run'.at = run.at \/ run'.at \notin {"off", "observing"}
      PROVE  Budget'
  BY <1>a DEF Budget, Dearest
<1>b. ASSUME run'.spent = 0, run'.used = 0, run'.failures = 0, run'.budget \in Nat
      PROVE  Budget'
  BY <1>0, <1>b DEF Budget, Dearest
<1>1. ASSUME Start
      PROVE  Budget'
  <2>1. PICK k \in Forecasters, budget \in Budgets :
          run' = [NoRun EXCEPT !.at = "observing", !.forecaster = k, !.budget = budget]
    BY <1>1 DEF Start
  <2>2. budget \in Nat
    BY CallsAssumption
  <2> QED
    BY <1>b, <2>1, <2>2 DEF NoRun
<1>2. ASSUME Fetch \/ Arrive
      PROVE  Budget'
  BY <1>a, <1>2 DEF Fetch, Arrive
<1>3. ASSUME FetchFails \/ Observe \/ FromDisk \/ Skip
      PROVE  Budget'
  <2>1. /\ run'.spent = run.spent /\ run'.used = run.used /\ run'.budget = run.budget
        /\ run'.failures = run.failures /\ run'.at = run.at
    <3>1. CASE FetchFails
      BY <1>0, <3>1 DEF FetchFails, RunOK, NoRun
    <3>2. CASE Observe
      BY <1>0, <3>2 DEF Observe, RunOK, NoRun
    <3>3. CASE FromDisk
      BY <1>0, <3>3 DEF FromDisk, RunOK, NoRun
    <3>4. CASE Skip
      BY <1>0, <3>4 DEF Skip, RunOK, NoRun
    <3> QED
      BY <1>3, <3>1, <3>2, <3>3, <3>4
  <2> QED
    BY <1>a, <2>1
<1>4. ASSUME Pick
      PROVE  Budget'
  <2>1. /\ run'.spent = run.spent /\ run'.used = run.used /\ run'.budget = run.budget
        /\ run'.failures = run.failures /\ run'.at = "asking"
    BY <1>0, <1>4 DEF Pick, RunOK, NoRun
  <2> QED
    BY <1>a, <2>1
<1>5. ASSUME ArchiveUnreadable \/ AnswerUnreadable \/ Report \/ Kill
      PROVE  Budget'
  <2>1. run' = NoRun
    BY <1>5 DEF ArchiveUnreadable, AnswerUnreadable, Report, Kill
  <2> QED
    BY <1>b, <2>1 DEF NoRun
<1>6. ASSUME Fail
      PROVE  Budget'
  <2>1. PICK cost \in Costs :
          run' = [run EXCEPT !.next = @ + 1, !.at = IF run.failures = 2 THEN "stopped" ELSE @,
                             !.spent = @ + Charged, !.used = @ + cost, !.failures = @ + 1]
    BY <1>6 DEF Fail
  <2>2. run.at = "asking" /\ run.spent + 3 <= run.budget
    BY <1>6 DEF Fail, Affordable, Asking
  <2>3. /\ run'.spent = run.spent + 3 /\ run'.used = run.used + cost
        /\ run'.failures = run.failures + 1 /\ run'.budget = run.budget
        /\ run'.at \in {"asking", "stopped"}
    BY <1>0, <2>1, <2>2 DEF RunOK, NoRun, Charged
  <2>4. cost \in Nat /\ cost <= Dearest
    BY DearestIsABound
  <2>5. /\ run.failures * Dearest \in Nat
        /\ (run.failures + 1) * Dearest = run.failures * Dearest + Dearest
    BY <1>0
  <2>6. run.used <= run.failures * Dearest /\ run.spent = 3 * run.failures
    BY DEF Budget
  <2>7. /\ run.used + cost <= (run.failures + 1) * Dearest
        /\ run.spent + 3 = 3 * (run.failures + 1)
    BY <1>0, <2>4, <2>5, <2>6
  <2> QED
    BY <2>2, <2>3, <2>7 DEF Budget, Dearest
<1> QED
  BY <1>1, <1>2, <1>3, <1>4, <1>5, <1>6 DEF BacktestNext

LEMMA BudgetInductive ==
    /\ BacktestInit => Budget
    /\ BacktestTypeOK /\ Underway /\ Budget /\ [BacktestNext]_backtestVars => Budget'
    /\ BacktestTypeOK /\ Budget => WithinBudget
<1>1. ASSUME BacktestInit
      PROVE  Budget
  <2>1. run = NoRun /\ Dearest \in Nat
    BY <1>1, DearestIsABound DEF BacktestInit
  <2> QED
    BY <2>1 DEF Budget, NoRun
<1>2. ASSUME Budget, UNCHANGED backtestVars
      PROVE  Budget'
  BY <1>2 DEF Budget, Dearest, backtestVars
<1>3. ASSUME BacktestTypeOK, Budget
      PROVE  WithinBudget
  <2> DEFINE askings == Min({3, run.budget \div 3})
  <2>1. /\ run.used \in Nat /\ run.failures \in 0 .. 3 /\ run.budget \in Nat
        /\ Dearest \in Nat
    BY <1>3, DearestIsABound, CountsOfARun
  <2>2. run.used <= run.failures * Dearest /\ 3 * run.failures <= run.budget
    BY <1>3, <2>1 DEF Budget
  <2>3. run.budget \div 3 \in Nat /\ run.failures <= run.budget \div 3
    BY <2>1, <2>2
  <2>4. askings \in Nat /\ run.failures <= askings
    <3>1. \A a, b \in Int : Min({a, b}) \in {a, b}
      BY MinOfTwo, Zenon
    <3>2. 3 \in Int /\ run.budget \div 3 \in Int
      BY <2>3
    <3>3. askings \in {3, run.budget \div 3}
      BY <3>1, <3>2, Zenon
    <3> HIDE DEF askings
    <3> QED
      BY <2>1, <2>3, <3>3
  <2> HIDE DEF askings
  <2>5. run.failures * Dearest <= Dearest * askings
    BY <2>1, <2>4
  <2>6. Dearest * askings \in Nat /\ run.failures * Dearest \in Nat
    BY <2>1, <2>4
  <2>7. run.used <= Dearest * askings
    BY <2>1, <2>2, <2>5, <2>6
  <2> QED
    BY <2>7 DEF WithinBudget, Dearest, askings
<1> QED
  BY <1>1, <1>2, <1>3, BudgetStep

\* "Model requests to spend at most": whatever one asking takes, a run takes no
\* more than three of them do, or one for every three requests of its budget.
THEOREM RunsStayWithinBudget == BacktestSpec => []WithinBudget
<1>1. BacktestSpec => [](BacktestTypeOK /\ Underway /\ Budget)
  BY BacktestTypeInductive, BudgetInductive, PTL DEF BacktestSpec
<1> QED
  BY <1>1, BudgetInductive, PTL

-----------------------------------------------------------------------------
(* The cache.  A file is only written where there is none.                   *)

\* What a step may do to the cache: nothing, or fill one file that is not there.
OneFileFilled ==
    \/ disk' = disk
    \/ \E f \in Files : disk[f] = None /\ \E x : disk' = [disk EXCEPT ![f] = x]

LEMMA FilesAreWrittenOnce ==
    ASSUME BacktestTypeOK, Underway, BacktestNext
    PROVE  OneFileFilled
<1>1. CASE Fetch
  <2>1. PICK f \in Due(Case) : disk' = [disk EXCEPT ![f] = Fetched(f)]
    BY <1>1 DEF Fetch
  <2>2. f \in Files /\ disk[f] = None
    BY <1>1, CaseIsACase, DueIsUntried DEF Fetch, Untried
  <2> QED
    BY <2>1, <2>2 DEF OneFileFilled
<1>2. CASE Kill
  <2>1. disk' = disk \/ \E f \in Open : disk' = [disk EXCEPT ![f] = Torn]
    BY <1>2 DEF Kill
  <2>2. ASSUME NEW f \in Open
        PROVE  f \in Files /\ disk[f] = None
    <3>1. Observing /\ f \in Due(Case)
      BY <2>2 DEF Open
    <3> QED
      BY <3>1, CaseIsACase, DueIsUntried DEF Untried
  <2> QED
    BY <2>1, <2>2 DEF OneFileFilled
<1>3. CASE \/ Start \/ FetchFails \/ Observe \/ ArchiveUnreadable \/ Pick \/ FromDisk
           \/ AnswerUnreadable \/ Skip \/ Fail \/ Report \/ Arrive
  BY <1>3 DEF OneFileFilled, Start, FetchFails, Observe, ArchiveUnreadable, Pick, FromDisk,
              AnswerUnreadable, Skip, Fail, Report, Arrive
<1> QED
  BY <1>1, <1>2, <1>3 DEF BacktestNext

LEMMA HeldFilesStay ==
    ASSUME BacktestTypeOK, OneFileFilled
    PROVE  \A f \in Files : disk[f] # None => disk'[f] = disk[f]
  BY DEF OneFileFilled, BacktestTypeOK

-----------------------------------------------------------------------------
(* What a run asks the forecaster about: the cases in the order they were    *)
(* drawn in when the last of them had been observed.                         *)

DrawnOnce ==
    /\ run.at \in {"off", "observing"} => run.todo = <<>>
    /\ run.at \in {"asking", "stopped"} => run.todo = AgentCases(run.rows)

LEMMA DrawnOnceStep ==
    ASSUME BacktestTypeOK, DrawnOnce, BacktestNext
    PROVE  DrawnOnce'
<1>0. RunOK(run)
  BY DEF BacktestTypeOK
<1>a. ASSUME run'.todo = run.todo, run'.rows = run.rows,
             \/ run'.at = run.at
             \/ run.at = "asking" /\ run'.at \in {"asking", "stopped"}
      PROVE  DrawnOnce'
  BY <1>a DEF DrawnOnce
<1>b. ASSUME run'.todo = <<>>, run'.at \in {"off", "observing"}
      PROVE  DrawnOnce'
  BY <1>b DEF DrawnOnce
<1>1. ASSUME Start
      PROVE  DrawnOnce'
  <2>1. PICK k \in Forecasters, budget \in Budgets :
          run' = [NoRun EXCEPT !.at = "observing", !.forecaster = k, !.budget = budget]
    BY <1>1 DEF Start
  <2> QED
    BY <1>b, <2>1 DEF NoRun
<1>2. ASSUME Fetch \/ Arrive
      PROVE  DrawnOnce'
  BY <1>a, <1>2 DEF Fetch, Arrive
<1>3. ASSUME FetchFails \/ FromDisk \/ Skip
      PROVE  DrawnOnce'
  <2>1. run'.todo = run.todo /\ run'.rows = run.rows /\ run'.at = run.at
    <3>1. CASE FetchFails
      BY <1>0, <3>1 DEF FetchFails, RunOK, NoRun
    <3>2. CASE FromDisk
      BY <1>0, <3>2 DEF FromDisk, RunOK, NoRun
    <3>3. CASE Skip
      BY <1>0, <3>3 DEF Skip, RunOK, NoRun
    <3> QED
      BY <1>3, <3>1, <3>2, <3>3
  <2> QED
    BY <1>a, <2>1
<1>4. ASSUME Observe
      PROVE  DrawnOnce'
  <2>1. run'.todo = run.todo /\ run'.at = run.at /\ run.at = "observing"
    BY <1>0, <1>4 DEF Observe, Observing, RunOK, NoRun
  <2> QED
    BY <1>b, <2>1 DEF DrawnOnce
<1>5. ASSUME Pick
      PROVE  DrawnOnce'
  <2> DEFINE todo == AgentCases(run.rows)
  <2>1. run' = [run EXCEPT !.at = "asking", !.next = 1, !.todo = todo]
    BY <1>5 DEF Pick
  <2> HIDE DEF todo
  <2>2. run'.todo = todo /\ run'.rows = run.rows /\ run'.at = "asking"
    BY <1>0, <2>1 DEF RunOK, NoRun
  <2>3. AgentCases(run'.rows) = todo
    BY <2>2 DEF todo
  <2> QED
    BY <2>2, <2>3 DEF DrawnOnce
<1>6. ASSUME Fail
      PROVE  DrawnOnce'
  <2>1. /\ run'.todo = run.todo /\ run'.rows = run.rows
        /\ run.at = "asking" /\ run'.at \in {"asking", "stopped"}
    BY <1>0, <1>6 DEF Fail, Affordable, Asking, RunOK, NoRun
  <2> QED
    BY <1>a, <2>1
<1>7. ASSUME ArchiveUnreadable \/ AnswerUnreadable \/ Report \/ Kill
      PROVE  DrawnOnce'
  <2>1. run' = NoRun
    BY <1>7 DEF ArchiveUnreadable, AnswerUnreadable, Report, Kill
  <2> QED
    BY <1>b, <2>1 DEF NoRun
<1> QED
  BY <1>1, <1>2, <1>3, <1>4, <1>5, <1>6, <1>7 DEF BacktestNext

LEMMA DrawnOnceInductive ==
    /\ BacktestInit => DrawnOnce
    /\ BacktestTypeOK /\ DrawnOnce /\ [BacktestNext]_backtestVars => DrawnOnce'
    /\ BacktestTypeOK /\ DrawnOnce => SampleIsSpread
<1>1. ASSUME BacktestInit
      PROVE  DrawnOnce
  <2>1. run = NoRun
    BY <1>1 DEF BacktestInit
  <2> QED
    BY <2>1 DEF DrawnOnce, NoRun
<1>2. ASSUME DrawnOnce, UNCHANGED backtestVars
      PROVE  DrawnOnce'
  BY <1>2 DEF DrawnOnce, backtestVars
<1>3. ASSUME BacktestTypeOK, DrawnOnce
      PROVE  SampleIsSpread
  <2> SUFFICES ASSUME NEW n \in DOMAIN run.todo, NEW g \in Groups
               PROVE  Cardinality(DrawnOf(run.todo, g, n))
                        >= Min({Cardinality(DrawnOf(run.todo, g, Len(run.todo))),
                                Share(g) * (n \div Len(Pattern))})
    BY DEF SampleIsSpread, DrawnOf
  <2>1. run.at \in {"off", "observing", "asking", "stopped"}
    BY <1>3 DEF BacktestTypeOK, RunOK
  <2>2. run.todo = AgentCases(run.rows)
    BY <1>3, <2>1 DEF DrawnOnce
  <2> QED
    BY <2>2, GroupsHaveTheirShare
<1> QED
  BY <1>1, <1>2, <1>3, DrawnOnceStep

\* "Two burning-season cases for every one elsewhere or later", wherever the budget
\* runs out: each group has had its share of the rounds gone by, or has nothing
\* left, for every pattern and however many cases each group has.
THEOREM TheSampleIsSpread == BacktestSpec => []SampleIsSpread
<1>1. BacktestSpec => [](BacktestTypeOK /\ Underway /\ DrawnOnce)
  BY BacktestTypeInductive, DrawnOnceInductive, PTL DEF BacktestSpec
<1> QED
  BY <1>1, DrawnOnceInductive, PTL

-----------------------------------------------------------------------------
(* The rows of a run that could read all it asked for.  Such a row is made   *)
(* of files that are held, and no file that is held ever changes, so that    *)
(* whichever run comes to the case again makes the same row of it.           *)

RowOf(c) == Score(ObservationOf(c), CamsOf(c))

Ready(c) ==
    /\ Complete(c)
    /\ ObservationOf(c).status = "scored" => Held(<<"cams", c>>)

LEMMA AskedAreSensors ==
    ASSUME NEW c \in Cases, NEW read
    PROVE  SensorsAsked(Near(c), read) \subseteq Sensors
<1> SUFFICES ASSUME NEW s \in SensorsAsked(Near(c), read)
             PROVE  s \in Sensors
  OBVIOUS
<1>1. PICK p \in Tried(Near(c), read) : \E i \in Consulted(Near(c), Pollutants[p], read) :
        s \in AskedOf(Near(c)[i], Pollutants[p], read)
  BY DEF SensorsAsked
<1>2. PICK i \in Consulted(Near(c), Pollutants[p], read) :
        s \in AskedOf(Near(c)[i], Pollutants[p], read)
  BY <1>1
<1>3. p \in DOMAIN Pollutants /\ i \in DOMAIN Near(c)
  BY DEF Tried, Consulted
<1>4. s \in Near(c)[i].sensors[Pollutants[p]]
  BY <1>2 DEF AskedOf
<1> QED
  BY <1>3, <1>4, NearIsListed

LEMMA HoursStay ==
    ASSUME NEW c \in Cases, NEW s \in Sensors, HoursRead(c, s) # None,
           \A f \in Files : disk[f] # None => disk'[f] = disk[f]
    PROVE  HoursRead(c, s)' = HoursRead(c, s)
<1>1. ASSUME NEW m \in MonthsOf(c)
      PROVE  Held(<<"hours", s, m>>) /\ disk'[<<"hours", s, m>>] = disk[<<"hours", s, m>>]
  <2>1. Held(<<"hours", s, m>>)
    BY DEF HoursRead
  <2>2. <<"hours", s, m>> \in Files
    BY MonthsOfACase DEF Files
  <2> QED
    BY <2>1, <2>2 DEF Held
<1>2. \A m \in MonthsOf(c) : Held(<<"hours", s, m>>)'
  BY <1>1 DEF Held
<1>3. HoursRead(c, s) = UNION {disk[<<"hours", s, m>>] : m \in MonthsOf(c)}
  BY <1>1 DEF HoursRead
<1>4. HoursRead(c, s)' = UNION {disk'[<<"hours", s, m>>] : m \in MonthsOf(c)}
  BY <1>2 DEF HoursRead
<1> QED
  BY <1>1, <1>3, <1>4

LEMMA RowStays ==
    ASSUME NEW c \in Cases, Ready(c),
           \A f \in Files : disk[f] # None => disk'[f] = disk[f]
    PROVE  Ready(c)' /\ RowOf(c)' = RowOf(c)
<1> DEFINE near == Near(c)
           read == ReadBy(c)
           other == [s \in Sensors |-> HoursRead(c, s)']
<1>1. <<"place", CaseOf[c].place>> \in Files /\ <<"cams", c>> \in Files
  BY CasesAssumption DEF Files
<1>2. Placed(c) /\ Placed(c)'
  BY <1>1 DEF Ready, Complete, Placed, Held
<1>3. \A s \in SensorsAsked(near, read) : s \in Sensors /\ HoursRead(c, s) # None
  BY AskedAreSensors DEF Ready, Complete
<1>4. \A s \in SensorsAsked(near, read) : HoursRead(c, s)' = HoursRead(c, s)
  BY <1>3, HoursStay
<1>5. \A s \in SensorsAsked(near, read) : other[s] = read[s]
  BY <1>3, <1>4 DEF ReadBy
<1>6. Listed(near)
  BY NearIsListed
<1> HIDE DEF near, read, other
<1>7. /\ SensorsAsked(near, other) = SensorsAsked(near, read)
      /\ Observation(near, other, CaseOf[c].issued, Horizon)
           = Observation(near, read, CaseOf[c].issued, Horizon)
  BY <1>5, <1>6, ObservationByAsked
<1>8. Near(c)' = near /\ ReadBy(c)' = other
  BY DEF near, other, ReadBy, Near
<1>9. ObservationOf(c)' = ObservationOf(c)
  BY <1>2, <1>7, <1>8 DEF ObservationOf, near, read
<1>10. \A s \in SensorsAsked(near, other) : HoursRead(c, s)' # None
  BY <1>3, <1>4, <1>7
<1>11. Complete(c)'
  BY <1>2, <1>8, <1>10 DEF Complete
<1>12. CASE ObservationOf(c).status # "scored"
  BY <1>9, <1>11, <1>12 DEF Ready, RowOf, Score
<1>13. CASE ObservationOf(c).status = "scored"
  <2>1. Held(<<"cams", c>>) /\ Held(<<"cams", c>>)'
    BY <1>1, <1>13 DEF Ready, Held
  <2>2. CamsOf(c)' = CamsOf(c)
    BY <2>1 DEF CamsOf, Slice
  <2> QED
    BY <1>9, <1>11, <2>1, <2>2 DEF Ready, RowOf
<1> QED
  BY <1>12, <1>13

LEMMA ReadyWhenWhole ==
    ASSUME Observe, run.down = {}, Complete(Case)
    PROVE  Ready(Case)
<1> DEFINE c == Case
<1>1. ASSUME ObservationOf(c).status = "scored"
      PROVE  Held(<<"cams", c>>)
  <2>1. Placed(c) /\ Due(c) = {} /\ disk[<<"cams", c>>] # Torn
    BY <1>1 DEF Observe, Complete
  <2>2. Due(c) = {f \in {<<"cams", c>>} : Untried(f) /\ ObservationOf(c).status = "scored"}
    BY <2>1 DEF Due
  <2>3. ~Untried(<<"cams", c>>)
    BY <1>1, <2>1, <2>2
  <2> QED
    BY <2>1, <2>3 DEF Untried, Held
<1> QED
  BY <1>1 DEF Ready

\* The cases that the run has a row of.
Past(i) == i \in DOMAIN Order /\ (run.at = "observing" => i < run.next)

Settled ==
    /\ settled \in [Cases -> Scores \cup {None}] \cup {None}
    /\ settled # None => \A c \in Cases : Ready(c) /\ settled[c] = RowOf(c)

Rows ==
    /\ run.at # "off" => \A i \in DOMAIN Order : Past(i) =>
         /\ run.whole => Ready(Order[i]) /\ run.rows[Order[i]] = RowOf(Order[i])
         /\ settled # None => run.rows[Order[i]] = settled[Order[i]]
    /\ \A c \in Cases : run.rows[c] # None =>
         run.at # "off" /\ \E i \in DOMAIN Order : Past(i) /\ Order[i] = c
    /\ run.whole => run.down = {}

Repeatable == Settled /\ Rows

LEMMA RepeatableStep ==
    ASSUME BacktestTypeOK, Underway, Repeatable, BacktestNext
    PROVE  Repeatable' /\ (settled # None => settled' = settled)
<1>0. RunOK(run) /\ \A i \in DOMAIN Order : Order[i] \in Cases /\ i \in Nat /\ i >= 1
  BY OrderAssumption DEF BacktestTypeOK
<1>1. \A f \in Files : disk[f] # None => disk'[f] = disk[f]
  BY FilesAreWrittenOnce, HeldFilesStay
<1>2. \A c \in Cases : Ready(c) => Ready(c)' /\ RowOf(c)' = RowOf(c)
  BY <1>1, RowStays
<1>3. ASSUME settled' = settled
      PROVE  Settled'
  BY <1>2, <1>3 DEF Repeatable, Settled
<1>a. ASSUME settled' = settled, run'.rows = run.rows,
             \A i \in DOMAIN Order : Past(i)' <=> Past(i),
             run'.at # "off" <=> run.at # "off",
             run'.whole => run.whole, run'.whole => run'.down = {}
      PROVE  Repeatable' /\ (settled # None => settled' = settled)
  <2>1. Rows
    BY DEF Repeatable
  <2>2. run'.at # "off" => \A i \in DOMAIN Order : Past(i)' =>
          /\ run'.whole => Ready(Order[i])' /\ run'.rows[Order[i]] = RowOf(Order[i])'
          /\ settled' # None => run'.rows[Order[i]] = settled'[Order[i]]
    BY <1>0, <1>2, <1>a, <2>1 DEF Rows
  <2>3. \A c \in Cases : run'.rows[c] # None =>
          run'.at # "off" /\ \E i \in DOMAIN Order : Past(i)' /\ Order[i] = c
    BY <1>a, <2>1 DEF Rows
  <2>4. Rows'
    BY <1>a, <2>2, <2>3 DEF Rows
  <2> QED
    BY <1>3, <1>a, <2>4 DEF Repeatable
<1>b. ASSUME settled' = settled, run'.rows = [c \in Cases |-> None], run'.down = {},
             run'.at = "off" \/ (run'.at = "observing" /\ run'.next = 1)
      PROVE  Repeatable' /\ (settled # None => settled' = settled)
  <2>1. run'.at # "off" => \A i \in DOMAIN Order : ~Past(i)'
    BY <1>0, <1>b DEF Past
  <2>2. Rows'
    BY <1>b, <2>1 DEF Rows
  <2> QED
    BY <1>3, <1>b, <2>2 DEF Repeatable
<1>4. ASSUME Start
      PROVE  Repeatable' /\ (settled # None => settled' = settled)
  <2>1. PICK k \in Forecasters, budget \in Budgets :
          run' = [NoRun EXCEPT !.at = "observing", !.forecaster = k, !.budget = budget]
    BY <1>4 DEF Start
  <2>2. /\ run'.rows = [c \in Cases |-> None] /\ run'.down = {}
        /\ run'.at = "observing" /\ run'.next = 1
    BY <2>1 DEF NoRun
  <2>3. settled' = settled
    BY <1>4 DEF Start
  <2> QED
    BY <1>b, <2>2, <2>3
<1>5. ASSUME ArchiveUnreadable \/ AnswerUnreadable \/ Report \/ Kill
      PROVE  Repeatable' /\ (settled # None => settled' = settled)
  <2>1. run' = NoRun /\ settled' = settled
    BY <1>5 DEF ArchiveUnreadable, AnswerUnreadable, Report, Kill
  <2> QED
    BY <1>b, <2>1 DEF NoRun
<1>6. ASSUME Fetch \/ Arrive
      PROVE  Repeatable' /\ (settled # None => settled' = settled)
  <2>1. run' = run /\ settled' = settled
    BY <1>6 DEF Fetch, Arrive
  <2> QED
    BY <1>a, <2>1 DEF Past, Repeatable, Rows
<1>7. ASSUME FetchFails
      PROVE  Repeatable' /\ (settled # None => settled' = settled)
  <2>1. /\ run'.rows = run.rows /\ run'.at = run.at /\ run'.next = run.next
        /\ run'.whole = FALSE /\ settled' = settled
    BY <1>0, <1>7 DEF FetchFails, RunOK, NoRun
  <2> QED
    BY <1>a, <2>1 DEF Past
<1>8. ASSUME FromDisk \/ Skip \/ Fail
      PROVE  Repeatable' /\ (settled # None => settled' = settled)
  <2>1. /\ run'.rows = run.rows /\ run'.whole = run.whole /\ run'.down = run.down
        /\ run.at = "asking" /\ run'.at \in {"asking", "stopped"} /\ settled' = settled
    <3>1. CASE FromDisk
      BY <1>0, <3>1 DEF FromDisk, Asking, RunOK, NoRun
    <3>2. CASE Skip
      BY <1>0, <3>2 DEF Skip, Asking, RunOK, NoRun
    <3>3. CASE Fail
      BY <1>0, <3>3 DEF Fail, Affordable, Asking, RunOK, NoRun
    <3> QED
      BY <1>8, <3>1, <3>2, <3>3
  <2>2. run.whole => run.down = {}
    BY DEF Repeatable, Rows
  <2> QED
    BY <1>a, <2>1, <2>2 DEF Past
<1>9. ASSUME Observe
      PROVE  Repeatable' /\ (settled # None => settled' = settled)
  <2> DEFINE row == Score(ObservationOf(Case), CamsOf(Case))
             readAll == Complete(Case)
  <2>0. PICK case \in Cases : case = Case
    BY <1>9, CaseIsACase DEF Observe
  <2>1. /\ run.next \in DOMAIN Order /\ case = Order[run.next]
        /\ run.at = "observing"
    BY <1>9, <2>0, CaseIsACase DEF Observe, Observing, Case
  <2>2. /\ run' = [run EXCEPT !.next = @ + 1, !.down = {}, !.whole = @ /\ readAll,
                              !.rows[case] = row]
        /\ disk' = disk /\ settled' = settled
    BY <1>9, <2>0 DEF Observe
  <2>3. row = RowOf(case) /\ (run.down = {} /\ readAll => Ready(case))
    BY <1>9, <2>0, ReadyWhenWhole DEF RowOf
  <2> HIDE DEF row, readAll
  <2>4. /\ run'.at = "observing" /\ run'.next = run.next + 1 /\ run'.down = {}
        /\ run'.rows = [run.rows EXCEPT ![case] = row]
        /\ run'.whole = (run.whole /\ readAll)
    BY <1>0, <2>1, <2>2 DEF RunOK, NoRun
  <2>5. run.rows \in [Cases -> Scores \cup {None}] /\ run.next \in Nat
    BY <1>0 DEF RunOK
  <2>6. /\ run'.rows[case] = row
        /\ \A c \in Cases : c # case => run'.rows[c] = run.rows[c]
    BY <2>1, <2>4, <2>5
  <2>7. \A i \in DOMAIN Order : Past(i)' <=> Past(i) \/ i = run.next
    BY <1>0, <2>1, <2>4, <2>5 DEF Past
  <2>8. Rows /\ Settled /\ Settled'
    BY <1>3, <2>2 DEF Repeatable
  <2>9. ASSUME NEW i \in DOMAIN Order, Past(i)'
        PROVE  /\ run'.whole => Ready(Order[i])' /\ run'.rows[Order[i]] = RowOf(Order[i])'
               /\ settled' # None => run'.rows[Order[i]] = settled'[Order[i]]
    <3>1. CASE Order[i] = case
      <4>1. run'.whole => Ready(case)
        BY <2>3, <2>4, <2>8 DEF Rows
      <4>2. run'.whole => Ready(case)' /\ RowOf(case)' = RowOf(case)
        BY <1>2, <2>1, <4>1
      <4>3. settled # None => settled[case] = RowOf(case)
        BY <2>1, <2>8 DEF Settled
      <4> QED
        BY <2>2, <2>3, <2>6, <3>1, <4>2, <4>3
    <3>2. CASE Order[i] # case
      <4>1. Past(i) /\ Order[i] \in Cases /\ run'.rows[Order[i]] = run.rows[Order[i]]
        BY <1>0, <2>1, <2>6, <2>7, <2>9, <3>2
      <4>2. /\ run.whole => Ready(Order[i]) /\ run.rows[Order[i]] = RowOf(Order[i])
            /\ settled # None => run.rows[Order[i]] = settled[Order[i]]
        BY <2>1, <2>8, <4>1 DEF Rows
      <4>3. run.whole => Ready(Order[i])' /\ RowOf(Order[i])' = RowOf(Order[i])
        BY <1>2, <4>1, <4>2
      <4> QED
        BY <2>2, <2>4, <4>1, <4>2, <4>3
    <3> QED
      BY <3>1, <3>2
  <2>10. \A c \in Cases : run'.rows[c] # None => \E i \in DOMAIN Order : Past(i)' /\ Order[i] = c
    <3> SUFFICES ASSUME NEW c \in Cases, run'.rows[c] # None
                 PROVE  \E i \in DOMAIN Order : Past(i)' /\ Order[i] = c
      OBVIOUS
    <3>1. CASE c = case
      BY <2>1, <2>7, <3>1
    <3>2. CASE c # case
      <4>1. PICK i \in DOMAIN Order : Past(i) /\ Order[i] = c
        BY <2>6, <2>8, <3>2 DEF Rows
      <4> QED
        BY <2>7, <4>1
    <3> QED
      BY <3>1, <3>2
  <2>11. Rows'
    BY <2>4, <2>9, <2>10 DEF Rows
  <2> QED
    BY <2>2, <2>8, <2>11 DEF Repeatable
<1>10. ASSUME Pick
       PROVE  Repeatable' /\ (settled # None => settled' = settled)
  <2>1. /\ run'.rows = run.rows /\ run'.whole = run.whole /\ run'.down = run.down
        /\ run'.at = "asking" /\ run.at = "observing" /\ run.next > Len(Order)
        /\ settled' = IF settled = None /\ run.whole THEN run.rows ELSE settled
    BY <1>0, <1>10 DEF Pick, RunOK, NoRun
  <2>2. \A i \in DOMAIN Order : Past(i) /\ Past(i)'
    <3>1. \A i \in DOMAIN Order : i <= Len(Order) /\ i \in Nat /\ Len(Order) \in Nat
      BY OrderAssumption
    <3>2. run.next \in Nat
      BY <1>0 DEF RunOK
    <3> QED
      BY <2>1, <3>1, <3>2 DEF Past
  <2>3. CASE settled = None /\ run.whole
    <3>1. \A c \in Cases : Ready(c) /\ run.rows[c] = RowOf(c)
      <4> SUFFICES ASSUME NEW c \in Cases
                   PROVE  Ready(c) /\ run.rows[c] = RowOf(c)
        OBVIOUS
      <4>1. PICK i \in DOMAIN Order : Order[i] = c
        BY OrderAssumption
      <4> QED
        BY <2>1, <2>2, <2>3, <4>1 DEF Repeatable, Rows
    <3>2. settled' = run.rows /\ run.rows \in [Cases -> Scores \cup {None}]
      BY <1>0, <2>1, <2>3 DEF RunOK
    <3>3. \A c \in Cases : Ready(c)' /\ settled'[c] = RowOf(c)'
      BY <1>2, <3>1, <3>2
    <3>4. Settled'
      BY <3>2, <3>3 DEF Settled
    <3>5. /\ \A i \in DOMAIN Order :
               /\ Ready(Order[i])' /\ run'.rows[Order[i]] = RowOf(Order[i])'
               /\ run'.rows[Order[i]] = settled'[Order[i]]
          /\ \A c \in Cases : run'.rows[c] # None => \E i \in DOMAIN Order : Past(i)' /\ Order[i] = c
          /\ run'.down = {}
      BY <1>0, <2>1, <2>2, <2>3, <3>2, <3>3, OrderAssumption DEF Repeatable, Rows
    <3>6. Rows'
      BY <2>1, <3>5 DEF Rows
    <3> QED
      BY <2>3, <3>4, <3>6 DEF Repeatable
  <2>4. CASE ~(settled = None /\ run.whole)
    <3>1. run.whole => run.down = {}
      BY DEF Repeatable, Rows
    <3> QED
      BY <1>a, <2>1, <2>2, <2>4, <3>1
  <2> QED
    BY <2>3, <2>4
<1> QED
  BY <1>4, <1>5, <1>6, <1>7, <1>8, <1>9, <1>10 DEF BacktestNext

LEMMA RepeatableInductive ==
    /\ BacktestInit => Repeatable
    /\ BacktestTypeOK /\ Underway /\ Repeatable /\ [BacktestNext]_backtestVars => Repeatable'
<1>1. ASSUME BacktestInit
      PROVE  Repeatable
  <2>1. run = NoRun /\ settled = None
    BY <1>1 DEF BacktestInit
  <2> QED
    BY <2>1 DEF Repeatable, Settled, Rows, NoRun
<1>2. ASSUME BacktestTypeOK, Repeatable, UNCHANGED backtestVars
      PROVE  Repeatable'
  <2>1. run' = run /\ settled' = settled /\ disk' = disk
    BY <1>2 DEF backtestVars
  <2>2. \A c \in Cases : Ready(c) => Ready(c)' /\ RowOf(c)' = RowOf(c)
    BY <2>1, RowStays
  <2>3. Settled'
    BY <1>2, <2>1, <2>2 DEF Repeatable, Settled
  <2>4. Rows'
    BY <1>2, <2>1, <2>2, OrderAssumption DEF Repeatable, Rows, Past
  <2> QED
    BY <2>3, <2>4 DEF Repeatable
<1> QED
  BY <1>1, <1>2, RepeatableStep

\* What a report says of the baselines, when a run had settled the rows.
LEMMA ReportIsSettled ==
    ASSUME BacktestTypeOK, Underway, Repeatable, Report, settled # None
    PROVE  report'.baselines = Summarise(settled, Baselines(settled))
<1>1. run.at \in {"asking", "stopped"} /\ run.rows \in [Cases -> Scores \cup {None}]
  BY DEF Report, BacktestTypeOK, RunOK
<1>2. \A c \in Cases : run.rows[c] = settled[c]
  <2> SUFFICES ASSUME NEW c \in Cases
               PROVE  run.rows[c] = settled[c]
    OBVIOUS
  <2>1. PICK i \in DOMAIN Order : Order[i] = c
    BY OrderAssumption
  <2>2. Past(i)
    BY <1>1 DEF Past
  <2> QED
    BY <1>1, <2>1, <2>2 DEF Repeatable, Rows
<1>3. settled \in [Cases -> Scores \cup {None}]
  BY DEF Repeatable, Settled
<1>4. run.rows = settled
  BY <1>1, <1>2, <1>3
<1>5. report'.baselines = Summarise(run.rows, Baselines(run.rows))
  BY DEF Report
<1> QED
  BY <1>4, <1>5

\* A reproducible backtest: whatever has come in, failed or been cut short since, a
\* run after the first that could read all it asked for writes the rows of that
\* one, and reports the baselines the same.
THEOREM CleanRunsAreRepeatable == BacktestSpec => CleanRunIsRepeatable
<1> DEFINE Same == settled # None =>
                     /\ \A c \in Cases : run'.rows[c] # None => run'.rows[c] = settled[c]
                     /\ report' # report =>
                          report'.baselines = Summarise(settled, Baselines(settled))
<1>1. BacktestSpec => [](BacktestTypeOK /\ Underway /\ Repeatable)
  BY BacktestTypeInductive, RepeatableInductive, PTL DEF BacktestSpec
<1>2. ASSUME BacktestTypeOK, Underway, Repeatable, Repeatable', BacktestNext
      PROVE  Same
  <2> SUFFICES ASSUME settled # None
               PROVE  /\ \A c \in Cases : run'.rows[c] # None => run'.rows[c] = settled[c]
                      /\ report' # report =>
                           report'.baselines = Summarise(settled, Baselines(settled))
    OBVIOUS
  <2>1. settled' = settled
    BY <1>2, RepeatableStep
  <2>2. ASSUME NEW c \in Cases, run'.rows[c] # None
        PROVE  run'.rows[c] = settled[c]
    <3>1. PICK i \in DOMAIN Order : run'.at # "off" /\ Past(i)' /\ Order[i] = c
      BY <1>2, <2>2 DEF Repeatable, Rows
    <3> QED
      BY <1>2, <2>1, <3>1 DEF Repeatable, Rows
  <2>3. ASSUME report' # report
        PROVE  Report
    BY <1>2, <2>3 DEF BacktestNext, Start, Fetch, FetchFails, Observe, ArchiveUnreadable, Pick,
                      FromDisk, AnswerUnreadable, Skip, Fail, Kill, Arrive
  <2> QED
    BY <1>2, <2>2, <2>3, ReportIsSettled
<1>3. (BacktestTypeOK /\ Underway /\ Repeatable)
        /\ (BacktestTypeOK /\ Underway /\ Repeatable)' /\ [BacktestNext]_backtestVars
        => [Same]_backtestVars
  BY <1>2
<1> QED
  BY <1>1, <1>3, PTL DEF BacktestSpec, CleanRunIsRepeatable
==============================================================================
