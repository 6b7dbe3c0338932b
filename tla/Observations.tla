---------------------------- MODULE Observations ----------------------------
(***************************************************************************)
(* What a node sees: cases that come and go, sensors people own, and the   *)
(* scan that asks FIRMS, CPCB and OpenAQ about the places worth watching,  *)
(* one place after the other, and saves what came back at the end of the   *)
(* pass.  Any feed may fail at any place.  The map is derived from the     *)
(* cases and the stored signals whenever it is asked for, so it has no     *)
(* variable.  The world - fires, the air at each station, what CPCB lists  *)
(* - is free.  SignalStore has the store's own races; saving is one step   *)
(* here.                                                                   *)
(***************************************************************************)
EXTENDS Clusters

CONSTANTS
    MaxDay,
    OnRecord,                                   \* the cases of before
    CaseIds, CasePlaces, Contact, Evidence,     \* Evidence: what a photograph may be read as
    Floor,                                      \* evidence less sure than this ends a case
    SensorId, SensorPlace, SensorReadings, SensorReliability,
    Stations, StationPlace, Parameter, Unit, Airs,
    FireKinds,                                  \* places, confidence and power of a fire
    Burned,                                     \* the fires that passes of before brought in
    MaxEvents,                                  \* bounds reports, fires and sensor readings together
    ScanEnabled, ScanRadius, ScanDays, OpenAqRadius, FirmsTop,
    Corridors, NodeCountry,
    Retention

PollutionTypes == {"open_waste_burning", "crop_residue_burning", "industrial_emission",
                   "construction_dust", "vehicle_emission", "unclear"}
CaseStatuses == {"draft", "awaiting_confirmation", "filed", "acknowledged", "escalated",
                 "resolved", "withdrawn", "rejected", "failed"}

\* What is known of a photograph, of a case and of a fire.
EvidenceShape == [type : PollutionTypes \cup {"none"}, confidence : 0 .. 1000,
                  severity : {"low", "moderate", "high", "severe"}]
CaseShape == [id : STRING, place : Int, at : Int, contact : STRING, status : CaseStatuses,
              evidence : EvidenceShape]
FireShape == [place : Int, at : Int, confidence : STRING, power : Int]

ASSUME ObservationsAssumption ==
    /\ {MaxDay, MaxEvents, ScanRadius, ScanDays, OpenAqRadius, FirmsTop, Retention} \subseteq Nat
    /\ ScanEnabled \in BOOLEAN
    /\ CaseIds \subseteq STRING /\ Contact \in [CaseIds -> STRING]
    /\ OnRecord \in Seq(CaseShape)
    /\ \A i, j \in DOMAIN OnRecord : OnRecord[i].id = OnRecord[j].id => i = j
    /\ Evidence \subseteq EvidenceShape
    /\ Burned \subseteq FireShape /\ IsFiniteSet(Burned)
    /\ FireKinds \subseteq [place : Int, confidence : STRING, power : Int]
    /\ CasePlaces \cup {SensorPlace} \subseteq Int /\ SensorReliability \in 0 .. 1000
    /\ SensorReadings \subseteq [parameter : STRING, value : Int, unit : STRING]
    /\ IsFiniteSet(Stations) /\ StationPlace \in [Stations -> Int]
    /\ Airs \subseteq Nat /\ Parameter \in DOMAIN Limit
    /\ Corridors \in Seq([countries : SUBSET STRING, waypoints : Seq(Int)])

VARIABLES
    today,
    cases,      \* in the order they were made
    air,        \* what is at each station, in micrograms
    fires,      \* what burned, and when, as far back as anything can tell
    events,     \* how many reports, fires and readings there were
    stored,     \* the signals
    pass,       \* the pass under way
    cpcb,       \* the parsed feed, while it is fresh
    over,       \* history: the stations above the limit, and when, as far back
    gap,        \* history: stations in range that CPCB's feed did not have
    covered     \* history: the fires a pass without an error answers for

observationVars == <<today, cases, air, fires, events, stored, pass, cpcb, over, gap, covered>>
world == <<air, fires, over>>
history == <<gap, covered>>

NoEvidence == [type |-> "none", confidence |-> 0, severity |-> "low"]
NoFeed == [fresh |-> FALSE, stations |-> {}]
NoPass == [at |-> "idle", targets |-> <<>>, next |-> 1, batch |-> {}, failed |-> FALSE, watch |-> {}]

Above(a) == {<<s, today>> : s \in {t \in Stations : a[t] >= Limit[Parameter]}}

ObservationsInit ==
    /\ today = 0
    /\ cases = OnRecord
    /\ air \in [Stations -> Airs]
    /\ fires = Burned
    /\ events = 0
    /\ stored = {SignalFromDetection(f) : f \in Burned}
    /\ pass = NoPass
    /\ cpcb = NoFeed
    /\ over = Above(air)
    /\ gap = {}
    /\ covered = {}

-----------------------------------------------------------------------------
(* The store, and the map. *)

\* A batch is collapsed by id, the last of each kept: as soon as a signal joins it.
Joined(batch, signals) ==
    {s \in batch : ~\E t \in signals : t.id = s.id} \cup signals

\* Those of a batch not held: files and Postgres hold an id once, for good.
\* (Firestore, where it is once a day, is SignalStore's.)
Unseen(batch) == {s \in batch : ~\E t \in stored : t.id = s.id}

\* Faulty: what was stored once is live for good.
Live_Forever == stored

Live == {s \in stored : s.at >= today - Retention}

\* Newest first; those of one day as the files are named, by kind and place.
Newer(s, t) ==
    LET Kind(u) == CASE u.source = "citizen_sensor" -> 0
                     [] u.source = "ground_station" -> (IF u.id[1] = "station" THEN 2 ELSE 1)
                     [] OTHER -> 3
    IN \/ s.at > t.at
       \/ s.at = t.at /\ Kind(s) < Kind(t)
       \/ s.at = t.at /\ Kind(s) = Kind(t) /\ s.place < t.place

AllCases == Reverse(cases)

CaseSignals(newestFirst) ==
    LET eligible == Only(newestFirst, {c \in ToSet(newestFirst) : Eligible(c)})
    IN [i \in DOMAIN eligible |-> SignalFromCase(eligible[i])]

InsertNewest(sorted, s) == InsertAt(sorted, SelectLastInSeq(sorted, LAMBDA t : ~Newer(s, t)) + 1, s)

\* all_signals, the newest first.
NewestFirst(S) == FoldLeft(InsertNewest, <<>>, SetToSeq(S))

VisibleWith(record) == Deduplicated(CaseSignals(Reverse(record)) \o NewestFirst(Live))

Visible == VisibleWith(cases)

\* hotspots.current
Map == Detect(Visible)

-----------------------------------------------------------------------------
(* Cases and sensors. *)

\* A report is accepted; what it shows is not known yet.
Report(id, place) ==
    /\ events < MaxEvents
    /\ events' = events + 1
    /\ \A i \in DOMAIN cases : cases[i].id # id
    /\ cases' = Append(cases, [id |-> id, place |-> place, at |-> today,
                               contact |-> Contact[id],
                               status |-> "draft", evidence |-> NoEvidence])
    /\ UNCHANGED <<today, world, stored, pass, cpcb, history>>

\* The evidence stage reads the photographs, and the record has what it read; a
\* doubtful reading ends the case.  Nothing after it matters to the map.
Classify(i) ==
    /\ cases[i].status = "draft"
    /\ cases[i].evidence = NoEvidence
    /\ \E e \in Evidence :
         cases' = [cases EXCEPT ![i].evidence = e,
                                ![i].status = IF e.confidence < Floor THEN "rejected" ELSE @]
    /\ UNCHANGED <<today, events, world, stored, pass, cpcb, history>>

\* The run of a report dies.
Fail(i) ==
    /\ cases[i].status = "draft"
    /\ cases' = [cases EXCEPT ![i].status = "failed"]
    /\ UNCHANGED <<today, events, world, stored, pass, cpcb, history>>

\* A citizen takes a report back.
Withdraw(i) ==
    /\ cases[i].status \in {"draft", "awaiting_confirmation"}
    /\ cases' = [cases EXCEPT ![i].status = "withdrawn"]
    /\ UNCHANGED <<today, events, world, stored, pass, cpcb, history>>

\* POST /sensors/readings: a reading that is no exceedance is refused.  Its
\* owner says when it was made.
SensorReading(r, at) ==
    LET exceedance == Exceedance(r.parameter, r.value, r.unit)
        signal == Signal("citizen_sensor", <<"sensor", SensorId, r.parameter, at>>, SensorPlace,
                         at, "unclear", SensorReliability, exceedance)
    IN /\ exceedance # -1
       /\ events < MaxEvents
       /\ events' = events + 1
       /\ stored' = stored \cup Unseen({signal})
       /\ UNCHANGED <<today, cases, world, pass, cpcb, history>>

-----------------------------------------------------------------------------
(* The scan. *)

\* The waypoints of the corridors that list this node's country.
Waypoints ==
    FoldLeft(LAMBDA points, c : IF NodeCountry \in c.countries THEN points \o c.waypoints ELSE points,
             <<>>, Corridors)

\* Faulty: a point is dropped when it lies anywhere in what another covers.
Thinned_ByRadius(points) ==
    FoldLeft(LAMBDA kept, p : IF \E i \in DOMAIN kept : Distance(p, kept[i]) < ScanRadius
                              THEN kept ELSE Append(kept, p), <<>>, points)

\* A point nearer than half the radius to one that is kept is dropped.
Thinned(points) ==
    FoldLeft(LAMBDA kept, p : IF \E i \in DOMAIN kept : 2 * Distance(p, kept[i]) < ScanRadius
                              THEN kept ELSE Append(kept, p), <<>>, points)

\* Cases of every status, and the corridors.
ScanTargets == Thinned([i \in DOMAIN AllCases |-> AllCases[i].place] \o Waypoints)

\* FIRMS: what burned in the last days, the nearest few.
FirmsWindow == {f \in fires : f.at > today - ScanDays}

Detections(point) ==
    LET near == {f \in FirmsWindow : Distance(f.place, point) <= ScanRadius}
    IN CHOOSE top \in SUBSET near :
         /\ Cardinality(top) = AtMost(Cardinality(near), FirmsTop)
         /\ \A f \in top, g \in near \ top : Distance(f.place, point) <= Distance(g.place, point)

\* There are as many others, at least as near, as FIRMS shows.
Crowded(f, point) ==
    Cardinality({g \in FirmsWindow \ {f} : Distance(g.place, point)
                                              <= Distance(f.place, point)}) >= FirmsTop

\* CPCB: the feed as it would be parsed now, with the stations it lists.
Feed(listed) ==
    {[id |-> s, place |-> StationPlace[s], at |-> today,
      indices |-> {[parameter |-> Parameter, index |-> (100 * air[s]) \div Limit[Parameter]]}] :
        s \in listed}

\* OpenAQ: the nearest station's latest reading.
OpenAqPayload(point) ==
    LET near == {s \in Stations : Distance(StationPlace[s], point) <= AtMost(ScanRadius, OpenAqRadius)}
        s == CHOOSE t \in near : \A u \in near : Distance(StationPlace[t], point)
                                                   <= Distance(StationPlace[u], point)
    IN IF near = {} THEN {}
       ELSE {[id |-> s, place |-> StationPlace[s],
              measurements |-> {[parameter |-> Parameter, unit |-> Unit, at |-> today,
                                 value |-> IF Unit = "mg/m3" THEN air[s] \div 1000 ELSE air[s]]}]}

\* Watched: a fire near enough to a case that some target must see it.  A pass
\* stops watching those that are crowded out, and all of them when a feed fails.
Watched == {f \in fires : \E i \in DOMAIN cases : 2 * Distance(f.place, cases[i].place) <= ScanRadius}

\* run_once: the places are read when the pass begins.
StartPass ==
    /\ ScanEnabled
    /\ pass.at = "idle"
    /\ pass' = [NoPass EXCEPT !.at = "scanning", !.targets = ScanTargets, !.watch = Watched]
    /\ UNCHANGED <<today, events, cases, world, stored, cpcb, history>>

\* Faulty: OpenAQ is asked wherever it has a station.
StationSignals_Both(official, point) ==
    SignalsFromCpcb(official) \cup UNION {SignalsFromStation(s) : s \in OpenAqPayload(point)}

\* What the stations say: CPCB's where it has any in range, else OpenAQ's.
StationSignals(official, point) ==
    IF official # {} THEN SignalsFromCpcb(official)
    ELSE UNION {SignalsFromStation(s) : s \in OpenAqPayload(point)}

\* Faulty: a feed that fails is a feed with nothing to say.
Failed_Quietly(firms, cpcbAnswers, asked, openAq) == FALSE

\* Is there a sentence for a feed that failed?  What it says is left out.
Failed(firms, cpcbAnswers, asked, openAq) == ~firms \/ ~cpcbAnswers \/ (asked /\ ~openAq)

\* What the CPCB tool may have to go on: the parsed feed while it is fresh, which
\* is a quarter of an hour, the feed fetched now, or nothing.
CpcbAnswers ==
    {cpcb, NoFeed}
        \cup {[fresh |-> TRUE, stations |-> Feed(listed)] : listed \in SUBSET Stations}

\* _scan_point: one place of the pass.
ScanPoint ==
    /\ pass.at = "scanning"
    /\ pass.next <= Len(pass.targets)
    /\ \E firms \in BOOLEAN, answer \in CpcbAnswers :
         LET point == pass.targets[pass.next]
             official == {s \in answer.stations : Distance(s.place, point) <= ScanRadius}
             asked == official = {}
             detected == IF firms THEN {SignalFromDetection(d) : d \in Detections(point)} ELSE {}
         IN \E openAq \in IF asked THEN BOOLEAN ELSE {TRUE} :
              LET measured == IF openAq THEN StationSignals(official, point) ELSE {}
                  failed == Failed(firms, answer.fresh, asked, openAq)
                  crowded == {f \in fires : Crowded(f, point)}
              IN /\ pass' = [pass EXCEPT !.next = @ + 1,
                                         !.batch = Joined(@, detected \cup measured),
                                         !.failed = @ \/ failed,
                                         !.watch = IF failed THEN {} ELSE @ \ crowded]
                 /\ cpcb' = IF answer.fresh THEN answer ELSE cpcb
                 /\ gap' = gap \cup {s \in Stations : /\ Distance(StationPlace[s], point) <= ScanRadius
                                                       /\ ~\E o \in official : o.id = s}
    /\ UNCHANGED <<today, events, cases, world, stored, covered>>

\* One save for the whole pass, which then says how many were new and what failed.
SavePass ==
    /\ pass.at = "scanning"
    /\ pass.next > Len(pass.targets)
    /\ stored' = stored \cup Unseen(pass.batch)
    /\ pass' = NoPass
    /\ cpcb' = NoFeed      \* the next pass is an hour away
    /\ covered' = covered \cup (pass.watch \cap FirmsWindow)
    /\ UNCHANGED <<today, events, cases, world, gap>>

\* The process ends, and what the pass has collected with it.
NodeRestart ==
    /\ pass.at = "scanning"
    /\ pass' = NoPass
    /\ cpcb' = NoFeed
    /\ UNCHANGED <<today, events, cases, world, stored, history>>

-----------------------------------------------------------------------------
(* The world. *)

Burn(kind) ==
    /\ events < MaxEvents
    /\ events' = events + 1
    /\ ~\E f \in fires : f.place = kind.place /\ f.at = today
    /\ fires' = fires \cup {[place |-> kind.place, at |-> today, confidence |-> kind.confidence,
                             power |-> kind.power]}
    /\ UNCHANGED <<today, cases, air, over, stored, pass, cpcb, history>>

NextDay ==
    /\ today < MaxDay
    /\ today' = today + 1
    /\ air' \in [Stations -> Airs]
    /\ over' = {o \in over : o[2] >= today + 1 - Retention}
                 \cup {<<s, today + 1>> : s \in {t \in Stations : air'[t] >= Limit[Parameter]}}
    /\ fires' = {f \in fires : f.at >= today + 1 - AtLeast(Retention, ScanDays)}
    /\ cpcb' = NoFeed
    /\ covered' = {f \in covered : f.at >= today + 1 - Retention}
    /\ UNCHANGED <<cases, events, stored, pass, gap>>

ObservationsNext ==
    \/ \E id \in CaseIds, place \in CasePlaces : Report(id, place)
    \/ \E i \in DOMAIN cases : Classify(i) \/ Fail(i) \/ Withdraw(i)
    \/ \E r \in SensorReadings, at \in {AtLeast(today - 1, 0), today} : SensorReading(r, at)
    \/ StartPass \/ ScanPoint \/ SavePass \/ NodeRestart
    \/ \E kind \in FireKinds : Burn(kind)
    \/ NextDay

ObservationsSpec == ObservationsInit /\ [][ObservationsNext]_observationVars

-----------------------------------------------------------------------------
(* Properties. *)

Members(h) == {h.signals[i] : i \in DOMAIN h.signals}

\* Every signal that is visible is on the map once, whatever order it came in:
\* none is lost between the groups of a type and the groups without one, none
\* is counted in two places, and no place mixes two types (hotspots._groups).
MapIsAPartition ==
    LET visible == ToSet(Visible)
        spots == Map
    IN /\ \A s \in visible : Cardinality({h \in spots : s \in Members(h)}) = 1
       /\ \A h \in spots :
            /\ Cardinality(Members(h)) = Len(h.signals)
            /\ \A s \in Members(h) : s.type \in {h.type, "unclear"} /\ s \in visible

\* What really happened, as an instrument could have seen it.
Happened(s) ==
    \/ s.source = "satellite" /\ \E f \in fires : f.place = s.place /\ f.at = s.at
    \/ s.source = "ground_station" /\ <<s.id[2], s.at>> \in over

\* A place above the cap rests on something an instrument saw, that was really
\* there, and recently: no number of photographs and sensors takes a place
\* there, and nothing long gone keeps it (hotspots._confidence, live_signals,
\* _exceedance with its units).
ConfidenceIsBacked ==
    \A h \in Map : h.confidence > UncorroboratedCap =>
        \E s \in Members(h) : s.source \in Independent /\ s.at >= today - Retention /\ Happened(s)

\* One instrument is read as two - CPCB's number and the same number
\* republished by OpenAQ - only if CPCB's feed once was without that station
\* where it was in range (scan._scan_point).
DoubledOnlyAfterGap ==
    \A a, b \in Live :
        /\ a.id[1] = "station" /\ b.id[1] = "station:cpcb" /\ a.id[2] = b.id[2]
        /\ a.id[2] \notin gap
        => ~\E h \in Map : {a, b} \subseteq Members(h)

\* The pattern a letter cites is one the map shows: the cases of a cluster are
\* each in a hotspot of its type.  And a case that asks for its pattern while
\* its own record is still being written is counted once, at a place among
\* the reports (clustering.cluster_for, describe).
ClustersAreOnTheMap ==
    /\ \A p \in Patterns(AllCases) : \A i \in DOMAIN p.members :
         \E h \in Map : h.type = p.type /\ p.members[i] \in h.cases
    /\ \A i \in DOMAIN cases, e \in Evidence :
         \A p \in PatternOf([cases[i] EXCEPT !.evidence = e], AllCases) :
             /\ Cardinality(ToSet(p.members)) = p.reports
             /\ Position(p, cases[i].id) \in 1 .. p.reports
             /\ p.distinctReporters + p.anonymousReports <= p.reports

\* A pass that reports no error has told the truth: a fire within half the scan
\* radius of a case that was on record when the pass began is on the map from
\* the pass on, for as long as it is recent, though the pass thins its targets
\* and the world moves on between two of them (scan.run_once, scan._thinned).
CleanPassShowsFires ==
    LET shown == UNION {Members(h) : h \in Map}
    IN \A f \in covered : f.at >= today - Retention =>
         \E s \in shown : s.source = "satellite" /\ s.place = f.place /\ s.at = f.at

\* "both fixed for the life of the group: later signals join it, they never
\* displace its seed" (hotspots.hotspot_id): a place of a type keeps its name
\* when a report made on a later day than all it rests on is read and joins it,
\* or else gives way to an older observation without a type, which the place did
\* not have and its centre, now moved, takes in.  It is never named after the
\* report, nor after another it already had.  A place without a type has no
\* such name: it is named anew when a report gives it one.
NameSurvivesGrowth ==
    \A i \in DOMAIN cases, e \in Evidence :
        cases[i].status = "draft" /\ cases[i].evidence = NoEvidence
          /\ e.type # "unclear" /\ e.confidence >= Floor =>
            LET grown == Detect(VisibleWith([cases EXCEPT ![i].evidence = e]))
            IN \A h \in Map, k \in grown :
                 /\ h.type # "unclear"
                 /\ Members(h) \subseteq Members(k)
                 /\ h.lastSeen < cases[i].at
                 => \/ k.id = h.id
                    \/ k.signals[1].type = "unclear" /\ k.signals[1] \notin Members(h)
=============================================================================
