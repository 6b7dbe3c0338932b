------------------------------ MODULE Hotspots ------------------------------
(***************************************************************************)
(* hotspots.py: cases and the payloads of instruments turned into signals, *)
(* and signals into hotspots.  Definitions only: a hotspot is derived on   *)
(* every request and never stored.  Strengths, magnitudes and confidence   *)
(* are in thousandths.  A value of -1 is a field the source left out.      *)
(***************************************************************************)
EXTENDS Grouping, FiniteSets, FiniteSetsExt

CONSTANTS
    HotspotRadius, HotspotWindow, MinSignals, MinRadius, UncorroboratedCap,
    ExposureRadius, Settlements,    \* the gazetteer: records with a place and a population
    Limit                           \* the limits of the node's standard, in micrograms

ASSUME HotspotAssumption ==
    /\ {HotspotRadius, HotspotWindow, MinSignals, MinRadius, ExposureRadius} \subseteq Nat
    /\ UncorroboratedCap \in 0 .. 1000
    /\ \A p \in DOMAIN Limit : Limit[p] \in Nat \ {0}

Excluded == {"rejected", "withdrawn", "failed"}
Independent == {"satellite", "ground_station"}
StationReliability == 900
SeverityBand == [low |-> 250, moderate |-> 500, high |-> 750, severe |-> 1000]
NamedStrength == [l |-> 300, n |-> 600, h |-> 850]

AtMost(n, m) == IF n <= m THEN n ELSE m
AtLeast(n, m) == IF n >= m THEN n ELSE m
Round(num, den) == (2 * num + den) \div (2 * den)
Largest(S) == CHOOSE n \in S : \A m \in S : m <= n
Greatest(values) == Largest({values[i] : i \in DOMAIN values})

-----------------------------------------------------------------------------
(* Signals. *)

\* A case that was classified and is not out of the running.
Eligible(case) ==
    /\ case.status \notin Excluded
    /\ case.evidence.type \notin {"none", "unclear"}

Signal(source, id, place, at, type, strength, magnitude) ==
    [source |-> source, id |-> id, place |-> place, at |-> at, type |-> type,
     strength |-> strength, magnitude |-> magnitude]

SignalFromCase(case) ==
    Signal("citizen_report", <<"case", case.id, 0, 0>>, case.place, case.at, case.evidence.type,
           case.evidence.confidence, SeverityBand[case.evidence.severity])

SatelliteStrength(confidence) ==
    IF confidence \in DOMAIN NamedStrength THEN NamedStrength[confidence] ELSE 500

\* A hundred megawatts is as bad as it gets; a power left out is the middle.
SatelliteMagnitude(power) == IF power = -1 THEN 500 ELSE AtMost(power * 10, 1000)

\* Heat has no fuel: a detection is unclear.
SignalFromDetection(d) ==
    Signal("satellite", <<"viirs", d.place, d.at, 0>>, d.place, d.at, "unclear",
           SatelliteStrength(d.confidence), SatelliteMagnitude(d.power))

\* Faulty: a reading is scaled up, whatever its unit.
Micrograms_Milli(value, unit) == IF value < 100 THEN value * 1000 ELSE value * 10

\* A reading in micrograms, or -1 for a unit nobody knows.
Micrograms(value, unit) ==
    CASE unit \in {"none", "ug/m3"} -> value
      [] unit = "mg/m3" -> value * 1000
      [] OTHER -> -1

\* How far past its limit a reading is: 0 at the limit, 1000 at three times it,
\* -1 for one that is not past it and for anything that cannot be read.
Exceedance(parameter, value, unit) ==
    IF parameter \notin DOMAIN Limit \/ value = -1 THEN -1
    ELSE LET reading == Micrograms(value, unit)
             over == reading - Limit[parameter]
         IN IF reading = -1 \/ over < 0 THEN -1
            ELSE AtMost(Round(1000 * over, 2 * Limit[parameter]), 1000)

\* A station's reading that exceeds its limit.  The id has no time in it.
SignalFromStation(station, r) ==
    Signal("ground_station", <<"station", station.id, r.parameter, 0>>, station.place, r.at,
           "unclear", StationReliability, Exceedance(r.parameter, r.value, r.unit))

SignalsFromStation(station) ==
    {SignalFromStation(station, r) :
        r \in {q \in station.measurements : Exceedance(q.parameter, q.value, q.unit) # -1}}

\* A sub-index of 100 is the standard, and 300 counts in full.
SignalsFromCpcb(stations) ==
    UNION {{Signal("ground_station", <<"station:cpcb", s.id, i.parameter, 0>>, s.place, s.at,
                   "unclear", StationReliability,
                   AtMost(Round(1000 * (i.index - 100), 200), 1000)) :
              i \in {j \in s.indices : j.index > 100}} : s \in stations}

-----------------------------------------------------------------------------
(* Groups. *)

\* _deduplicate: one observation, counted once, the first copy of it.
Deduplicated(signals) ==
    FoldLeft(LAMBDA seen, s : IF \E i \in DOMAIN seen : seen[i].id = s.id THEN seen
                              ELSE Append(seen, s), <<>>, signals)

\* May a group take in a signal that has no type?
Hosts(signal, group) ==
    /\ Distance(signal.at, Greatest([i \in DOMAIN group |-> group[i].at])) <= HotspotWindow
    /\ Within(Km(signal.place, Centroid(group)), HotspotRadius)

\* The nearest group that may host a signal, the last of those equally near; or 0.
NearestGroup(signal, groups) ==
    LET near == {g \in DOMAIN groups : Hosts(signal, groups[g])}
        km == [g \in near |-> Km(signal.place, Centroid(groups[g]))]
    IN IF near = {} THEN 0
       ELSE CHOOSE g \in near :
              \A h \in near : ~Nearer(km[h], km[g]) /\ (h > g => Nearer(km[g], km[h]))

\* Faulty: a detection is left out of the groups of those without a type when
\* some group of a type takes it, and out of that group too.
Offer_Dropped(state, signal) ==
    LET host == NearestGroup(signal, state.groups)
    IN IF host = 0 THEN [state EXCEPT !.left = Append(@, signal)] ELSE state

\* One signal without a type is offered to the groups as the offers before it left them.
Offer(state, signal) ==
    LET host == NearestGroup(signal, state.groups)
    IN IF host = 0 THEN [state EXCEPT !.left = Append(@, signal)]
       ELSE [state EXCEPT !.groups[host] = Append(@, signal)]

LinkSignals(signals) == Link(signals, HotspotRadius, HotspotWindow)

\* The types of some signals, in the order they are first met.
Types(signals) ==
    FoldLeft(LAMBDA types, s : IF s.type = "unclear" \/ Contains(types, s.type) THEN types
                               ELSE Append(types, s.type), <<>>, signals)

OfType(signals, type) == Only(signals, {s \in ToSet(signals) : s.type = type})

\* The groups of those that have a type, one type after the other.
Classified(signals) ==
    FoldLeft(LAMBDA groups, type : groups \o LinkSignals(OfType(signals, type)),
             <<>>, Types(signals))

\* Then each of the others is offered to them.
Offered(signals) ==
    FoldLeft(Offer, [groups |-> Classified(signals), left |-> <<>>], OfType(signals, "unclear"))

Groups(signals) == Offered(signals).groups \o LinkSignals(Offered(signals).left)

-----------------------------------------------------------------------------
(* Hotspots. *)

\* The name is a digest of these two.
HotspotId(type, seed) == <<type, seed>>

\* Sources that agree lift confidence, not signals.
Agreement(signals) ==
    AtMost(150 * (Cardinality({signals[i].source : i \in DOMAIN signals}) - 1), 300)

Confidence(signals, corroborated) ==
    LET strongest == Greatest([i \in DOMAIN signals |-> signals[i].strength])
        confidence == AtMost(strongest + Agreement(signals), 1000)
    IN IF corroborated THEN confidence ELSE AtMost(confidence, UncorroboratedCap)

Severity(signals) ==
    LET worst == Greatest([i \in DOMAIN signals |-> signals[i].magnitude])
        score == worst + AtMost(100 * Len(signals), 200)
    IN CASE score >= 900 -> "severe"
         [] score >= 700 -> "high"
         [] score >= 450 -> "moderate"
         [] OTHER -> "low"

\* The radius is the spread, as a fraction, and never below the floor.
Radius(signals, centre) ==
    LET km == {Km(signals[i].place, centre) : i \in DOMAIN signals}
        spread == CHOOSE k \in km : \A j \in km : ~Nearer(k, j)
    IN IF Within(spread, MinRadius) THEN [num |-> MinRadius, den |-> 1] ELSE spread

\* exposure_for: who lives within a radius of a centre, -1 where the gazetteer has nobody.
ExposureFor(centre, radius) ==
    LET found == {s \in Settlements : ~Nearer(radius, Km(s.place, centre))}
    IN IF found = {} THEN -1
       ELSE LET Sum[S \in SUBSET found] ==
                  IF S = {} THEN 0
                  ELSE LET s == CHOOSE t \in S : TRUE IN s.population + Sum[S \ {s}]
            IN Sum[found]

\* The first type there is.
MainType(ordered) ==
    LET typed == {i \in DOMAIN ordered : ordered[i].type # "unclear"}
    IN IF typed = {} THEN "unclear" ELSE ordered[Min(typed)].type

HasIndependent(ordered) == \E i \in DOMAIN ordered : ordered[i].source \in Independent

CasesAmong(ordered) ==
    {ordered[i].id[2] : i \in {j \in DOMAIN ordered : ordered[j].source = "citizen_report"}}

Summary(members) ==
    LET ordered == InTimeOrder(members)
        centre == Centroid(ordered)
        type == MainType(ordered)
        corroborated == HasIndependent(ordered)
        radius == Radius(ordered, centre)
        reach == IF Within(radius, ExposureRadius) THEN [num |-> ExposureRadius, den |-> 1]
                 ELSE radius
    IN [id |-> HotspotId(type, ordered[1].id), type |-> type, centre |-> centre,
        radius |-> radius, confidence |-> Confidence(ordered, corroborated),
        severity |-> Severity(ordered), corroborated |-> corroborated,
        firstSeen |-> ordered[1].at, lastSeen |-> Last(ordered).at,
        cases |-> CasesAmong(ordered), signals |-> ordered, exposure |-> ExposureFor(centre, reach)]

\* Every hotspot some signals support.  The order they are listed in is left out.
Detect(signals) ==
    LET groups == Groups(signals)
    IN {Summary(groups[i]) : i \in {j \in DOMAIN groups : Len(groups[j]) >= MinSignals}}
=============================================================================
