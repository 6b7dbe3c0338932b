------------------------------ MODULE Clusters ------------------------------
(***************************************************************************)
(* clustering.py: repeat reports of one problem at one place, as a letter  *)
(* cites them.  Definitions only: a cluster is derived from the case store *)
(* whenever it is asked for.  What a case is, and which count, is the same *)
(* as for a hotspot.                                                       *)
(***************************************************************************)
EXTENDS Hotspots

CONSTANTS ClusterRadius, ClusterWindow, MinReports

ASSUME ClusterAssumption == {ClusterRadius, ClusterWindow, MinReports} \subseteq Nat

\* Faulty: a case taken back goes on counting.
Counts_Withdrawn(case) ==
    /\ case.status \notin Excluded \ {"withdrawn"}
    /\ case.evidence.type \notin {"none", "unclear"}

\* clustering has its own copy of what hotspots exclude.
Counts(case) ==
    /\ case.status \notin {"rejected", "withdrawn", "failed"}
    /\ case.evidence.type \notin {"none", "unclear"}

CaseTypes(cases) ==
    FoldLeft(LAMBDA types, c : IF Contains(types, c.evidence.type) THEN types
                               ELSE Append(types, c.evidence.type), <<>>, cases)

CaseGroups(cases) ==
    LET eligible == Only(cases, {c \in ToSet(cases) : Counts(c)})
        OfKind(type) == Only(eligible, {c \in ToSet(cases) : c.evidence.type = type})
    IN FoldLeft(LAMBDA groups, type : groups \o Link(OfKind(type), ClusterRadius, ClusterWindow),
                <<>>, CaseTypes(eligible))

ClusterId(type, seed) == <<type, seed>>

Cluster(group) ==
    LET ordered == InTimeOrder(group)
        contacts == {ordered[i].contact : i \in DOMAIN ordered}
        anonymous == {i \in DOMAIN ordered : ordered[i].contact = ""}
    IN [id |-> ClusterId(ordered[1].evidence.type, ordered[1].id),
        type |-> ordered[1].evidence.type,
        centre |-> Centroid(ordered),
        reports |-> Len(ordered),
        firstReported |-> ordered[1].at, lastReported |-> Last(ordered).at,
        distinctReporters |-> Cardinality(contacts \ {""}),
        anonymousReports |-> Cardinality(anonymous),
        members |-> [i \in DOMAIN ordered |-> ordered[i].id]]

Patterns(cases) ==
    LET groups == CaseGroups(cases)
    IN {Cluster(groups[i]) : i \in {j \in DOMAIN groups : Len(groups[j]) >= MinReports}}

\* The case at hand takes the place of the copy the store has of it.
Pool(case, cases) == Append(Only(cases, {c \in ToSet(cases) : c.id # case.id}), case)

\* cluster_for: the pattern a case belongs to, in a set of one; or none.
PatternOf(case, cases) == {p \in Patterns(Pool(case, cases)) : Contains(p.members, case.id)}

\* "This is the n-th report", or 0 for a case that is not in the pattern.
Position(pattern, id) == SelectInSeq(pattern.members, LAMBDA member : member = id)
=============================================================================
