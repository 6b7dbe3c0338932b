------------------------------ MODULE Grouping ------------------------------
(***************************************************************************)
(* grouping.py: observations joined into groups by centroid linkage, in    *)
(* the order they were made.  Hotspots and clusters both use it.  A place  *)
(* is a point of an integer line, a group's centre the rational mean of    *)
(* its members, so that every comparison of two distances is exact.  An    *)
(* item is any record with a place and a day, at.                          *)
(***************************************************************************)
EXTENDS Integers, Sequences, SequencesExt

Distance(p, q) == IF p <= q THEN q - p ELSE p - q

\* The mean place of some items, as a fraction.
Centroid(items) == [sum |-> FoldLeft(LAMBDA sum, item : sum + item.place, 0, items),
                    of |-> Len(items)]

\* From a place to a centre, as a fraction.
Km(place, centre) == [num |-> Distance(place * centre.of, centre.sum), den |-> centre.of]

Within(km, radius) == km.num <= radius * km.den

Nearer(km1, km2) == km1.num * km2.den < km2.num * km1.den

\* Faulty: the items are taken as they came.
InTimeOrder_AsGiven(items) == items

\* The items that are in a set, in the order they have.
Only(items, S) ==
    FoldLeft(LAMBDA kept, item : IF item \in S THEN Append(kept, item) ELSE kept, <<>>, items)

\* An item goes behind those of its day and of the days before.
InsertByTime(sorted, item) ==
    InsertAt(sorted, SelectLastInSeq(sorted, LAMBDA s : s.at <= item.at) + 1, item)

\* sorted(items, key=timestamp): those of one day stay as they came.
InTimeOrder(items) == FoldLeft(InsertByTime, <<>>, items)

\* The nearest group, the first made of those equally near.
Best(near, km) ==
    CHOOSE g \in near : \A h \in near : ~Nearer(km[h], km[g]) /\ (h < g => Nearer(km[g], km[h]))

\* May an item join a group?  The window is a gap since the group's latest member.
Joins(group, item, radius, maxGap) ==
    item.at - Last(group).at <= maxGap /\ Within(Km(item.place, Centroid(group)), radius)

\* An item joins the nearest group it may join, or begins one.
Join(groups, item, radius, maxGap) ==
    LET near == {g \in DOMAIN groups : Joins(groups[g], item, radius, maxGap)}
        km == [g \in near |-> Km(item.place, Centroid(groups[g]))]
    IN IF near = {} THEN Append(groups, <<item>>)
       ELSE [groups EXCEPT ![Best(near, km)] = Append(@, item)]

\* The groups, in the order they were begun, each in the order of its members.
Link(items, radius, maxGap) ==
    FoldLeft(LAMBDA groups, item : Join(groups, item, radius, maxGap), <<>>, InTimeOrder(items))
=============================================================================
