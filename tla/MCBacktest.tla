----------------------------- MODULE MCBacktest -----------------------------
(***************************************************************************)
(* A small instance of the backtest for TLC.  Three windows of three hours *)
(* in one place, one in another; days of two hours, months of eight.  The  *)
(* place has a monitor whose newer sensor only covers the last window till *)
(* the rest of its hours come in, a low-cost sensor nearer by, and another *)
(* monitor that has only PM10.  Of two cases the old prompt's answer was   *)
(* kept.                                                                   *)
(***************************************************************************)
EXTENDS Backtest

CONSTANTS n1, n2, n3, e1, ncr, elsewhere, old, edited

FourCases == {n1, n2, n3, e1}
Where == [c \in FourCases |->
            [place |-> IF c = e1 THEN "q" ELSE "p",
             group |-> IF c = e1 THEN elsewhere ELSE ncr,
             issued |-> CASE c = n1 -> 3 [] c = n2 -> 8 [] c = n3 -> 13 [] c = e1 -> 3]]
ByDate == <<n1, e1, n2, n3>>
TwoToOne == <<ncr, ncr, elsewhere>>

Pm == <<"pm25", "pm10">>
Limits == [p \in {"pm25", "pm10"} |-> <<3, 6, 9>>]

Station(distance, monitor, pm25, pm10) ==
    [distance |-> distance, monitor |-> monitor, first |-> 0, last |-> 15,
     sensors |-> [p \in {"pm25", "pm10"} |-> IF p = "pm25" THEN pm25 ELSE pm10]]

Around == [p \in {"p", "q"} |->
             IF p = "p" THEN {Station(1, FALSE, {5}, {}), Station(2, TRUE, {1, 2}, {}),
                              Station(3, TRUE, {}, {4})}
             ELSE {Station(1, TRUE, {}, {3})}]

\* On the half hour, the way Indian stations report.
Rows(hours, value) == {[from |-> 2 * h - 1, value |-> value, flagged |-> FALSE] : h \in hours}
Odd == {[from |-> 1, value |-> 99, flagged |-> FALSE], [from |-> 3, value |-> 7, flagged |-> TRUE]}

Readings ==
    [all \in BOOLEAN |->
        [s \in 1 .. 5 |->
            CASE s = 1 -> Rows(1 .. 10, 5)
              [] s = 2 -> Rows(IF all THEN 6 .. 15 ELSE 14 .. 15, 8)
              [] s = 3 -> Rows(1 .. 2, 2) \cup Rows(3 .. 5, 4)
              [] s = 4 -> Rows(3 .. 15, 2) \cup Odd
              [] s = 5 -> Rows(1 .. 15, 9)]]

Cams == [c \in FourCases |->
           LET hours == Where[c].issued - 1 .. Where[c].issued + 2
           IN [p \in {"pm25", "pm10"} |-> [h \in hours |-> IF h % 2 = 0 THEN 4 ELSE 7]]]

TwoForecasters == {old, edited}
SomeBands == {2, 3}
SomeAnswers == {<<n2, old>>, <<e1, old>>}
SomeCosts == {0, 2, 4}
SomeBudgets == {7, 12}
=============================================================================
