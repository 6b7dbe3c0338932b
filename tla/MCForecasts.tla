---------------------------- MODULE MCForecasts ----------------------------
(* A small instance for TLC: a corridor of two waypoints, asked for twice.  *)
EXTENDS ForecastRequests, TLC

CONSTANTS flash, lite, x, y, road, w1, w2

FastChain == <<lite, flash>>
Viewers == {x, y}
Wants == [r \in Viewers |-> road]
Places == road :> <<w1, w2>>
Troubles == lite :> "overloaded" @@ flash :> "retired"
Alike == Permutations(Viewers)
Risks == w1 :> 1 @@ w2 :> 3
=============================================================================
