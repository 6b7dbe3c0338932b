----------------------------- MODULE MCSignals -----------------------------
(* Small instances of the signal store for TLC. *)
EXTENDS SignalStore, TLC

CONSTANTS t1, t2, b1, fire, station

TwoThreads == {t1, t2}
OneBackend == {b1}

\* The two ids share a shard: what one call adds, another may drop.  A station
\* is read twice in one day, and again the next.
OneShard == {0}
SameShard == [i \in {fire, station} |-> 0]
SomeSignals ==
    {[id |-> fire, day |-> 1, value |-> 1],
     [id |-> station, day |-> 1, value |-> 1],
     [id |-> station, day |-> 1, value |-> 2],
     [id |-> station, day |-> 2, value |-> 1]}

Interchangeable == Permutations(TwoThreads)
=============================================================================
