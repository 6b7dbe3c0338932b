----------------------------- MODULE MCLimiter -----------------------------
(* A small instance of the budget for TLC. *)
EXTENDS LimiterService, TLC

CONSTANTS w1, c1, c2

OneWorker == {w1}
TwoClients == {c1, c2}
Symmetries == Permutations(Clients)
=============================================================================
