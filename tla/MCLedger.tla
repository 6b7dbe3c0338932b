------------------------------ MODULE MCLedger ------------------------------
(* A small instance of the forecast ledger for TLC. *)
EXTENDS ForecastLedger

CONSTANTS f1, f2, a, b

TwoForecasts == {f1, f2}
TwoPasses == {a, b}
SlowOrNot == {FALSE, TRUE}
=============================================================================
