------------------------------ MODULE MCAlerts ------------------------------
(* A small instance of the alerts for TLC. *)
EXTENDS HotspotAlerts, TLC

CONSTANTS a1, a2, h1, h2, quiet, strong, p1, p2

TwoAlerts == {a1, a2}
TwoHandlers == {h1, h2}
TwoSightings == {quiet, strong}
OneStrong == {strong}
TwoPictures == {p1, p2}
TwoDates == {1, 2}

\* Ids, requests and pictures are interchangeable; nothing here is a liveness
\* property.
Interchangeable ==
    Permutations(TwoAlerts) \cup Permutations(TwoHandlers) \cup Permutations(TwoPictures)
=============================================================================
