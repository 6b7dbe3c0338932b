--------------------------- MODULE MCObservations ---------------------------
(***************************************************************************)
(* Observations on a line of nine places.  Places are about half a         *)
(* hotspot's radius apart, days are days.                                  *)
(***************************************************************************)
EXTENDS Observations

MCEvidence == {[type |-> "open_waste_burning", confidence |-> 900, severity |-> "low"],
               [type |-> "construction_dust", confidence |-> 500, severity |-> "severe"],
               [type |-> "unclear", confidence |-> 900, severity |-> "moderate"]}
MCOnRecord == <<[id |-> "c0", place |-> 6, at |-> -1, contact |-> "", status |-> "withdrawn",
                 evidence |-> [type |-> "open_waste_burning", confidence |-> 900, severity |-> "low"]],
                [id |-> "c1", place |-> 3, at |-> -1, contact |-> "", status |-> "awaiting_confirmation",
                 evidence |-> [type |-> "open_waste_burning", confidence |-> 900, severity |-> "low"]]>>
MCContact == [c2 |-> "a"]
MCStationPlace == [s1 |-> 1]
MCStations == DOMAIN MCStationPlace
MCLimit == [co |-> 2000]
\* The reading the code's own comment tells of, below its limit, and one that counts in full.
MCAirs == {1680, 6000}
MCSensorReadings == {[parameter |-> "co", value |-> 5, unit |-> "mg/m3"],
                     [parameter |-> "co", value |-> 1680, unit |-> "ug/m3"],
                     [parameter |-> "co", value |-> 5, unit |-> "ppm"]}
MCFireKinds == {[place |-> 2, confidence |-> "h", power |-> 60],
                [place |-> 8, confidence |-> "l", power |-> -1]}
MCCorridors == <<[countries |-> {"IN", "PK"}, waypoints |-> <<1>>],
                 [countries |-> {"BR"}, waypoints |-> <<3>>]>>
MCSettlements == {[place |-> 2, population |-> 15000], [place |-> 8, population |-> 200000]}
MCBurned == {[place |-> 6, at |-> -2, confidence |-> "n", power |-> 60]}
=============================================================================
