------------------------------- MODULE Scoring -------------------------------
(***************************************************************************)
(* ledger.py's rule for what a forecast is judged against: which stations  *)
(* near a place, and which of their sensors, are read for a window of      *)
(* hours, how their hours become one series, the series days, and the      *)
(* worst day a band; and the tables that compare bands over many cases.    *)
(* Only operators: the ledger and the backtest apply them.                 *)
(*                                                                         *)
(* A series is a function from the hours it has to values.  Hours are      *)
(* counted from some midnight, and a row of the network says in half hours *)
(* when its hour began.  A median of two is half a unit and a mean is      *)
(* rounded to a tenth, so values are doubled after the one and in tenths   *)
(* after the other, and everything stays an integer.                       *)
(***************************************************************************)
EXTENDS Integers, Sequences, FiniteSets, FiniteSetsExt, SequencesExt

CONSTANTS
    Pollutants,     \* the pollutants, the preferred one first
    LimitsOf,       \* band_limits: the upper limits of the bands, in order
    DayHours,       \* the hours of a day
    MinHours,       \* MIN_HOURS_PER_DAY
    MaxStations,    \* MAX_STATIONS
    Fault,          \* the end of PLAUSIBLE_RANGE
    None

ASSUME DayAssumption == DayHours \in Nat \ {0} /\ MinHours \in 0 .. DayHours
ASSUME RangeAssumption == MaxStations \in Nat \ {0} /\ Fault \in Nat
ASSUME PollutantsAssumption == Pollutants \in Seq(STRING)

\* RISK_ORDER: a band is its place in it.
Bands == 1 .. 4

\* The limits rise, so the first one a value does not exceed is as far as it goes.
BandFor(pollutant, tenths) ==
    1 + Cardinality({i \in 1 .. 3 : tenths > 10 * LimitsOf[pollutant][i]})

BandOf(pollutant, tenths) == IF tenths = None THEN None ELSE BandFor(pollutant, tenths)

-----------------------------------------------------------------------------
(* From the rows of a sensor to the worst day. *)

\* The hour nearest the middle of the hour a row covers.
HourOf(row) == (row.from + 2) \div 2

\* Rows without a flag and inside the plausible range, by hour.
HourlySeries(rows) ==
    LET sound == {r \in rows : ~r.flagged /\ 0 < r.value /\ r.value < Fault}
    IN [h \in {HourOf(r) : r \in sound} |-> (CHOOSE r \in sound : HourOf(r) = h).value]

\* Twice the median of some values: the sum of the middle two, or of the middle
\* one with itself.
TwiceMedian(values) ==
    LET n == Cardinality(DOMAIN values)
        Lowest(k) == CHOOSE v \in {values[i] : i \in DOMAIN values} :
                        /\ Cardinality({i \in DOMAIN values : values[i] < v}) < k
                        /\ Cardinality({i \in DOMAIN values : values[i] <= v}) >= k
    IN Lowest((n + 1) \div 2) + Lowest((n + 2) \div 2)

\* Each hour, whoever reported it.
MedianByHour(series) ==
    LET Reporting(h) == {i \in DOMAIN series : h \in DOMAIN series[i]}
    IN [h \in UNION {DOMAIN series[i] : i \in DOMAIN series} |->
          TwiceMedian([i \in Reporting(h) |-> series[i][h]])]

Ceiling(n, d) == (n + d - 1) \div d

Days(hours) == 1 .. IF hours = 0 THEN 1 ELSE Ceiling(hours, DayHours)

\* The mean of a day that has hours enough, in tenths; the last may be short.
DayMeans(doubled, start, hours) ==
    [d \in Days(hours) |->
        LET first == start + DayHours * (d - 1)
            length == IF d * DayHours <= hours THEN DayHours ELSE hours - DayHours * (d - 1)
            had == {h \in first .. first + length - 1 : h \in DOMAIN doubled}
            n == Cardinality(had)
        IN IF n = 0 \/ n < Ceiling(MinHours * length, DayHours) THEN None
           ELSE (10 * MapThenSumSet(LAMBDA h : doubled[h], had) + n) \div (2 * n)]

\* The worst day, when at least half of the days could be measured.
WorstDay(doubled, start, hours) ==
    LET means == DayMeans(doubled, start, hours)
        measured == {d \in DOMAIN means : means[d] # None}
    IN IF measured = {} \/ 2 * Cardinality(measured) < Len(means) THEN None
       ELSE Max({means[d] : d \in measured})

-----------------------------------------------------------------------------
(* Which stations and sensors are read.  read has the rows that come back    *)
(* for each sensor, or None where it cannot be read.                         *)

\* A reference monitor that was reporting at some time between the two.
Active(station, from, to) ==
    station.monitor /\ station.first <= to /\ from <= station.last

\* The members of a set by some number of each; equals in some order, always the same.
Sorted(S, key) ==
    CHOOSE q \in [1 .. Cardinality(S) -> S] :
        \A i, j \in DOMAIN q : i < j => q[i] # q[j] /\ key[q[i]] <= key[q[j]]

\* The stations to ask, nearest first.
Nearby(stations, from, to) ==
    LET active == {s \in stations : Active(s, from, to)}
    IN Sorted(active, [s \in active |-> s.distance])

\* Of a station's sensors, the newest that could be read and has any sound hour.
Sensor(station, pollutant, read) ==
    LET good == {s \in station.sensors[pollutant] :
                    read[s] # None /\ DOMAIN HourlySeries(read[s]) # {}}
    IN IF good = {} THEN None ELSE Max(good)

\* The sensors asked on the way to that one: the newer ones, and itself.
AskedOf(station, pollutant, read) ==
    LET chosen == Sensor(station, pollutant, read)
    IN {s \in station.sensors[pollutant] : chosen = None \/ s >= chosen}

\* The stations asked for a pollutant, up to the last that is needed.
Consulted(nearby, pollutant, read) ==
    LET Giving(n) == Cardinality({i \in 1 .. n : Sensor(nearby[i], pollutant, read) # None})
    IN {i \in DOMAIN nearby : Giving(i - 1) < MaxStations}

SeriesOf(nearby, pollutant, read) ==
    LET giving == {i \in Consulted(nearby, pollutant, read) :
                      Sensor(nearby[i], pollutant, read) # None}
    IN [i \in giving |-> HourlySeries(read[Sensor(nearby[i], pollutant, read)])]

\* The pollutants asked for: the next only where nobody gave the one before.
Tried(nearby, read) ==
    {p \in DOMAIN Pollutants :
        \A q \in 1 .. p - 1 : DOMAIN SeriesOf(nearby, Pollutants[q], read) = {}}

\* Every sensor that observe asks for.
SensorsAsked(nearby, read) ==
    UNION {UNION {AskedOf(nearby[i], Pollutants[p], read) :
                    i \in Consulted(nearby, Pollutants[p], read)} : p \in Tried(nearby, read)}

Unscorable(retryable) ==
    [status |-> "unscorable", retryable |-> retryable,
     pollutant |-> None, value |-> None, persistence |-> None]

\* What the stations recorded over a window, and over the day before it.
Observation(nearby, read, start, hours) ==
    LET giving == {p \in Tried(nearby, read) : DOMAIN SeriesOf(nearby, Pollutants[p], read) # {}}
        pollutant == Pollutants[Max(giving)]
        combined == MedianByHour(SeriesOf(nearby, pollutant, read))
        value == WorstDay(combined, start, hours)
    IN IF nearby = <<>> THEN Unscorable(FALSE)
       ELSE IF giving = {} \/ value = None THEN Unscorable(TRUE)
       ELSE [status |-> "scored", retryable |-> FALSE, pollutant |-> pollutant, value |-> value,
             persistence |-> DayMeans(combined, start - DayHours, DayHours)[1]]

-----------------------------------------------------------------------------
(* The baseline, and the bands side by side. *)

Doubled(series) == [h \in DOMAIN series |-> 2 * series[h]]

\* The same rule over the hours of the pollutant forecast, from its first one.
CamsFromHourly(hourly, hours) ==
    [p \in DOMAIN hourly |->
        WorstDay(Doubled(hourly[p]), Min(UNION {DOMAIN hourly[q] : q \in DOMAIN hourly}), hours)]

Scores ==
    [observed : Bands \cup {None}, persistence : Bands \cup {None}, cams : Bands \cup {None}]

\* score: the bands of an observation and of both baselines.
Score(observation, cams) ==
    LET p == observation.pollutant
    IN IF observation.status # "scored"
       THEN [observed |-> None, persistence |-> None, cams |-> None]
       ELSE [observed |-> BandFor(p, observation.value),
             persistence |-> BandOf(p, observation.persistence),
             cams |-> IF p \in DOMAIN cams THEN BandOf(p, cams[p]) ELSE None]

Gap(a, b) == IF a >= b THEN a - b ELSE b - a

\* Agreement over some cases, and how often each band was called for each.
BandScores(cases, called, observed) ==
    [scored |-> Cardinality(cases),
     exact |-> Cardinality({c \in cases : called[c] = observed[c]}),
     within |-> Cardinality({c \in cases : Gap(called[c], observed[c]) <= 1}),
     confusion |-> [o \in Bands |-> [b \in Bands |->
        Cardinality({c \in cases : observed[c] = o /\ called[c] = b})]]]
=============================================================================
