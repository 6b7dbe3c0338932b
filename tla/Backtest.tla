------------------------------ MODULE Backtest ------------------------------
(***************************************************************************)
(* scripts/forecast_backtest.py, run again and again over one disk cache.  *)
(* A run observes every case by the ledger's rule (Scoring), orders those  *)
(* it can score so that the groups share what may be spent on the model,   *)
(* asks the forecaster about each in turn, and reports.  Asking reads an   *)
(* attribute that models.Agent does not have, so that it always fails, and *)
(* all a run has of the forecaster are answers kept from before that was   *)
(* so.  Any fetch may fail; the run may be killed, also while it writes a  *)
(* file of the cache; and at any time hours of readings still come in.     *)
(* The prompt may be edited between runs, and be as it once was again.     *)
(***************************************************************************)
EXTENDS Scoring

CONSTANTS
    Cases, CaseOf,  \* [place, group, issued : the hour] of each case
    Order,          \* all_cases: in which order they are observed
    Pattern,        \* in which order the groups are drawn from
    Stations,       \* the stations around each place
    Recorded,       \* the rows of each sensor: at first, and when all have come in
    MonthHours,     \* the hours of a month
    Archive,        \* the hours of the CAMS archive for each case
    Horizon,        \* HORIZON
    Forecasters,    \* agent_key: the versions of the forecaster and its prompt
    Told,           \* the bands the forecaster may call
    PastAnswers,    \* <<case, forecaster>>: what it was asked while it could be
    Costs,          \* the requests one asking may take
    Budgets,        \* --max-calls
    MaxRuns, MaxFaults,
    Torn            \* a file that was being written when the run was killed

ASSUME CallsAssumption ==
    Costs \subseteq Nat /\ IsFiniteSet(Costs) /\ Costs # {} /\ Budgets \subseteq Nat
ASSUME PastAnswersAssumption == PastAnswers \subseteq Cases \X Forecasters
ASSUME BoundsOfRuns == MaxRuns \in Nat /\ MaxFaults \in Nat
ASSUME OrderAssumption ==
    Order \in Seq(Cases) /\ \A c \in Cases : \E i \in DOMAIN Order : Order[i] = c
ASSUME CasesAssumption ==
    /\ IsFiniteSet(Cases) /\ MonthHours \in Nat \ {0} /\ Horizon \in Nat
    /\ \A c \in Cases : CaseOf[c].issued \in Int /\ CaseOf[c].place \in DOMAIN Stations
ASSUME StationsAssumption ==
    /\ IsFiniteSet(DOMAIN Recorded[TRUE]) /\ DOMAIN Recorded[TRUE] \subseteq Int
    /\ \A p \in DOMAIN Stations :
         /\ IsFiniteSet(Stations[p])
         /\ \A s \in Stations[p] :
              /\ s.distance \in Int
              /\ \A i \in DOMAIN Pollutants : s.sensors[Pollutants[i]] \subseteq DOMAIN Recorded[TRUE]
ASSUME PatternAssumption ==
    Pattern \in Seq({CaseOf[c].group : c \in Cases})
        /\ \A c \in Cases : \E i \in DOMAIN Pattern : Pattern[i] = CaseOf[c].group

VARIABLES
    disk,       \* the cache: what each file holds
    complete,   \* have all the readings come in?
    run,        \* the run in progress
    report,     \* results.json: the tables of the last run that got to its end
    settled,    \* the rows of the first run that could read all it asked for
    runs, faults

backtestVars == <<disk, complete, run, report, settled, runs, faults>>

Sensors == DOMAIN Recorded[TRUE]
MonthOf(row) == row.from \div (2 * MonthHours)
Months == {MonthOf(r) : r \in UNION {Recorded[TRUE][s] : s \in Sensors}}

Files ==
    ({"place"} \X DOMAIN Stations) \cup ({"hours"} \X Sensors \X Months)
    \cup ({"cams"} \X Cases) \cup ({"answer"} \X Cases \X Forecasters)

Held(f) == disk[f] \notin {None, Torn}

NoRun == [at |-> "off", forecaster |-> None, next |-> 1, down |-> {}, whole |-> TRUE,
          rows |-> [c \in Cases |-> None], todo |-> <<>>,
          answers |-> [c \in Cases |-> None],
          budget |-> 0, spent |-> 0, used |-> 0, failures |-> 0]

RunOK(r) ==
    /\ DOMAIN r = DOMAIN NoRun
    /\ r.at \in {"off", "observing", "asking", "stopped"} /\ r.forecaster \in Forecasters \cup {None}
    /\ r.next \in Nat \ {0} /\ r.down \subseteq Files /\ r.whole \in BOOLEAN
    /\ r.rows \in [Cases -> Scores \cup {None}] /\ r.todo \in Seq(Cases)
    /\ r.answers \in [Cases -> Told \cup {None}]
    /\ r.budget \in Budgets \cup {0} /\ r.spent \in Nat /\ r.used \in Nat /\ r.failures \in 0 .. 3

BacktestTypeOK ==
    /\ DOMAIN disk = Files
    /\ \A c \in Cases, k \in Forecasters : disk[<<"answer", c, k>>] \in Told \cup {None, Torn}
    /\ complete \in BOOLEAN
    /\ RunOK(run)
    /\ runs \in 0 .. MaxRuns /\ faults \in 0 .. MaxFaults

\* Any of what was kept may have been half written.
BacktestInit ==
    /\ \E answers \in [PastAnswers -> Told \cup {Torn}] :
         disk = [f \in Files |->
                   IF f[1] = "answer" /\ <<f[2], f[3]>> \in PastAnswers THEN answers[<<f[2], f[3]>>]
                   ELSE None]
    /\ complete = FALSE
    /\ run = NoRun
    /\ report = None /\ settled = None
    /\ runs = 0 /\ faults = 0

Start ==
    /\ run.at = "off" /\ runs < MaxRuns
    /\ runs' = runs + 1
    /\ \E k \in Forecasters, budget \in Budgets :
         run' = [NoRun EXCEPT !.at = "observing", !.forecaster = k, !.budget = budget]
    /\ UNCHANGED <<disk, complete, report, settled, faults>>

-----------------------------------------------------------------------------
(* Observing, over the cache. *)

Observing == run.at = "observing" /\ run.next <= Len(Order)
Case == Order[run.next]

\* The months that a window and the day before it fall in.
MonthsOf(c) ==
    Months \cap ((CaseOf[c].issued - DayHours) \div MonthHours ..
                 (CaseOf[c].issued + Horizon - 1) \div MonthHours)

\* Faulty: the cache is written, and the network is read again while it answers.
HoursRead_Again(c, s) ==
    IF \E m \in MonthsOf(c) : ~Held(<<"hours", s, m>>) THEN None
    ELSE {r \in Recorded[complete][s] : MonthOf(r) \in MonthsOf(c)}

\* CachedStations.hours: whole months, and nothing when one of them fails.
HoursRead(c, s) ==
    IF \E m \in MonthsOf(c) : ~Held(<<"hours", s, m>>) THEN None
    ELSE UNION {disk[<<"hours", s, m>>] : m \in MonthsOf(c)}

ReadBy(c) == [s \in Sensors |-> HoursRead(c, s)]

Near(c) ==
    Nearby(Stations[CaseOf[c].place], CaseOf[c].issued - DayHours, CaseOf[c].issued + Horizon)

Placed(c) == Held(<<"place", CaseOf[c].place>>)

ObservationOf(c) ==
    IF Placed(c) THEN Observation(Near(c), ReadBy(c), CaseOf[c].issued, Horizon)
    ELSE Unscorable(TRUE)

\* A file that the case needs read and that nothing has been tried for.
Untried(f) == disk[f] = None /\ f \notin run.down

\* The months of a sensor that can still be read: no month before one has failed.
Readable(c, s) ==
    {m \in MonthsOf(c) : /\ Untried(<<"hours", s, m>>)
                         /\ \A n \in MonthsOf(c) : n < m => Held(<<"hours", s, n>>)}

\* The sensors of a station that are asked for and can still be read.
Waiting(c, asked, p, i) ==
    {s \in Near(c)[i].sensors[Pollutants[p]] : s \in asked /\ Readable(c, s) # {}}

\* The one observe comes to first: by pollutant, the nearest station first, and
\* its newest sensor first.
FirstWaiting(c, asked) ==
    LET p == Min({q \in DOMAIN Pollutants : \E j \in DOMAIN Near(c) : Waiting(c, asked, q, j) # {}})
        i == Min({j \in DOMAIN Near(c) : Waiting(c, asked, p, j) # {}})
    IN Max(Waiting(c, asked, p, i))

\* The one file the run fetches next for the case, if any: a sensor counts as
\* failed as long as it is not read, so that the first one asked for is due.
Due(c) ==
    LET asked == SensorsAsked(Near(c), ReadBy(c))
        sensor == FirstWaiting(c, asked)
    IN IF ~Placed(c) THEN {f \in {<<"place", CaseOf[c].place>>} : Untried(f)}
       ELSE IF \E p \in DOMAIN Pollutants, i \in DOMAIN Near(c) : Waiting(c, asked, p, i) # {}
       THEN {<<"hours", sensor, Min(Readable(c, sensor))>>}
       ELSE {f \in {<<"cams", c>>} : Untried(f) /\ ObservationOf(c).status = "scored"}

\* What the network has for a file.
Fetched(f) ==
    IF f[1] = "hours" THEN {r \in Recorded[complete][f[2]] : MonthOf(r) = f[3]} ELSE "read"

Fetch ==
    /\ Observing
    /\ \E f \in Due(Case) : disk' = [disk EXCEPT ![f] = Fetched(f)]
    /\ UNCHANGED <<complete, run, report, settled, runs, faults>>

\* A fetch fails; the case goes on without.
FetchFails ==
    /\ Observing /\ faults < MaxFaults
    /\ \E f \in Due(Case) : run' = [run EXCEPT !.down = @ \cup {f}, !.whole = FALSE]
    /\ faults' = faults + 1
    /\ UNCHANGED <<disk, complete, report, settled, runs>>

\* _slice: the archive from the issue time, if it reaches back that far.
Slice(c) ==
    LET hourly == Archive[c]
        window == CaseOf[c].issued .. CaseOf[c].issued + Horizon - 1
    IN [p \in {q \in DOMAIN hourly : CaseOf[c].issued \in DOMAIN hourly[q]} |->
          [h \in DOMAIN hourly[p] \cap window |-> hourly[p][h]]]

CamsOf(c) == IF Held(<<"cams", c>>) THEN CamsFromHourly(Slice(c), Horizon) ELSE <<>>

\* A torn month is a failed read like any other, which observe gets over.
Complete(c) ==
    /\ Placed(c)
    /\ \A s \in SensorsAsked(Near(c), ReadBy(c)) : HoursRead(c, s) # None

\* There is nothing left to fetch for the case, and its row is written.
Observe ==
    /\ Observing /\ Due(Case) = {}
    /\ ~(ObservationOf(Case).status = "scored" /\ disk[<<"cams", Case>>] = Torn)
    /\ run' = [run EXCEPT !.next = @ + 1, !.down = {}, !.whole = @ /\ Complete(Case),
                          !.rows[Case] = Score(ObservationOf(Case), CamsOf(Case))]
    /\ UNCHANGED <<disk, complete, report, settled, runs, faults>>

\* Half an archive cannot be parsed; that is no HTTPError, and ends the run.
ArchiveUnreadable ==
    /\ Observing /\ Due(Case) = {}
    /\ ObservationOf(Case).status = "scored" /\ disk[<<"cams", Case>>] = Torn
    /\ run' = NoRun
    /\ UNCHANGED <<disk, complete, report, settled, runs, faults>>

-----------------------------------------------------------------------------
(* The agent, over the cases that can be scored. *)

Usable(rows) ==
    {c \in Cases : rows[c].observed # None /\ rows[c].persistence # None /\ rows[c].cams # None}

Groups == {CaseOf[c].group : c \in Cases}
PlacesOf(g) == {i \in DOMAIN Pattern : Pattern[i] = g}
Share(g) == Cardinality(PlacesOf(g))

\* The members of a group shuffled by the seed: in some order, always the same.
Shuffled(S) == CHOOSE q \in [1 .. Cardinality(S) -> S] : \A i, j \in DOMAIN q : q[i] = q[j] => i = j

Members(rows, g) == Shuffled({c \in Usable(rows) : CaseOf[c].group = g})

\* Faulty: a group is drawn from until it has nothing left.
AgentCases_InTurn(rows) ==
    FlattenSeq([i \in DOMAIN SetToSeq(Groups) |-> Members(rows, SetToSeq(Groups)[i])])

\* Where in the pattern the n-th of a group is drawn.
PlaceIn(g, n) ==
    CHOOSE i \in PlacesOf(g) : Cardinality({j \in PlacesOf(g) : j < i}) = (n - 1) % Share(g)

\* When a case is drawn: in a round that the share of its group tells.
DrawnAt(rows, c) ==
    LET g == CaseOf[c].group
        n == CHOOSE n \in DOMAIN Members(rows, g) : Members(rows, g)[n] = c
    IN Len(Pattern) * ((n - 1) \div Share(g)) + PlaceIn(g, n)

\* pick_agent_cases: round after round each group is drawn from as often as the
\* pattern names it, while it has any left.
AgentCases(rows) == Sorted(Usable(rows), [c \in Usable(rows) |-> DrawnAt(rows, c)])

Pick ==
    /\ run.at = "observing" /\ run.next > Len(Order)
    /\ run' = [run EXCEPT !.at = "asking", !.next = 1, !.todo = AgentCases(run.rows)]
    /\ settled' = IF settled = None /\ run.whole THEN run.rows ELSE settled
    /\ UNCHANGED <<disk, complete, report, runs, faults>>

Asking == run.at = "asking" /\ run.next <= Len(run.todo)
Subject == run.todo[run.next]

\* Every prompt has answers of its own.
AnswerFile(c, forecaster) == <<"answer", c, forecaster>>

SubjectFile == AnswerFile(Subject, run.forecaster)

\* The answer of an earlier run is taken as it is, and costs nothing.
FromDisk ==
    /\ Asking /\ Held(SubjectFile)
    /\ run' = [run EXCEPT !.next = @ + 1, !.answers[Subject] = disk[SubjectFile]]
    /\ UNCHANGED <<disk, complete, report, settled, runs, faults>>

\* Half an answer cannot be parsed either.
AnswerUnreadable ==
    /\ Asking /\ disk[SubjectFile] = Torn
    /\ run' = NoRun
    /\ UNCHANGED <<disk, complete, report, settled, runs, faults>>

\* A forecast is asked for when what it usually takes can still be spent.
Affordable == Asking /\ disk[SubjectFile] = None /\ run.spent + 3 <= run.budget

\* Too dear; but a case further on may be kept.
Skip ==
    /\ Asking /\ disk[SubjectFile] = None /\ ~Affordable
    /\ run' = [run EXCEPT !.next = @ + 1]
    /\ UNCHANGED <<disk, complete, report, settled, runs, faults>>

\* Faulty: only the forecasts that were made are charged.
Charged_Nothing == 0

\* "Assume the worst about what a failure cost."
Charged == 3

\* The asking fails, before any request or after all it took to answer, and the
\* answer with it; why it failed is lost, so that only their number ends the
\* askings: at the third no other case is looked at, kept or not.
Fail ==
    /\ Affordable
    /\ \E cost \in Costs :
         run' = [run EXCEPT !.next = @ + 1, !.at = IF run.failures = 2 THEN "stopped" ELSE @,
                            !.spent = @ + Charged, !.used = @ + cost, !.failures = @ + 1]
    /\ UNCHANGED <<disk, complete, report, settled, runs, faults>>

\* The rows on which every method has a band.
Common(rows, bands) ==
    {c \in Cases : rows[c].observed # None /\ \A n \in DOMAIN bands : bands[n][c] # None}

\* summarise: each method on the common rows; bands are what each one called.
Summarise(rows, bands) ==
    [m \in DOMAIN bands |-> BandScores(Common(rows, bands), bands[m],
                                       [c \in Cases |-> rows[c].observed])]

Baselines(rows) ==
    [m \in {"persistence", "cams"} |-> [c \in Cases |-> rows[c][m]]]

\* results.json is written over, and the run is done.
Report ==
    /\ run.at = "stopped" \/ (run.at = "asking" /\ run.next > Len(run.todo))
    /\ run' = NoRun
    /\ report' = [baselines |-> Summarise(run.rows, Baselines(run.rows)),
                  agent |-> Summarise(run.rows, [agent |-> run.answers] @@ Baselines(run.rows))]
    /\ UNCHANGED <<disk, complete, settled, runs, faults>>

-----------------------------------------------------------------------------
\* The files that may be open for writing now.
Open ==
    IF Observing THEN Due(Case) ELSE {}

\* The run is killed, and may leave a file half written.
Kill ==
    /\ run.at # "off" /\ faults < MaxFaults
    /\ run' = NoRun
    /\ disk' \in {disk} \cup {[disk EXCEPT ![f] = Torn] : f \in Open}
    /\ faults' = faults + 1
    /\ UNCHANGED <<complete, report, settled, runs>>

\* The rest of the readings come in.
Arrive ==
    /\ ~complete
    /\ complete' = TRUE
    /\ UNCHANGED <<disk, run, report, settled, runs, faults>>

BacktestNext ==
    \/ Start \/ Fetch \/ FetchFails \/ Observe \/ ArchiveUnreadable
    \/ Pick \/ FromDisk \/ AnswerUnreadable \/ Skip \/ Fail \/ Report
    \/ Kill \/ Arrive

BacktestSpec == BacktestInit /\ [][BacktestNext]_backtestVars

-----------------------------------------------------------------------------
(* Properties. *)

\* A reproducible backtest: once a run could read all it asked for, every later
\* one writes the same rows and scores the baselines the same, whatever has come
\* in, failed or been cut short since.
CleanRunIsRepeatable ==
    [][settled # None =>
          /\ \A c \in Cases : run'.rows[c] # None => run'.rows[c] = settled[c]
          /\ report' # report =>
                report'.baselines = Summarise(settled, Baselines(settled))]_backtestVars

\* "Model requests to spend at most": what a run takes is not held to the budget
\* but to a number of askings, one for every three requests of it and three at
\* most, each of which may take what it likes.
WithinBudget == run.used <= Max(Costs) * Min({3, run.budget \div 3})

\* "Two burning-season cases for every one elsewhere or later", at any point the
\* budget may run out at: each group has had its share of the rounds gone by,
\* or has nothing left.
SampleIsSpread ==
    \A n \in DOMAIN run.todo, g \in Groups :
        LET Drawn(m) == Cardinality({i \in 1 .. m : CaseOf[run.todo[i]].group = g})
        IN Drawn(n) >= Min({Drawn(Len(run.todo)), Share(g) * (n \div Len(Pattern))})
=============================================================================
