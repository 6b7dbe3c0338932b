--------------------------- MODULE ForecastLedger ---------------------------
(***************************************************************************)
(* ledger.py: every forecast served is written down, its no-model baseline *)
(* is fetched off the request, and passes over the ledger set beside it    *)
(* what the stations recorded once its window has closed.                  *)
(*                                                                         *)
(* A baseline thread and a pass each hold copies of the records they began *)
(* with, and save whole copies.  A pass reads stations over the network,   *)
(* entry by entry, and may outlast the interval at which passes are        *)
(* claimed; whether the stations are that slow is fixed per behaviour.     *)
(*                                                                         *)
(* Time is kept as ages that stop growing where they no longer matter, so  *)
(* that it can pass forever.                                               *)
(***************************************************************************)
EXTENDS Integers, Sequences, FiniteSets

CONSTANTS
    Forecasts,      \* the forecasts served, one record each
    Passes,         \* threads of scoring passes
    Horizon,        \* horizon_hours: the window opens when a forecast is made
    Settle,         \* SETTLE_HOURS
    GiveUp,         \* GIVE_UP_HOURS
    Interval,       \* vayudoot_forecast_scoring_interval_minutes
    PassLimit,      \* entries a pass takes
    MaxRestarts,    \* bounds restarts, and the passes that raise
    SlowSettings,   \* may the stations be slow?
    None

ASSUME ForecastsAssumption == IsFiniteSet(Forecasts)
ASSUME HoursAssumption ==
    /\ Horizon \in Nat /\ Settle \in Nat \ {0} /\ GiveUp \in Nat
    /\ Settle <= GiveUp
    /\ Interval \in Nat \ {0}
ASSUME LimitAssumption == PassLimit \in Nat \ {0} /\ MaxRestarts \in Nat
ASSUME SlowAssumption == SlowSettings \subseteq BOOLEAN

VARIABLES
    ledger,         \* the store: each forecast's record, None before it is served
    age,            \* hours since each was made
    capturing,      \* the forecasts whose baseline is being fetched
    pass,           \* each pass: where it is, and the copies it has yet to score
    since,          \* hours since a pass was last claimed in this process
    slow,
    restarts

vars == <<ledger, age, capturing, pass, since, slow, restarts>>

Pollutants == {"pm25", "pm10"}

\* ForecastOutcome: its status, the pollutant it was scored on (None if it was
\* not), and whether it compares with the baseline.  ForecastRecord: the
\* pollutants its baseline has a value of, none before one is kept.
Outcome == [status : {"scored", "unscorable"}, pollutant : Pollutants \cup {None},
            cams : BOOLEAN]
Record == [cams : SUBSET Pollutants, outcome : Outcome \cup {None}]
ASSUME NoneAssumption == None \notin Record
AsServed == [cams |-> {}, outcome |-> None]

OldestAge == Horizon + GiveUp

\* An entry of a pass: the copy, and still_worth_waiting at the pass's clock.
Entry == [id : Forecasts, copy : Record, wait : BOOLEAN]
Resting == [at |-> "idle", due |-> <<>>]

TypeOK ==
    /\ ledger \in [Forecasts -> Record \cup {None}]
    /\ age \in [Forecasts -> 0 .. OldestAge]
    /\ capturing \subseteq {f \in Forecasts : ledger[f] # None}
    /\ pass \in [Passes -> [at : {"idle", "claimed", "scoring"}, due : Seq(Entry)]]
    /\ \A p \in Passes :
         /\ Len(pass[p].due) <= PassLimit
         /\ \A i \in DOMAIN pass[p].due : ledger[pass[p].due[i].id] # None
    /\ since \in 0 .. Interval
    /\ slow \in BOOLEAN
    /\ restarts \in 0 .. MaxRestarts

Init ==
    /\ ledger = [f \in Forecasts |-> None]
    /\ age = [f \in Forecasts |-> 0]
    /\ capturing = {}
    /\ pass = [p \in Passes |-> Resting]
    /\ since = Interval
    /\ slow \in SlowSettings
    /\ restarts = 0

-----------------------------------------------------------------------------
\* save_forecast_record: the whole record, over whatever is there.
Saved(f, record) == [ledger EXCEPT ![f] = record]

\* forecast_records
Records == {f \in Forecasts : ledger[f] # None}

\* skill, over a window that takes in every record: what readers of the ledger
\* and the neighbours are shown.
Skill ==
    LET concluded(status) == {f \in Records : /\ ledger[f].outcome # None
                                              /\ ledger[f].outcome.status = status}
        scored == concluded("scored")
    IN [recorded |-> Cardinality(Records),
        pending |-> Cardinality({f \in Records : ledger[f].outcome = None}),
        scored |-> Cardinality(scored),
        unscorable |-> Cardinality(concluded("unscorable")),
        compared |-> Cardinality({f \in scored : ledger[f].outcome.cams})]

\* record, and the thread that fetches the baseline.
Serve(f) ==
    /\ ledger[f] = None
    /\ ledger' = Saved(f, AsServed)
    /\ age' = [age EXCEPT ![f] = 0]
    /\ capturing' = capturing \cup {f}
    /\ UNCHANGED <<pass, since, slow, restarts>>

\* capture_baselines saves a copy of the record as it was served, with a baseline
\* of what the model of the atmosphere had enough hours of; or nothing, when the
\* fetch failed or that is nothing.
Capture(f) ==
    /\ f \in capturing
    /\ capturing' = capturing \ {f}
    /\ \/ UNCHANGED ledger
       \/ \E cams \in SUBSET Pollutants \ {{}} :
            ledger' = Saved(f, [AsServed EXCEPT !.cams = cams])
    /\ UNCHANGED <<age, pass, since, slow, restarts>>

\* Faulty: the lock is there, the interval is not looked at.
Claim_Always(p) ==
    /\ pass[p].at = "idle"
    /\ since' = 0
    /\ pass' = [pass EXCEPT ![p].at = "claimed"]
    /\ UNCHANGED <<ledger, age, capturing, slow, restarts>>

\* claim_scoring_pass, for the scan timer or for a reader of the ledger.
Claim(p) ==
    /\ pass[p].at = "idle"
    /\ since >= Interval
    /\ since' = 0
    /\ pass' = [pass EXCEPT ![p].at = "claimed"]
    /\ UNCHANGED <<ledger, age, capturing, slow, restarts>>

\* Faulty: a window is taken as soon as it closes, before the stations settle.
Due_Unsettled(f) ==
    /\ f \in Records
    /\ ledger[f].outcome = None
    /\ age[f] >= Horizon

\* The window has closed and settled, and the stored record has no outcome.
Due(f) ==
    /\ f \in Records
    /\ ledger[f].outcome = None
    /\ age[f] >= Horizon + Settle

\* Faulty: retried for as long as there is nothing to read.
StillWorthWaiting_Always(f) == TRUE

StillWorthWaiting(f) == age[f] < Horizon + GiveUp

Taken(f) == [id |-> f, copy |-> ledger[f], wait |-> StillWorthWaiting(f)]

\* The entries of a pass: no forecast twice, oldest first, and at most so many.
Begun ==
    LET due == {f \in Forecasts : Due(f)}
        n == IF Cardinality(due) <= PassLimit THEN Cardinality(due) ELSE PassLimit
    IN {q \in [1 .. n -> {Taken(f) : f \in due}] :
          /\ \A i, j \in DOMAIN q : i < j => q[i].id # q[j].id /\ age[q[i].id] >= age[q[j].id]
          /\ \A f \in due, i \in DOMAIN q :
               age[f] > age[q[i].id] => \E j \in DOMAIN q : q[j].id = f}

\* score_due reads the clock and the ledger.
Begin(p) ==
    /\ pass[p].at = "claimed"
    /\ \E due \in Begun :
         pass' = [pass EXCEPT ![p] = IF due = <<>> THEN Resting
                                     ELSE [at |-> "scoring", due |-> due]]
    /\ UNCHANGED <<ledger, age, capturing, since, slow, restarts>>

\* score, on the copy the pass holds: the pollutant the stations had, beside the
\* baseline's value of the same pollutant, if the copy has one.
Judged(entry, pollutant) ==
    [entry.copy EXCEPT !.outcome = [status |-> "scored", pollutant |-> pollutant,
                                    cams |-> pollutant \in entry.copy.cams]]

Unscorable(entry) ==
    [entry.copy EXCEPT !.outcome = [status |-> "unscorable", pollutant |-> None,
                                    cams |-> FALSE]]

\* One entry is observed and its copy saved: scored, or unscorable for good (no
\* station near), or there is nothing to read yet, which is worth another
\* attempt until it is given up.
Concluding(entry) ==
    {Judged(entry, pollutant) : pollutant \in Pollutants}
        \cup {Unscorable(entry)}
        \cup (IF entry.wait THEN {entry.copy} ELSE {})

ScoreNext(p) ==
    /\ pass[p].at = "scoring"
    /\ LET entry == Head(pass[p].due)
           rest == Tail(pass[p].due)
       IN /\ \E record \in Concluding(entry) : ledger' = Saved(entry.id, record)
          /\ pass' = [pass EXCEPT ![p] = IF rest = <<>> THEN Resting
                                         ELSE [@ EXCEPT !.due = rest]]
    /\ UNCHANGED <<age, capturing, since, slow, restarts>>

\* The ledger cannot be read, or a save raises: the pass ends there, and what it had
\* left is for a later one.
Abandon(p) ==
    /\ pass[p].at # "idle"
    /\ restarts < MaxRestarts
    /\ restarts' = restarts + 1
    /\ pass' = [pass EXCEPT ![p] = Resting]
    /\ UNCHANGED <<ledger, age, capturing, since, slow>>

-----------------------------------------------------------------------------
\* The process is started again: its threads and its scoring clock are gone.
Restart ==
    /\ restarts < MaxRestarts
    /\ restarts' = restarts + 1
    /\ capturing' = {}
    /\ pass' = [p \in Passes |-> Resting]
    /\ since' = Interval
    /\ UNCHANGED <<ledger, age, slow>>

Older(n, most) == IF n < most THEN n + 1 ELSE most

\* An hour passes.  The fetch of a baseline has a timeout of seconds, so none
\* lasts until its window has closed and settled; and unless the stations are
\* slow, a pass ends within the interval.
Tick ==
    /\ \A f \in capturing : age[f] + 1 < Horizon + Settle
    /\ ~slow /\ since + 1 >= Interval => \A p \in Passes : pass[p].at = "idle"
    /\ age' = [f \in Forecasts |-> Older(age[f], OldestAge)]
    /\ since' = Older(since, Interval)
    /\ UNCHANGED <<ledger, capturing, pass, slow, restarts>>

Next ==
    \/ \E f \in Forecasts : Serve(f) \/ Capture(f)
    \/ \E p \in Passes : Claim(p) \/ Begin(p) \/ ScoreNext(p) \/ Abandon(p)
    \/ Restart
    \/ Tick

\* Threads run and time passes.  A pass that was claimed runs; that one is claimed
\* again is nobody's duty: the scan timer is off unless it is configured, and
\* otherwise a pass begins when somebody reads the ledger.
Fairness ==
    /\ WF_vars(Tick)
    /\ \A f \in Forecasts : WF_vars(Capture(f))
    /\ \A p \in Passes : WF_vars(Begin(p) \/ ScoreNext(p))

Spec == Init /\ [][Next]_vars /\ Fairness

-----------------------------------------------------------------------------
(* Properties. *)

Concluded(f) == ledger[f] # None /\ ledger[f].outcome # None

\* Nothing is scored before its window has closed and settled, whichever pass
\* scored it and however old the copy it held.
NothingScoredEarly == \A f \in Forecasts : Concluded(f) => age[f] >= Horizon + Settle

LedgerInv == TypeOK /\ NothingScoredEarly

\* "Always beside two baselines": no copy that was read before a baseline was
\* stored takes it back, and a score compares with the baseline exactly when the
\* record that is stored with it has one of the pollutant that was scored -- so a
\* comparison can be redone from the record it is published with, and none that
\* could be made is missing from the skill.
BaselineStands ==
    [][\A f \in Forecasts :
         ledger[f] # None =>
            /\ ledger[f].cams \subseteq ledger'[f].cams
            /\ ledger'[f].outcome # None /\ ledger'[f].outcome.status = "scored" =>
                  (ledger'[f].outcome.cams
                     <=> ledger'[f].outcome.pollutant \in ledger'[f].cams)]_vars

\* As long as passes keep being claimed, by the scan timer or by readers of the
\* ledger, every forecast made is scored or found unscorable in the end, and
\* nothing is pending again on the skill page -- although a pass takes only the
\* oldest, may meet nothing to read, may raise or be lost with its process and may
\* overlap another.
EveryForecastIsConcluded ==
    []<><<\E p \in Passes : Claim(p)>>_vars => <>[](Skill.pending = 0)

\* While passes do not overlap, an outcome is written once and for all: no
\* forecast is taken back from a score that was published, nor a comparison.
OutcomeStands ==
    [][~slow => /\ \A f \in Forecasts : Concluded(f) => ledger'[f] = ledger[f]
                /\ Skill'.compared >= Skill.compared]_vars
=============================================================================
