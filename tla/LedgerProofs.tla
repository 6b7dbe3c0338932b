---------------------------- MODULE LedgerProofs ----------------------------
(***************************************************************************)
(* Proofs about the forecast ledger, for any finite set of forecasts, any  *)
(* number of passes, whatever the horizon, the hours to settle and to give *)
(* up, the interval between passes, and any number of restarts.            *)
(***************************************************************************)
EXTENDS ForecastLedger, FiniteSetTheorems, SequenceTheorems, TLAPS

\* A pass only holds forecasts whose window has settled.  Their baseline was
\* fetched, or had failed, before that, so the copy's is the record's.
EntryIsSettled(e) ==
    /\ e.copy.outcome = None
    /\ age[e.id] >= Horizon + Settle
    /\ e.copy.cams = ledger[e.id].cams

PassShape(p) ==
    /\ pass[p].at = "scoring" <=> pass[p].due # <<>>
    /\ \A i \in DOMAIN pass[p].due : EntryIsSettled(pass[p].due[i])
    /\ \A i, j \in DOMAIN pass[p].due : i # j => pass[p].due[i].id # pass[p].due[j].id

\* A score compares with the baseline beside it when that has its pollutant.
Matched(r) ==
    r.outcome # None /\ r.outcome.status = "scored" =>
       (r.outcome.cams <=> r.outcome.pollutant \in r.cams)

\* A baseline is stored before its forecast is due, on a record that is still as
\* it was served, and every score on the ledger matches its baseline.
BaselineFirst ==
    /\ \A f \in capturing : age[f] < Horizon + Settle /\ ledger[f] = AsServed
    /\ \A f \in Forecasts : ledger[f] # None => Matched(ledger[f])

\* While no pass outlasts the interval there is one at most, and what it holds
\* has no outcome yet.
OnePass ==
    ~slow =>
        /\ \A p, q \in Passes : pass[p].at # "idle" /\ pass[q].at # "idle" => p = q
        /\ since >= Interval => \A p \in Passes : pass[p].at = "idle"
        /\ \A p \in Passes : \A i \in DOMAIN pass[p].due :
             ledger[pass[p].due[i].id].outcome = None

PassInv ==
    /\ LedgerInv
    /\ \A p \in Passes : PassShape(p)
    /\ BaselineFirst
    /\ OnePass

-----------------------------------------------------------------------------
(* What the operators of the ledger make. *)

\* A record as it was served, and with its baseline.
LEMMA ServedType ==
    /\ AsServed \in Record /\ AsServed # None /\ AsServed.outcome = None /\ AsServed.cams = {}
    /\ \A cams \in SUBSET Pollutants :
         /\ [AsServed EXCEPT !.cams = cams] \in Record
         /\ [AsServed EXCEPT !.cams = cams] # None
         /\ [AsServed EXCEPT !.cams = cams].outcome = None
<1>1. AsServed \in Record /\ AsServed.outcome = None /\ AsServed.cams = {}
  BY DEF AsServed, Record
<1>2. \A cams \in SUBSET Pollutants : /\ [AsServed EXCEPT !.cams = cams] \in Record
                                       /\ [AsServed EXCEPT !.cams = cams].outcome = None
  BY DEF AsServed, Record
<1> QED
  BY <1>1, <1>2, NoneAssumption

\* What becomes of a copy a pass holds is a record with the copy's baseline, and
\* its score, if it is given one, is matched to that.
LEMMA ConcludingType ==
    ASSUME NEW e \in Entry, NEW r \in Concluding(e)
    PROVE  /\ r \in Record /\ r.cams = e.copy.cams
           /\ e.copy.outcome = None => Matched(r)
<1>1. e.copy \in Record
  BY DEF Entry
<1>2. CASE r = e.copy
  BY <1>1, <1>2 DEF Matched
<1>3. CASE r = Unscorable(e)
  <2>1. [status |-> "unscorable", pollutant |-> None, cams |-> FALSE] \in Outcome
    BY DEF Outcome
  <2> QED
    BY <1>1, <1>3, <2>1 DEF Unscorable, Record, Matched
<1>4. ASSUME NEW pollutant \in Pollutants, r = Judged(e, pollutant)
      PROVE  r \in Record /\ r.cams = e.copy.cams /\ Matched(r)
  <2> DEFINE o == [status |-> "scored", pollutant |-> pollutant,
                   cams |-> pollutant \in e.copy.cams]
  <2>1. o \in Outcome /\ o.pollutant = pollutant
    BY DEF Outcome
  <2>4. o.cams <=> pollutant \in e.copy.cams
    BY Zenon
  <2>2. r = [e.copy EXCEPT !.outcome = o]
    BY <1>4 DEF Judged
  <2> HIDE DEF o
  <2>3. r \in Record /\ r.cams = e.copy.cams /\ r.outcome = o
    BY <1>1, <2>1, <2>2 DEF Record
  <2> QED
    BY <2>1, <2>3, <2>4 DEF Matched
<1> QED
  BY <1>2, <1>3, <1>4 DEF Concluding

\* A pass takes forecasts that are due, each once, at most so many of them.
LEMMA BegunType ==
    ASSUME TypeOK, NEW q \in Begun
    PROVE  /\ q \in Seq(Entry) /\ Len(q) <= PassLimit
           /\ \A i \in DOMAIN q : /\ q[i].id \in Forecasts /\ Due(q[i].id)
                                  /\ q[i].copy = ledger[q[i].id]
           /\ \A i, j \in DOMAIN q : i # j => q[i].id # q[j].id
<1> DEFINE due == {f \in Forecasts : Due(f)}
           n == IF Cardinality(due) <= PassLimit THEN Cardinality(due) ELSE PassLimit
<1>1. n \in Nat /\ n <= PassLimit
  <2>1. IsFiniteSet(due)
    BY ForecastsAssumption, FS_Subset
  <2>2. Cardinality(due) \in Nat
    BY <2>1, FS_CardinalityType
  <2> QED
    BY <2>2, LimitAssumption
<1>2. /\ q \in [1 .. n -> {Taken(f) : f \in due}]
      /\ \A i, j \in DOMAIN q : i < j => q[i].id # q[j].id
  BY DEF Begun
<1> HIDE DEF n
<1>3. ASSUME NEW f \in due
      PROVE  Taken(f) \in Entry /\ Taken(f).id = f /\ Taken(f).copy = ledger[f]
  <2>1. f \in Forecasts /\ ledger[f] \in Record /\ StillWorthWaiting(f) \in BOOLEAN
    BY DEF Due, Records, TypeOK, StillWorthWaiting
  <2> QED
    BY <2>1 DEF Taken, Entry
<1>4. \A i \in 1 .. n : \E f \in due : q[i] = Taken(f)
  BY <1>2
<1>5. q \in [1 .. n -> Entry] /\ DOMAIN q = 1 .. n
  BY <1>2, <1>3, <1>4
<1>6. q \in Seq(Entry) /\ Len(q) = n
  BY <1>1, <1>5
<1>7. \A i \in DOMAIN q : /\ q[i].id \in Forecasts /\ Due(q[i].id)
                          /\ q[i].copy = ledger[q[i].id]
  BY <1>3, <1>4, <1>5
<1>8. \A i, j \in DOMAIN q : i # j => q[i].id # q[j].id
  <2>1. \A i, j \in 1 .. n : i # j => i < j \/ j < i
    BY <1>1
  <2> QED
    BY <1>2, <1>5, <2>1
<1> QED
  BY <1>1, <1>6, <1>7, <1>8

\* An entry of a pass is of a forecast that is on the ledger.
LEMMA EntryType ==
    ASSUME TypeOK, NEW p \in Passes, NEW i \in DOMAIN pass[p].due
    PROVE  /\ pass[p].due[i] \in Entry /\ pass[p].due[i].id \in Forecasts
           /\ ledger[pass[p].due[i].id] \in Record
<1>1. pass[p].due \in Seq(Entry)
  BY DEF TypeOK
<1>2. pass[p].due[i] \in Entry
  BY <1>1
<1>3. pass[p].due[i].id \in Forecasts
  BY <1>2 DEF Entry
<1> QED
  BY <1>2, <1>3 DEF TypeOK

\* What is left of a pass once its first entry is scored.
LEMMA RestOfPass ==
    ASSUME NEW due \in Seq(Entry), due # <<>>
    PROVE  /\ Head(due) \in Entry /\ Head(due) = due[1] /\ 1 \in DOMAIN due
           /\ Tail(due) \in Seq(Entry) /\ Len(Tail(due)) <= Len(due)
           /\ \A i \in DOMAIN Tail(due) : i + 1 \in DOMAIN due /\ i + 1 # 1
                                          /\ Tail(due)[i] = due[i + 1]
           /\ DOMAIN Tail(due) \subseteq Nat
BY HeadTailProperties

-----------------------------------------------------------------------------
(* Types, and the clock of the stations. *)

\* Each step keeps every variable in its type.
LEMMA TypeStep ==
    ASSUME TypeOK, \A p \in Passes : PassShape(p), Next
    PROVE  TypeOK'
<1>0. /\ ledger \in [Forecasts -> Record \cup {None}]
      /\ pass \in [Passes -> [at : {"idle", "claimed", "scoring"}, due : Seq(Entry)]]
      /\ Resting \in [at : {"idle", "claimed", "scoring"}, due : Seq(Entry)]
      /\ Resting.at = "idle" /\ Resting.due = <<>> /\ Len(<<>>) <= PassLimit
      /\ OldestAge \in Nat /\ Horizon + Settle <= OldestAge
  BY HoursAssumption, LimitAssumption DEF TypeOK, Resting, OldestAge
<1>1. ASSUME NEW f \in Forecasts, Serve(f) PROVE TypeOK'
  BY <1>0, <1>1, ServedType DEF Serve, Saved, TypeOK
<1>2. ASSUME NEW f \in Forecasts, Capture(f) PROVE TypeOK'
  <2>1. PICK record \in Record : record # None /\ ledger' \in {ledger, [ledger EXCEPT ![f] = record]}
    <3>1. CASE UNCHANGED ledger
      BY <3>1, ServedType
    <3>2. ASSUME NEW cams \in SUBSET Pollutants,
                 ledger' = [ledger EXCEPT ![f] = [AsServed EXCEPT !.cams = cams]]
          PROVE  \E record \in Record : /\ record # None
                                         /\ ledger' \in {ledger, [ledger EXCEPT ![f] = record]}
      BY <3>2, ServedType
    <3> QED
      BY <1>2, <3>1, <3>2 DEF Capture, Saved
  <2>2. /\ ledger' \in [Forecasts -> Record \cup {None}]
        /\ \A g \in Forecasts : ledger[g] # None => ledger'[g] # None
    BY <1>0, <2>1
  <2>3. capturing' \subseteq capturing /\ UNCHANGED <<age, pass, since, slow, restarts>>
    BY <1>2 DEF Capture
  <2> QED
    BY <2>2, <2>3, EntryType DEF TypeOK
<1>3. ASSUME NEW p \in Passes, Claim(p) PROVE TypeOK'
  BY <1>0, <1>3, HoursAssumption DEF Claim, TypeOK
<1>4. ASSUME NEW p \in Passes, Begin(p) PROVE TypeOK'
  <2>1. PICK due \in Begun : pass' = [pass EXCEPT ![p] = IF due = <<>> THEN Resting
                                                   ELSE [at |-> "scoring", due |-> due]]
    BY <1>4 DEF Begin
  <2>2. /\ due \in Seq(Entry) /\ Len(due) <= PassLimit
        /\ \A i \in DOMAIN due : due[i].id \in Forecasts /\ ledger[due[i].id] # None
    BY BegunType DEF Due, Records
  <2>3. UNCHANGED <<ledger, age, capturing, since, slow, restarts>>
    BY <1>4 DEF Begin
  <2>4. pass' \in [Passes -> [at : {"idle", "claimed", "scoring"}, due : Seq(Entry)]]
    BY <1>0, <2>1, <2>2
  <2>5. ASSUME NEW q \in Passes
        PROVE  /\ Len(pass'[q].due) <= PassLimit
               /\ \A i \in DOMAIN pass'[q].due : ledger[pass'[q].due[i].id] # None
    <3>1. pass'[q].due \in {pass[q].due, due, <<>>}
      BY <1>0, <2>1
    <3>2. CASE pass'[q].due = pass[q].due
      BY <1>0, <3>2 DEF TypeOK
    <3>3. CASE pass'[q].due = due
      BY <2>2, <3>3
    <3>4. CASE pass'[q].due = <<>>
      <4>1. Len(<<>>) = 0 /\ DOMAIN <<>> = {} /\ 0 <= PassLimit
        BY LimitAssumption
      <4> QED
        BY <3>4, <4>1
    <3> QED
      BY <3>1, <3>2, <3>3, <3>4
  <2> QED
    BY <2>3, <2>4, <2>5 DEF TypeOK
<1>5. ASSUME NEW p \in Passes, ScoreNext(p) PROVE TypeOK'
  <2> DEFINE due == pass[p].due
             entry == Head(due)
             rest == Tail(due)
  <2>1. due \in Seq(Entry) /\ due # <<>> /\ Len(due) <= PassLimit
    BY <1>0, <1>5 DEF ScoreNext, PassShape, TypeOK
  <2>2. /\ entry \in Entry /\ entry = due[1] /\ 1 \in DOMAIN due
        /\ rest \in Seq(Entry) /\ Len(rest) <= Len(due)
        /\ \A i \in DOMAIN rest : i + 1 \in DOMAIN due /\ rest[i] = due[i + 1]
    BY <2>1, RestOfPass
  <2>3. entry.id \in Forecasts
    BY <2>2 DEF Entry
  <2>4. PICK record \in Record : ledger' = [ledger EXCEPT ![entry.id] = record]
    BY <1>5, <2>2, ConcludingType DEF ScoreNext, Saved
  <2>5. /\ pass' = [pass EXCEPT ![p] = IF rest = <<>> THEN Resting
                                       ELSE [pass[p] EXCEPT !.due = rest]]
        /\ UNCHANGED <<age, capturing, since, slow, restarts>>
    BY <1>5 DEF ScoreNext
  <2> HIDE DEF entry, rest
  <2>6. /\ ledger' \in [Forecasts -> Record \cup {None}]
        /\ \A f \in Forecasts : ledger[f] # None => ledger'[f] # None
    BY <1>0, <2>3, <2>4, NoneAssumption
  <2>7. pass' \in [Passes -> [at : {"idle", "claimed", "scoring"}, due : Seq(Entry)]]
    BY <1>0, <2>2, <2>5
  <2>8. ASSUME NEW q \in Passes
        PROVE  /\ Len(pass'[q].due) <= PassLimit
               /\ \A i \in DOMAIN pass'[q].due : ledger'[pass'[q].due[i].id] # None
    <3>1. ASSUME NEW i \in DOMAIN pass[q].due
          PROVE  pass[q].due[i].id \in Forecasts /\ ledger[pass[q].due[i].id] # None
      BY <3>1, EntryType, NoneAssumption
    <3>2. CASE q # p
      BY <1>0, <2>5, <2>6, <3>1, <3>2 DEF TypeOK
    <3>3. CASE q = p /\ rest = <<>>
      BY <1>0, <2>5, <3>3
    <3>4. CASE q = p /\ rest # <<>>
      <4>1. pass'[q].due = rest
        BY <1>0, <2>5, <3>4
      <4>2. Len(rest) <= PassLimit
        BY <2>1, <2>2, LimitAssumption
      <4> QED
        BY <2>2, <2>6, <3>1, <3>4, <4>1, <4>2
    <3> QED
      BY <3>2, <3>3, <3>4
  <2>9. capturing' \subseteq {f \in Forecasts : ledger'[f] # None}
    BY <2>5, <2>6 DEF TypeOK
  <2> QED
    BY <2>5, <2>6, <2>7, <2>8, <2>9 DEF TypeOK
<1>6. CASE Restart
  BY <1>0, <1>6, LimitAssumption, HoursAssumption DEF Restart, TypeOK
<1>7. ASSUME NEW p \in Passes, Abandon(p) PROVE TypeOK'
  <2>1. /\ pass' = [pass EXCEPT ![p] = Resting] /\ restarts' \in 0 .. MaxRestarts
        /\ UNCHANGED <<ledger, age, capturing, since, slow>>
    BY <1>0, <1>7, LimitAssumption DEF Abandon, TypeOK
  <2>2. \A q \in Passes : pass'[q] = pass[q] \/ pass'[q] = Resting
    BY <1>0, <2>1 DEF TypeOK
  <2>3. Resting.due = <<>> /\ DOMAIN <<>> = {} /\ Len(<<>>) = 0 /\ 0 <= PassLimit
    BY LimitAssumption DEF Resting
  <2>4. \A q \in Passes : /\ Len(pass'[q].due) <= PassLimit
                          /\ \A i \in DOMAIN pass'[q].due : ledger[pass'[q].due[i].id] # None
    BY <2>2, <2>3 DEF TypeOK
  <2> QED
    BY <1>0, <2>1, <2>4 DEF TypeOK, Resting
<1>8. CASE Tick
  <2>1. ASSUME NEW m \in Nat, NEW n \in 0 .. m PROVE Older(n, m) \in 0 .. m
    BY DEF Older
  <2> QED
    BY <1>0, <1>8, <2>1, HoursAssumption DEF Tick, TypeOK
<1> QED
  BY <1>1, <1>2, <1>3, <1>4, <1>5, <1>6, <1>7, <1>8 DEF Next

-----------------------------------------------------------------------------
(* The invariant, one lemma for each step that disturbs it. *)

\* A forecast served: nobody holds a copy of it yet.
LEMMA ServeKeeps ==
    ASSUME PassInv, TypeOK', NEW f \in Forecasts, Serve(f)
    PROVE  PassInv'
<1>1. TypeOK /\ NothingScoredEarly /\ BaselineFirst /\ OnePass /\ \A p \in Passes : PassShape(p)
  BY DEF PassInv, LedgerInv
<1>2. /\ ledger[f] = None
      /\ ledger' = [ledger EXCEPT ![f] = AsServed]
      /\ age' = [age EXCEPT ![f] = 0]
      /\ capturing' = capturing \cup {f}
      /\ UNCHANGED <<pass, since, slow, restarts>>
  BY DEF Serve, Saved
<1>3. /\ \A g \in Forecasts \ {f} : ledger'[g] = ledger[g] /\ age'[g] = age[g]
      /\ ledger'[f] = AsServed /\ AsServed.outcome = None /\ age'[f] = 0
  BY <1>1, <1>2 DEF TypeOK, AsServed
<1>4. ASSUME NEW p \in Passes, NEW i \in DOMAIN pass[p].due
      PROVE  pass[p].due[i].id \in Forecasts \ {f}
  BY <1>1, <1>2, <1>4, EntryType, NoneAssumption
<1>5. NothingScoredEarly'
  BY <1>1, <1>3 DEF NothingScoredEarly, Concluded
<1>6. ASSUME NEW p \in Passes PROVE PassShape(p)'
  BY <1>1, <1>2, <1>3, <1>4 DEF PassShape, EntryIsSettled
<1>7. BaselineFirst'
  BY <1>1, <1>2, <1>3, HoursAssumption DEF BaselineFirst, Matched, TypeOK
<1>8. OnePass'
  BY <1>1, <1>2, <1>3, <1>4 DEF OnePass
<1> QED
  BY <1>5, <1>6, <1>7, <1>8 DEF PassInv, LedgerInv

\* A baseline stored: its forecast is not due, so it is in no pass.
LEMMA CaptureKeeps ==
    ASSUME PassInv, TypeOK', NEW f \in Forecasts, Capture(f)
    PROVE  PassInv'
<1>1. TypeOK /\ NothingScoredEarly /\ BaselineFirst /\ OnePass /\ \A p \in Passes : PassShape(p)
  BY DEF PassInv, LedgerInv
<1>2. /\ f \in capturing /\ capturing' = capturing \ {f}
      /\ \/ ledger' = ledger
         \/ \E cams \in SUBSET Pollutants :
              ledger' = [ledger EXCEPT ![f] = [AsServed EXCEPT !.cams = cams]]
      /\ UNCHANGED <<age, pass, since, slow, restarts>>
  BY DEF Capture, Saved
<1>3. /\ \A g \in Forecasts \ {f} : ledger'[g] = ledger[g]
      /\ ledger'[f] = ledger[f] \/ ledger'[f].outcome = None
  BY <1>1, <1>2, ServedType DEF TypeOK
<1>4. age[f] \in Int /\ age[f] < Horizon + Settle
  BY <1>1, <1>2 DEF BaselineFirst, TypeOK
<1>5. ASSUME NEW p \in Passes, NEW i \in DOMAIN pass[p].due
      PROVE  pass[p].due[i].id \in Forecasts \ {f}
  <2>1. pass[p].due[i].id \in Forecasts /\ age[pass[p].due[i].id] >= Horizon + Settle
    BY <1>1, <1>5, EntryType DEF PassShape, EntryIsSettled
  <2> QED
    BY <1>4, <2>1, HoursAssumption
<1>6. NothingScoredEarly'
  BY <1>1, <1>2, <1>3 DEF NothingScoredEarly, Concluded
<1>7. ASSUME NEW p \in Passes PROVE PassShape(p)'
  BY <1>1, <1>2, <1>3, <1>5 DEF PassShape, EntryIsSettled
<1>8. BaselineFirst'
  <2>1. capturing' \subseteq Forecasts \ {f} /\ UNCHANGED age
    BY <1>1, <1>2 DEF TypeOK
  <2> QED
    BY <1>1, <1>2, <1>3, <2>1 DEF BaselineFirst, Matched
<1>9. OnePass'
  BY <1>1, <1>2, <1>3, <1>5 DEF OnePass
<1> QED
  BY <1>6, <1>7, <1>8, <1>9 DEF PassInv, LedgerInv

\* A pass claimed: while passes end within the interval, no other is under way.
LEMMA ClaimKeeps ==
    ASSUME PassInv, TypeOK', NEW p \in Passes, Claim(p)
    PROVE  PassInv'
<1>1. TypeOK /\ NothingScoredEarly /\ BaselineFirst /\ OnePass /\ \A q \in Passes : PassShape(q)
  BY DEF PassInv, LedgerInv
<1>2. /\ pass[p].at = "idle" /\ since >= Interval /\ since' = 0
      /\ pass' = [pass EXCEPT ![p].at = "claimed"]
      /\ UNCHANGED <<ledger, age, capturing, slow, restarts>>
  BY DEF Claim
<1>3. /\ pass'[p].at = "claimed" /\ pass'[p].due = pass[p].due
      /\ \A q \in Passes \ {p} : pass'[q] = pass[q]
  BY <1>1, <1>2 DEF TypeOK
<1>4. pass[p].due = <<>>
  BY <1>1, <1>2 DEF PassShape
<1>5. ASSUME NEW q \in Passes PROVE PassShape(q)'
  BY <1>1, <1>2, <1>3, <1>4 DEF PassShape, EntryIsSettled
<1>6. OnePass'
  BY <1>1, <1>2, <1>3, <1>4, HoursAssumption DEF OnePass
<1>7. NothingScoredEarly' /\ BaselineFirst'
  BY <1>1, <1>2 DEF NothingScoredEarly, BaselineFirst, Concluded
<1> QED
  BY <1>5, <1>6, <1>7 DEF PassInv, LedgerInv

\* A pass begun: what it takes is due.
LEMMA BeginKeeps ==
    ASSUME PassInv, TypeOK', NEW p \in Passes, Begin(p)
    PROVE  PassInv'
<1>1. TypeOK /\ NothingScoredEarly /\ BaselineFirst /\ OnePass /\ \A q \in Passes : PassShape(q)
  BY DEF PassInv, LedgerInv
<1>2. PICK due \in Begun : pass' = [pass EXCEPT ![p] = IF due = <<>> THEN Resting
                                                 ELSE [at |-> "scoring", due |-> due]]
  BY DEF Begin
<1>3. pass[p].at = "claimed" /\ UNCHANGED <<ledger, age, capturing, since, slow, restarts>>
  BY DEF Begin
<1>4. /\ pass'[p].due = due
      /\ pass'[p].at = IF due = <<>> THEN "idle" ELSE "scoring"
      /\ \A q \in Passes \ {p} : pass'[q] = pass[q]
  BY <1>1, <1>2 DEF TypeOK, Resting
<1>5. /\ \A i \in DOMAIN due : EntryIsSettled(due[i]) /\ ledger[due[i].id].outcome = None
      /\ \A i, j \in DOMAIN due : i # j => due[i].id # due[j].id
  BY <1>1, BegunType DEF Due, EntryIsSettled
<1>6. ASSUME NEW q \in Passes PROVE PassShape(q)'
  BY <1>1, <1>3, <1>4, <1>5 DEF PassShape, EntryIsSettled
<1>7. OnePass'
  BY <1>1, <1>3, <1>4, <1>5 DEF OnePass
<1>8. NothingScoredEarly' /\ BaselineFirst'
  BY <1>1, <1>3 DEF NothingScoredEarly, BaselineFirst, Concluded
<1> QED
  BY <1>6, <1>7, <1>8 DEF PassInv, LedgerInv

\* What scoring an entry does to the ledger: its forecast is due, its baseline
\* stays as it is, and a score is matched to it.
LEMMA ScoreStep ==
    ASSUME PassInv, NEW p \in Passes, ScoreNext(p)
    PROVE  LET entry == pass[p].due[1]
           IN /\ 1 \in DOMAIN pass[p].due /\ entry.id \in Forecasts
              /\ ledger[entry.id] \in Record /\ age[entry.id] >= Horizon + Settle
              /\ \A g \in Forecasts \ {entry.id} : ledger'[g] = ledger[g]
              /\ ledger'[entry.id] \in Record
              /\ ledger'[entry.id].cams = ledger[entry.id].cams
              /\ Matched(ledger'[entry.id])
<1> DEFINE due == pass[p].due
           entry == due[1]
<1>1. TypeOK /\ PassShape(p) /\ pass[p].at = "scoring"
  BY DEF PassInv, LedgerInv, ScoreNext
<1>2. due \in Seq(Entry) /\ due # <<>>
  BY <1>1 DEF TypeOK, PassShape
<1>3. Head(due) = entry /\ 1 \in DOMAIN due
  BY <1>2, RestOfPass
<1>4. /\ entry \in Entry /\ entry.id \in Forecasts /\ ledger[entry.id] \in Record
      /\ EntryIsSettled(entry)
  BY <1>1, <1>3, EntryType DEF PassShape
<1>5. PICK record \in Concluding(entry) : ledger' = [ledger EXCEPT ![entry.id] = record]
  BY <1>3 DEF ScoreNext, Saved
<1>6. /\ entry.copy.cams = ledger[entry.id].cams /\ entry.copy.outcome = None
      /\ age[entry.id] >= Horizon + Settle
  BY <1>4 DEF EntryIsSettled
<1>7. record \in Record /\ record.cams = ledger[entry.id].cams /\ Matched(record)
  BY <1>4, <1>6, ConcludingType
<1> HIDE DEF entry
<1>8. /\ ledger'[entry.id] = record
      /\ \A g \in Forecasts \ {entry.id} : ledger'[g] = ledger[g]
  BY <1>1, <1>4, <1>5, <1>7 DEF TypeOK
<1> QED
  BY <1>3, <1>4, <1>6, <1>7, <1>8 DEF entry

\* An entry scored.
LEMMA ScoreKeeps ==
    ASSUME PassInv, TypeOK', NEW p \in Passes, ScoreNext(p)
    PROVE  PassInv'
<1> DEFINE due == pass[p].due
           entry == due[1]
           rest == Tail(due)
<1>1. TypeOK /\ NothingScoredEarly /\ BaselineFirst /\ OnePass /\ \A q \in Passes : PassShape(q)
  BY DEF PassInv, LedgerInv
<1>2. /\ pass[p].at = "scoring"
      /\ pass' = [pass EXCEPT ![p] = IF rest = <<>> THEN Resting
                                     ELSE [pass[p] EXCEPT !.due = rest]]
      /\ UNCHANGED <<age, capturing, since, slow, restarts>>
  BY DEF ScoreNext
<1>3. due \in Seq(Entry) /\ due # <<>>
  BY <1>1, <1>2 DEF TypeOK, PassShape
<1>4. /\ rest \in Seq(Entry) /\ 1 \in DOMAIN due
      /\ \A i \in DOMAIN rest : i + 1 \in DOMAIN due /\ i + 1 # 1 /\ rest[i] = due[i + 1]
      /\ DOMAIN rest \subseteq Nat
  BY <1>3, RestOfPass
<1>5. /\ entry.id \in Forecasts /\ ledger[entry.id] \in Record
      /\ age[entry.id] >= Horizon + Settle
      /\ \A g \in Forecasts \ {entry.id} : ledger'[g] = ledger[g]
      /\ ledger'[entry.id].cams = ledger[entry.id].cams
      /\ Matched(ledger'[entry.id])
  BY ScoreStep
<1> HIDE DEF entry, rest
<1>6. /\ pass'[p].due = rest
      /\ pass'[p].at = IF rest = <<>> THEN "idle" ELSE "scoring"
      /\ \A q \in Passes \ {p} : pass'[q] = pass[q]
  BY <1>1, <1>2, <1>4 DEF TypeOK, Resting
<1>7. NothingScoredEarly'
  BY <1>1, <1>2, <1>5 DEF NothingScoredEarly, Concluded
<1>8. BaselineFirst'
  <2>1. entry.id \notin capturing /\ capturing \subseteq Forecasts
    BY <1>1, <1>5, HoursAssumption DEF BaselineFirst, TypeOK
  <2> QED
    BY <1>1, <1>2, <1>5, <2>1 DEF BaselineFirst
<1>9. ASSUME NEW q \in Passes PROVE PassShape(q)'
  <2> DEFINE Settled(e) == /\ e.copy.outcome = None
                           /\ age'[e.id] >= Horizon + Settle
                           /\ e.copy.cams = ledger'[e.id].cams
  <2>1. \A i \in DOMAIN pass[q].due : Settled(pass[q].due[i])
    <3>1. ASSUME NEW i \in DOMAIN pass[q].due PROVE Settled(pass[q].due[i])
      <4>1. pass[q].due[i].id \in Forecasts /\ EntryIsSettled(pass[q].due[i])
        BY <1>1, <3>1, EntryType DEF PassShape
      <4> QED
        BY <1>2, <1>5, <4>1 DEF EntryIsSettled
    <3> QED
      BY <3>1
  <2>2. (\A i \in DOMAIN pass'[q].due : Settled(pass'[q].due[i]))
          => \A i \in DOMAIN pass'[q].due : EntryIsSettled(pass[q].due[i])'
    BY DEF EntryIsSettled
  <2>3. CASE q # p
    <3>1. pass'[q] = pass[q]
      BY <1>6, <2>3
    <3> HIDE DEF Settled
    <3> QED
      BY <1>1, <2>1, <2>2, <3>1 DEF PassShape
  <2>4. CASE q = p
    <3> HIDE DEF Settled
    <3>1. \A i \in DOMAIN rest : Settled(rest[i])
      BY <1>4, <2>1, <2>4
    <3>2. \A i, j \in DOMAIN rest : i # j => rest[i].id # rest[j].id
      <4>1. \A i, j \in DOMAIN rest : i # j => i + 1 # j + 1
        BY <1>4
      <4> QED
        BY <1>1, <1>4, <4>1 DEF PassShape
    <3>3. \A i \in DOMAIN pass'[q].due : EntryIsSettled(pass[q].due[i])'
      BY <1>6, <2>2, <2>4, <3>1
    <3>4. pass'[q].at = "scoring" <=> pass'[q].due # <<>>
      BY <1>6, <2>4
    <3>5. pass'[q].due = rest
      BY <1>6, <2>4
    <3> QED
      BY <3>2, <3>3, <3>4, <3>5 DEF PassShape
  <2> QED
    BY <2>3, <2>4
<1>10. OnePass'
  <2>0. CASE slow
    BY <1>2, <2>0 DEF OnePass
  <2> SUFFICES ASSUME ~slow PROVE OnePass'
    BY <2>0
  <2>1. \A q \in Passes : q # p => pass[q].at = "idle" /\ pass[q].due = <<>>
    BY <1>1, <1>2 DEF OnePass, PassShape
  <2>2. ASSUME NEW i \in DOMAIN rest PROVE ledger'[rest[i].id].outcome = None
    <3>1. /\ i + 1 \in DOMAIN due /\ rest[i] = due[i + 1]
          /\ due[i + 1].id # entry.id
      BY <1>1, <1>4, <2>2 DEF PassShape, entry
    <3>2. due[i + 1].id \in Forecasts /\ ledger[due[i + 1].id].outcome = None
      BY <1>1, <3>1, EntryType DEF OnePass
    <3> QED
      BY <1>5, <3>1, <3>2
  <2>3. since \in Int /\ Interval \in Int /\ ~(since >= Interval)
    BY <1>1, <1>2, HoursAssumption DEF OnePass, TypeOK
  <2>4. \A q \in Passes : pass'[q].at # "idle" => q = p
    BY <1>6, <2>1
  <2>5. ASSUME NEW q \in Passes, NEW i \in DOMAIN pass'[q].due
        PROVE  ledger'[pass'[q].due[i].id].outcome = None
    <3>1. q = p
      BY <1>6, <2>1, <2>5
    <3> QED
      BY <1>6, <2>2, <2>5, <3>1
  <2> QED
    BY <1>2, <2>3, <2>4, <2>5 DEF OnePass
<1> QED
  BY <1>7, <1>8, <1>9, <1>10 DEF PassInv, LedgerInv

\* A pass that raises: its copies are gone.
LEMMA AbandonKeeps ==
    ASSUME PassInv, TypeOK', NEW p \in Passes, Abandon(p)
    PROVE  PassInv'
<1>1. TypeOK /\ NothingScoredEarly /\ BaselineFirst /\ OnePass /\ \A q \in Passes : PassShape(q)
  BY DEF PassInv, LedgerInv
<1>2. /\ pass' = [pass EXCEPT ![p] = Resting]
      /\ UNCHANGED <<ledger, age, capturing, since, slow>>
  BY DEF Abandon
<1>3. \A q \in Passes : \/ pass'[q] = pass[q]
                        \/ pass'[q].at = "idle" /\ pass'[q].due = <<>>
  BY <1>1, <1>2 DEF TypeOK, Resting
<1>4. NothingScoredEarly' /\ BaselineFirst'
  BY <1>1, <1>2 DEF NothingScoredEarly, Concluded, BaselineFirst, Matched
<1>5. ASSUME NEW q \in Passes PROVE PassShape(q)'
  <2>1. CASE pass'[q] = pass[q]
    BY <1>1, <1>2, <2>1 DEF PassShape, EntryIsSettled
  <2>2. CASE pass'[q].at = "idle" /\ pass'[q].due = <<>>
    BY <2>2 DEF PassShape
  <2> QED
    BY <1>3, <2>1, <2>2
<1>6. OnePass'
  BY <1>1, <1>2, <1>3 DEF OnePass
<1> QED
  BY <1>4, <1>5, <1>6 DEF PassInv, LedgerInv

\* A restart, and an hour: no copy is left, and no copy gets younger.
LEMMA EnvironmentKeeps ==
    ASSUME PassInv, TypeOK', Restart \/ Tick
    PROVE  PassInv'
<1>1. TypeOK /\ NothingScoredEarly /\ BaselineFirst /\ OnePass /\ \A p \in Passes : PassShape(p)
  BY DEF PassInv, LedgerInv
<1>2. CASE Restart
  <2>1. /\ capturing' = {} /\ UNCHANGED <<ledger, age, slow>>
        /\ \A p \in Passes : pass'[p].at = "idle" /\ pass'[p].due = <<>>
    BY <1>2 DEF Restart, Resting
  <2> QED
    BY <1>1, <2>1 DEF PassInv, LedgerInv, NothingScoredEarly, BaselineFirst, Matched, Concluded,
                      OnePass, PassShape
<1>3. CASE Tick
  <2>1. /\ \A f \in capturing : age[f] + 1 < Horizon + Settle
        /\ ~slow /\ since + 1 >= Interval => \A p \in Passes : pass[p].at = "idle"
        /\ age' = [f \in Forecasts |-> Older(age[f], OldestAge)]
        /\ since' = Older(since, Interval)
        /\ UNCHANGED <<ledger, capturing, pass, slow, restarts>>
    BY <1>3 DEF Tick
  <2>2. \A m \in Nat : \A n \in 0 .. m : /\ n <= Older(n, m) /\ Older(n, m) <= n + 1
                                         /\ n \in Int /\ Older(n, m) \in Int
    BY DEF Older
  <2>3. /\ OldestAge \in Nat /\ Horizon + Settle \in Nat /\ Interval \in Nat
        /\ since \in 0 .. Interval
    BY <1>1, HoursAssumption DEF OldestAge, TypeOK
  <2>4. \A f \in Forecasts : /\ age[f] \in Int /\ age'[f] \in Int
                             /\ age[f] <= age'[f] /\ age'[f] <= age[f] + 1
    <3>1. ASSUME NEW f \in Forecasts PROVE age[f] \in 0 .. OldestAge /\ age'[f] = Older(age[f], OldestAge)
      BY <1>1, <2>1 DEF TypeOK
    <3> QED
      BY <2>2, <2>3, <3>1
  <2>5. since \in Int /\ since' \in Int /\ since' <= since + 1
    BY <2>1, <2>2, <2>3
  <2>6. NothingScoredEarly'
    BY <1>1, <2>1, <2>3, <2>4 DEF NothingScoredEarly, Concluded
  <2>7. ASSUME NEW p \in Passes PROVE PassShape(p)'
    <3>1. \A i \in DOMAIN pass[p].due : /\ pass[p].due[i].id \in Forecasts
                                        /\ EntryIsSettled(pass[p].due[i])
      BY <1>1, EntryType DEF PassShape
    <3>2. \A i \in DOMAIN pass[p].due : EntryIsSettled(pass[p].due[i])'
      BY <2>1, <2>3, <2>4, <3>1 DEF EntryIsSettled
    <3> QED
      BY <1>1, <2>1, <3>2 DEF PassShape
  <2>8. BaselineFirst'
    <3>1. \A f \in capturing : f \in Forecasts
      BY <1>1 DEF TypeOK
    <3> QED
      BY <1>1, <2>1, <2>3, <2>4, <3>1 DEF BaselineFirst, Matched
  <2>9. OnePass'
    BY <1>1, <2>1, <2>3, <2>5 DEF OnePass
  <2> QED
    BY <2>6, <2>7, <2>8, <2>9 DEF PassInv, LedgerInv
<1> QED
  BY <1>2, <1>3

-----------------------------------------------------------------------------
(* The theorems. *)

\* The inductive invariant: what passes hold, and that a baseline comes first.
THEOREM PassesHoldSettled == Spec => []PassInv
<1>1. Init => PassInv
  <2> SUFFICES ASSUME Init PROVE PassInv
    OBVIOUS
  <2>1. TypeOK
    BY HoursAssumption, LimitAssumption, SlowAssumption DEF Init, TypeOK, Resting, OldestAge
  <2> QED
    BY <2>1 DEF Init, PassInv, LedgerInv, NothingScoredEarly, Concluded, PassShape,
                BaselineFirst, OnePass, Resting
<1>2. PassInv /\ [Next]_vars => PassInv'
  <2> SUFFICES ASSUME PassInv, [Next]_vars PROVE PassInv'
    OBVIOUS
  <2>1. CASE Next
    <3>1. TypeOK'
      BY <2>1, TypeStep DEF PassInv, LedgerInv
    <3> QED
      BY <2>1, <3>1, ServeKeeps, CaptureKeeps, ClaimKeeps, BeginKeeps, ScoreKeeps,
         AbandonKeeps, EnvironmentKeeps DEF Next
  <2>2. CASE UNCHANGED vars
    BY <2>2 DEF vars, PassInv, LedgerInv, TypeOK, NothingScoredEarly, Concluded, PassShape,
                EntryIsSettled, BaselineFirst, OnePass
  <2> QED
    BY <2>1, <2>2
<1> QED
  BY <1>1, <1>2, PTL DEF Spec

\* LedgerInv: nothing is scored before its window has closed and settled.
THEOREM ScoresAreNeverEarly == Spec => []LedgerInv
<1>1. PassInv => LedgerInv
  BY DEF PassInv
<1> QED
  BY <1>1, PassesHoldSettled, PTL

\* BaselineStands: neither a late baseline nor a pass with an old copy takes a
\* stored baseline away, and a score compares when the baseline has its pollutant.
THEOREM BaselineIsNotLost == Spec => BaselineStands
<1> DEFINE Stands(f) ==
      ledger[f] # None =>
        /\ ledger[f].cams \subseteq ledger'[f].cams
        /\ ledger'[f].outcome # None /\ ledger'[f].outcome.status = "scored" =>
              (ledger'[f].outcome.cams
                 <=> ledger'[f].outcome.pollutant \in ledger'[f].cams)
<1>1. ASSUME PassInv, [Next]_vars, NEW f \in Forecasts, ledger[f] # None
      PROVE  ledger'[f] # None /\ ledger[f].cams \subseteq ledger'[f].cams
  <2>1. CASE ledger'[f] = ledger[f]
    BY <1>1, <2>1
  <2>2. ASSUME NEW g \in Forecasts, Serve(g) PROVE ledger'[f] = ledger[f]
    <3>1. g # f
      BY <1>1, <2>2 DEF Serve
    <3> QED
      BY <1>1, <2>2, <3>1 DEF Serve, Saved, PassInv, LedgerInv, TypeOK
  <2>3. ASSUME NEW g \in Forecasts, Capture(g), ledger'[f] # ledger[f]
        PROVE  ledger'[f] # None /\ ledger[f].cams = {}
    <3>1. ledger \in [Forecasts -> Record \cup {None}]
      BY <1>1 DEF PassInv, LedgerInv, TypeOK
    <3>2. ledger[g] = AsServed
      BY <1>1, <2>3 DEF Capture, PassInv, BaselineFirst
    <3>3. PICK cams \in SUBSET Pollutants :
            ledger' = [ledger EXCEPT ![g] = [AsServed EXCEPT !.cams = cams]]
      BY <2>3 DEF Capture, Saved
    <3>4. g = f
      BY <2>3, <3>1, <3>3
    <3>5. ledger'[f] = [AsServed EXCEPT !.cams = cams]
      BY <3>1, <3>3, <3>4
    <3> QED
      BY <3>2, <3>4, <3>5, ServedType
  <2>4. ASSUME NEW p \in Passes, ScoreNext(p), ledger'[f] # ledger[f]
        PROVE  ledger'[f] # None /\ ledger'[f].cams = ledger[f].cams
    <3>1. f = pass[p].due[1].id
      BY <1>1, <2>4, ScoreStep
    <3> QED
      BY <1>1, <2>4, <3>1, ScoreStep, NoneAssumption
  <2>5. CASE \/ \E p \in Passes : Claim(p) \/ Begin(p) \/ Abandon(p)
             \/ Restart \/ Tick \/ UNCHANGED vars
    BY <2>1, <2>5 DEF Claim, Begin, Abandon, Restart, Tick, vars
  <2> QED
    BY <1>1, <2>1, <2>2, <2>3, <2>4, <2>5 DEF Next
<1>2. ASSUME PassInv, BaselineFirst', [Next]_vars, NEW f \in Forecasts, ledger[f] # None
      PROVE  Matched(ledger'[f])
  BY <1>1, <1>2 DEF BaselineFirst
<1>3. PassInv /\ PassInv' /\ [Next]_vars => [\A f \in Forecasts : Stands(f)]_vars
  BY <1>1, <1>2 DEF PassInv, LedgerInv, Matched
<1> QED
  BY <1>3, PassesHoldSettled, PTL DEF Spec, BaselineStands

\* What the ledger loses nothing of, the skill page loses no comparison of.
LEMMA ComparisonsStay ==
    ASSUME \A f \in Forecasts : Concluded(f) => ledger'[f] = ledger[f]
    PROVE  Skill'.compared >= Skill.compared
<1> DEFINE Compared == {f \in {f \in Records : /\ ledger[f].outcome # None
                                              /\ ledger[f].outcome.status = "scored"} :
                          ledger[f].outcome.cams}
<1>1. Skill.compared = Cardinality(Compared) /\ Skill'.compared = Cardinality(Compared')
  BY DEF Skill
<1>2. Compared \subseteq Compared'
  BY DEF Records, Concluded
<1>3. IsFiniteSet(Compared) /\ IsFiniteSet(Compared')
  <2>1. Compared \subseteq Forecasts /\ Compared' \subseteq Forecasts
    BY DEF Records
  <2> QED
    BY <2>1, ForecastsAssumption, FS_Subset
<1> HIDE DEF Compared
<1>4. /\ Cardinality(Compared) <= Cardinality(Compared')
      /\ Cardinality(Compared) \in Nat /\ Cardinality(Compared') \in Nat
  BY <1>2, <1>3, FS_Subset, FS_CardinalityType
<1> QED
  BY <1>1, <1>4

\* OutcomeStands: while no pass outlasts the interval, no outcome that was
\* published is taken back, and no comparison leaves the skill page.
THEOREM OutcomesAreFinal == Spec => OutcomeStands
<1> DEFINE Final == ~slow => /\ \A f \in Forecasts : Concluded(f) => ledger'[f] = ledger[f]
                             /\ Skill'.compared >= Skill.compared
<1>1. ASSUME PassInv, [Next]_vars, ~slow, NEW f \in Forecasts, Concluded(f)
      PROVE  ledger'[f] = ledger[f]
  <2>1. /\ TypeOK /\ ledger[f] # None
        /\ age[f] \in Int /\ age[f] >= Horizon + Settle /\ Horizon + Settle \in Int
    BY <1>1, HoursAssumption DEF PassInv, LedgerInv, NothingScoredEarly, Concluded, TypeOK
  <2>2. ASSUME NEW g \in Forecasts, Serve(g) PROVE ledger'[f] = ledger[f]
    <3>1. g # f
      BY <2>1, <2>2 DEF Serve
    <3> QED
      BY <2>1, <2>2, <3>1 DEF Serve, Saved, TypeOK
  <2>3. ASSUME NEW g \in Forecasts, Capture(g) PROVE ledger'[f] = ledger[f]
    <3>1. age[g] < Horizon + Settle
      BY <1>1, <2>3 DEF PassInv, BaselineFirst, Capture
    <3>2. g # f
      BY <2>1, <3>1
    <3> QED
      BY <2>1, <2>3, <3>2 DEF Capture, Saved, TypeOK
  <2>4. ASSUME NEW p \in Passes, ScoreNext(p) PROVE ledger'[f] = ledger[f]
    <3>1. /\ 1 \in DOMAIN pass[p].due
          /\ \A g \in Forecasts \ {pass[p].due[1].id} : ledger'[g] = ledger[g]
      BY <1>1, <2>4, ScoreStep
    <3>2. ledger[pass[p].due[1].id].outcome = None
      BY <1>1, <3>1 DEF PassInv, OnePass
    <3>3. f # pass[p].due[1].id
      BY <1>1, <3>2 DEF Concluded
    <3> QED
      BY <3>1, <3>3
  <2>5. CASE \/ \E p \in Passes : Claim(p) \/ Begin(p) \/ Abandon(p)
             \/ Restart \/ Tick \/ UNCHANGED vars
    BY <2>5 DEF Claim, Begin, Abandon, Restart, Tick, vars
  <2> QED
    BY <1>1, <2>2, <2>3, <2>4, <2>5 DEF Next
<1>2. PassInv /\ [Next]_vars => [Final]_vars
  BY <1>1, ComparisonsStay
<1> QED
  BY <1>2, PassesHoldSettled, PTL DEF Spec, OutcomeStands
=============================================================================
