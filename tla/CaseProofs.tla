----------------------------- MODULE CaseProofs -----------------------------
(***************************************************************************)
(* Proofs about the case service, for every set of handlers, authorities,  *)
(* reports and dates, every calendar, and every setting of the switches:   *)
(* requests may race each other and the pipeline, and the process may      *)
(* restart at any point.  Then what the register shows of any case, and    *)
(* last what more holds when requests come one at a time.                  *)
(***************************************************************************)
EXTENDS CaseInvariant, Register, TLAPS

-----------------------------------------------------------------------------
(* The pure transitions keep a case a case. *)

\* A submitted report makes a case, before any stage has run.
LEMMA NewCaseType ==
    ASSUME NEW report \in Reports
    PROVE  NewCase(report) \in Case
BY DEF NewCase, Case, Status, Stage, Artefact

\* Each transition of filing.py and lifecycle.py, on any case and any day.
LEMMA TransitionType ==
    ASSUME NEW c \in Case, NEW day \in Day, NEW on \in Int
    PROVE  /\ FileComplaint(c, day) \in Case
           /\ Escalate(c, day) \in Case
           /\ Acknowledge(c, on) \in Case
           /\ Resolve(c, day) \in Case
           /\ Withdraw(c, day) \in Case
           /\ DraftRti(c) \in Case
<1>1. Status = {"draft", "awaiting_confirmation", "filed", "acknowledged",
               "escalated", "resolved", "withdrawn", "rejected", "failed"}
  BY DEF Status
<1>2. FileComplaint(c, day) \in Case
  BY <1>1 DEF FileComplaint, Case
<1>3. Escalate(c, day) \in Case
  BY <1>1 DEF Escalate, Case
<1>4. Acknowledge(c, on) \in Case
  BY <1>1 DEF Acknowledge, Case
<1>5. Resolve(c, day) \in Case
  BY <1>1 DEF Resolve, Case
<1>6. Withdraw(c, day) \in Case
  BY <1>1 DEF Withdraw, Case
<1>7. DraftRti(c) \in Case
  BY DEF DraftRti, Case, Artefact
<1> QED
  BY <1>2, <1>3, <1>4, <1>5, <1>6, <1>7

-----------------------------------------------------------------------------
(* Type correctness. *)

\* What becomes of a write: the store takes it, or the case is parked as failed,
\* or nothing is written and the task is gone.
Taken(case, next) == Write(case, [at |-> next, case |-> case])
Ended(case) == Write(case, EndedAs("done"))
Parked(case) == Write([case EXCEPT !.status = "failed"], EndedAs("done"))
Lost == Write(stored, EndedAs("gone"))

LEMMA WriteEnds ==
    ASSUME NEW case, NEW next
    PROVE  /\ Checkpoint(case, next) => Taken(case, next) \/ Parked(case) \/ Lost
           /\ Halt(case) => Ended(case) \/ Parked(case) \/ Lost
           /\ Park(case) => Parked(case) \/ Lost
           /\ Lose => Lost
BY DEF Checkpoint, Halt, Park, Lose, Taken, Ended, Parked, Lost

\* What a write of the pipeline does to the types, given the case written.
LEMMA WriteType ==
    ASSUME TypeOK, NEW case \in Case, NEW next \in Working,
           \/ Checkpoint(case, next) \/ Halt(case) \/ Park(case)
           \/ Taken(case, next) \/ Lose
    PROVE  TypeOK'
<1>1. Taken(case, next) \/ Ended(case) \/ Parked(case) \/ Lost
  BY WriteEnds
<1>2. [case EXCEPT !.status = "failed"] \in Case
  BY DEF Case, Status
<1>3. CASE Taken(case, next)
  BY <1>3 DEF TypeOK, Taken, Write, RunState
<1>4. CASE Ended(case)
  BY <1>4 DEF TypeOK, Ended, Write, EndedAs, Working, RunState, Over
<1>5. CASE Parked(case)
  <2> DEFINE d == [case EXCEPT !.status = "failed"]
  <2>1. d \in Case /\ Write(d, EndedAs("done"))
    BY <1>2, <1>5 DEF Parked
  <2> HIDE DEF d
  <2> QED
    BY <2>1 DEF TypeOK, Write, EndedAs, Working, RunState, Over
<1>6. CASE Lost
  BY <1>6 DEF TypeOK, Lost, Write, EndedAs, Working, RunState, Over
<1> QED
  BY <1>1, <1>3, <1>4, <1>5, <1>6

\* Every step of the pipeline task keeps every variable in its type.
LEMMA PipelineType ==
    ASSUME TypeOK, Pipeline
    PROVE  TypeOK'
<1> DEFINE c == run.case
<1>0. run.at \in Working => c \in Case
  BY DEF TypeOK
<1>1. CASE Receive
  <2>1. c \in Case /\ "geocode" \in Working
    BY <1>0, <1>1 DEF Receive, Working
  <2> DEFINE d == [c EXCEPT !.stage = "received"]
  <2>2. d \in Case
    BY <2>1 DEF Case, Stage
  <2>3. Taken(d, "geocode") \/ Lose
    BY <1>1 DEF Receive, Taken
  <2> HIDE DEF d
  <2> QED
    BY <2>1, <2>2, <2>3, WriteType
<1>2. CASE Locate
  <2>1. c \in Case
    BY <1>0, <1>2 DEF Locate, Working
  <2>2. /\ [c EXCEPT !.status = "rejected", !.stage = "halted"] \in Case
        /\ [c EXCEPT !.stage = "evidence"] \in Case
    <3>1. {"rejected"} \subseteq Status /\ {"halted", "evidence"} \subseteq Stage
      BY DEF Status, Stage
    <3> QED
      BY <2>1, <3>1 DEF Case
  <2>3. (IF c.report.voice THEN "hear" ELSE "evidence") \in Working
    BY DEF Working
  <2>4. \/ Halt([c EXCEPT !.status = "rejected", !.stage = "halted"])
        \/ Checkpoint([c EXCEPT !.stage = "evidence"],
                      IF c.report.voice THEN "hear" ELSE "evidence")
    BY <1>2 DEF Locate
  <2> HIDE DEF c
  <2> QED
    BY <2>2, <2>3, <2>4, WriteType
<1>3. CASE Hear
  <2>1. c \in Case /\ "evidence" \in Working
    BY <1>0, <1>3 DEF Hear, Working
  <2>2. PICK played \in BOOLEAN, speech \in BOOLEAN :
          LET heard == IF played THEN [c EXCEPT !.held = @ \cup {"voice"}] ELSE c
          IN IF (played /\ speech) \/ c.report.something_else
             THEN /\ run' = [at |-> "evidence", case |-> heard]
                  /\ UNCHANGED <<stored, req, outbox, live, today>>
             ELSE Halt([heard EXCEPT !.status = "failed"])
    BY <1>3 DEF Hear
  <2> DEFINE heard == IF played THEN [c EXCEPT !.held = @ \cup {"voice"}] ELSE c
  <2>3. heard \in Case
    BY <2>1 DEF Case, Artefact
  <2>4. [heard EXCEPT !.status = "failed"] \in Case
    <3> HIDE DEF heard
    <3> QED
      BY <2>3 DEF Case, Status
  <2>5. CASE (played /\ speech) \/ c.report.something_else
    <3>1. run' = [at |-> "evidence", case |-> heard]
          /\ UNCHANGED <<stored, req, outbox, live, today>>
      BY <2>2, <2>5
    <3> HIDE DEF heard
    <3> QED
      BY <2>1, <2>3, <3>1 DEF TypeOK, RunState
  <2>6. CASE ~((played /\ speech) \/ c.report.something_else)
    <3>1. Halt([heard EXCEPT !.status = "failed"])
      BY <2>2, <2>6
    <3> HIDE DEF heard
    <3> QED
      BY <2>1, <2>4, <3>1, WriteType
  <2> QED
    BY <2>5, <2>6
<1>4. CASE Assess
  <2>1. c \in Case
    BY <1>0, <1>4 DEF Assess, Working
  <2> DEFINE d == [c EXCEPT !.held = @ \cup {"evidence"}]
  <2>2. d \in Case
    BY <2>1 DEF Case, Artefact
  <2>3. \/ Halt([d EXCEPT !.status = "rejected", !.stage = "halted"])
        \/ Checkpoint([d EXCEPT !.stage = "corroboration"], "corroboration")
    BY <1>4 DEF Assess
  <2> HIDE DEF d
  <2>4. /\ [d EXCEPT !.status = "rejected", !.stage = "halted"] \in Case
        /\ [d EXCEPT !.stage = "corroboration"] \in Case
    <3>1. {"rejected"} \subseteq Status /\ {"halted", "corroboration"} \subseteq Stage
      BY DEF Status, Stage
    <3> QED
      BY <2>2, <3>1 DEF Case
  <2>5. "corroboration" \in Working
    BY DEF Working
  <2> QED
    BY <2>3, <2>4, <2>5, WriteType
<1>5. CASE Corroborate
  <2>1. c \in Case /\ "jurisdiction" \in Working
    BY <1>0, <1>5 DEF Corroborate, Working
  <2>2. [c EXCEPT !.held = @ \cup {"corroboration"}, !.stage = "jurisdiction"] \in Case
    BY <2>1 DEF Case, Artefact, Stage
  <2> QED
    BY <1>5, <2>1, <2>2, WriteType DEF Corroborate
<1>6. CASE ResolveJurisdiction
  <2>1. c \in Case /\ "drafting" \in Working
    BY <1>0, <1>6 DEF ResolveJurisdiction, Working
  <2>2. PICK j \in Authorities :
          Checkpoint([c EXCEPT !.jurisdiction = j, !.stage = "drafting"], "drafting")
    BY <1>6 DEF ResolveJurisdiction
  <2>3. [c EXCEPT !.jurisdiction = j, !.stage = "drafting"] \in Case
    BY <2>1 DEF Case, Stage
  <2> QED
    BY <2>1, <2>2, <2>3, WriteType
<1>7. CASE Draft
  <2>1. c \in Case /\ "complete" \in Working
    BY <1>0, <1>7 DEF Draft, Working
  <2>2. [c EXCEPT !.held = @ \cup {"complaint"}, !.status = "awaiting_confirmation",
                  !.stage = "complete"] \in Case
    BY <2>1 DEF Case, Artefact, Status, Stage
  <2> QED
    BY <1>7, <2>1, <2>2, WriteType DEF Draft
<1>8. CASE SaveAgain
  <2>1. c \in Case /\ run.at \in Working
    BY <1>0, <1>8 DEF SaveAgain, Working
  <2> QED
    BY <1>8, <2>1, WriteType DEF SaveAgain
<1>9. CASE Fail
  <2>1. c \in Case /\ run.at \in Working
    BY <1>0, <1>9 DEF Fail, Working
  <2> QED
    BY <1>9, <2>1, WriteType DEF Fail
<1> QED
  BY <1>1, <1>2, <1>3, <1>4, <1>5, <1>6, <1>7, <1>8, <1>9 DEF Pipeline


\* A request's copy is the case it loaded, changed only by a transition.
LEMMA RequestType ==
    ASSUME TypeOK, NEW h \in Handlers,
           (\E op \in Operation : Load(h, op)) \/ Deliver(h) \/ Save(h) \/ GiveUp(h)
    PROVE  TypeOK'
<1> DEFINE c == req[h].copy
<1>0. /\ Idle \in [op : Operation \cup {"none"}, copy : Case \cup {None}, sent : BOOLEAN]
      /\ Idle.op = "none"
  BY DEF Idle
<1>1. req[h].op # "none" => c \in Case
  BY DEF TypeOK
<1>2. CASE \E op \in Operation : Load(h, op)
  <2>1. PICK op \in Operation : Load(h, op)
    BY <1>2
  <2>2. stored \in Case
    BY <2>1 DEF Load, TypeOK
  <2>3. /\ req' = [req EXCEPT ![h] = [op |-> op, copy |-> stored, sent |-> FALSE]]
        /\ UNCHANGED <<stored, run, outbox, live, today>>
    BY <2>1 DEF Load
  <2> QED
    BY <2>2, <2>3 DEF TypeOK
<1>3. CASE Deliver(h)
  <2>1. c \in Case /\ req[h].op \in Sending
    BY <1>1, <1>3 DEF Deliver, Sending
  <2>2. Sent(req[h].op, c, today) \in Case
    BY <2>1, TransitionType, 0 \in Int DEF Sent, TypeOK
  <2>3. /\ req' = [req EXCEPT ![h] = [op |-> req[h].op, sent |-> TRUE,
                                      copy |-> Sent(req[h].op, c, today)]]
        /\ outbox' = [outbox EXCEPT ![req[h].op] =
                        IF outbox[req[h].op] < 2 THEN outbox[req[h].op] + 1 ELSE 2]
        /\ UNCHANGED <<stored, run, live, today>>
    BY <1>3 DEF Deliver
  <2>4. req' \in [Handlers -> [op : Operation \cup {"none"},
                               copy : Case \cup {None}, sent : BOOLEAN]]
    BY <2>2, <2>3 DEF TypeOK
  <2>5. \A g \in Handlers : req'[g].op # "none" => req'[g].copy \in Case
    BY <2>2, <2>3 DEF TypeOK
  <2>6. outbox' \in [Sending -> 0 .. 2]
    BY <2>1, <2>3 DEF TypeOK
  <2> QED
    BY <2>3, <2>4, <2>5, <2>6 DEF TypeOK
<1>4. CASE Save(h)
  <2>1. /\ req' = [req EXCEPT ![h] = Idle]
        /\ UNCHANGED <<run, outbox, live, today>>
        /\ c \in Case
    BY <1>1, <1>4 DEF Save, Sending
  <2>2. stored' \in Case
    <3>1. today \in Day /\ today \in Int
      BY DEF TypeOK, Day
    <3>2. CASE req[h].op \in Sending /\ stored' = c
      BY <2>1, <3>2
    <3>3. CASE \E on \in Dates \cup {today} : stored' = Acknowledge(c, on)
      BY <2>1, <3>1, <3>3, TransitionType, DatesAssumption
    <3>4. CASE \/ stored' = Resolve(c, today)
               \/ stored' = Withdraw(c, today)
               \/ stored' = DraftRti(c)
      BY <2>1, <3>1, <3>4, TransitionType
    <3> QED
      BY <1>4, <3>2, <3>3, <3>4 DEF Save
  <2> QED
    BY <1>0, <2>1, <2>2 DEF TypeOK
<1>5. CASE GiveUp(h)
  <2>1. /\ req' = [req EXCEPT ![h] = Idle]
        /\ UNCHANGED <<stored, run, outbox, live, today>>
    BY <1>5 DEF GiveUp
  <2> QED
    BY <1>0, <2>1 DEF TypeOK
<1> QED
  BY <1>2, <1>3, <1>4, <1>5

\* Each variable stays in its type: in particular a running pipeline and a
\* request in flight always hold a case, and the outbox counts no further than
\* "more than one".
THEOREM TypeCorrect == Spec => []TypeOK
<1>1. Init => TypeOK
  BY MaxDayAssumption, SwitchAssumption
     DEF Init, TypeOK, Idle, RunState, Working, Sending, Day
<1>2. TypeOK /\ [Next]_vars => TypeOK'
  <2> SUFFICES ASSUME TypeOK, [Next]_vars PROVE TypeOK'
    OBVIOUS
  <2>1. ASSUME NEW report \in Reports, Submit(report) PROVE TypeOK'
    BY <2>1, NewCaseType DEF Submit, TypeOK, RunState, Working
  <2>2. CASE Pipeline
    BY <2>2, PipelineType
  <2>3. CASE \E h \in Handlers, op \in Operation : Load(h, op)
    BY <2>3, RequestType
  <2>4. CASE \E h \in Handlers : Deliver(h) \/ Save(h) \/ GiveUp(h)
    BY <2>4, RequestType
  <2>5. CASE Restart
    BY <2>5, SwitchAssumption DEF Restart, TypeOK, Idle, RunState, Working, Over, EndedAs
  <2>6. CASE Tick
    BY <2>6, MaxDayAssumption DEF Tick, TypeOK, Day
  <2>7. CASE UNCHANGED vars
    BY <2>7 DEF vars, TypeOK
  <2> QED
    BY <2>1, <2>2, <2>3, <2>4, <2>5, <2>6, <2>7 DEF Next
<1> QED
  BY <1>1, <1>2, PTL DEF Spec


-----------------------------------------------------------------------------
(* What each transition makes of a good copy. *)

\* A copy that was good stays good as days pass and envelopes are written.
LEMMA GoodLater ==
    ASSUME NEW c \in Case, NEW box, NEW box2, NEW day \in Day, NEW day2 \in Day,
           box \in [Sending -> 0 .. 2], box2 \in [Sending -> 0 .. 2],
           day <= day2, \A k \in Sending : box[k] <= box2[k],
           Good(c, box, day)
    PROVE  Good(c, box2, day2)
<1>1. c.filed_at \in Day \cup {None} /\ c.jurisdiction \in Authorities \cup {None}
  BY DEF Case
<1>2. /\ box["confirm"] \in 0 .. 2 /\ box2["confirm"] \in 0 .. 2
      /\ box["escalate"] \in 0 .. 2 /\ box2["escalate"] \in 0 .. 2
      /\ box["confirm"] <= box2["confirm"] /\ box["escalate"] <= box2["escalate"]
  BY DEF Sending
<1>3. c.filed_at # None => c.filed_at <= day2 /\ box2["confirm"] > 0
  BY <1>1, <1>2 DEF Good, Day
<1>4. c.escalated_at # None => box2["escalate"] > 0
  BY <1>2 DEF Good
<1>5. ASSUME "rti" \in c.held
      PROVE  day2 >= c.filed_at + c.jurisdiction.response_window_days
  <2>1. /\ c.filed_at \in Day /\ c.jurisdiction \in Authorities
        /\ day >= c.filed_at + c.jurisdiction.response_window_days
    BY <1>1, <1>5 DEF Good
  <2>2. c.jurisdiction.response_window_days \in Nat
    BY <2>1, AuthoritiesAssumption
  <2> QED
    BY <2>1, <2>2 DEF Day
<1> QED
  BY <1>3, <1>4, <1>5 DEF Good

\* Filing a confirmed complaint, once its envelope is out.
LEMMA FileGood ==
    ASSUME NEW c \in Case, NEW box, NEW day \in Day,
           Good(c, box, day), c.status = "awaiting_confirmation",
           box["confirm"] > 0
    PROVE  Good(FileComplaint(c, day), box, day)
BY NoneAssumption DEF Good, Coherent, FileComplaint, Case, PublicStatuses, Day

\* Escalating a case whose clock has run out, once that envelope is out.
LEMMA EscalateGood ==
    ASSUME NEW c \in Case, NEW box, NEW day \in Day,
           Good(c, box, day), EscalationDue(c, day), box["escalate"] > 0
    PROVE  Good(Escalate(c, day), box, day)
<1>1. c.status \in {"filed", "acknowledged"}
  BY DEF EscalationDue, ClockStart
<1> QED
  BY <1>1, NoneAssumption DEF Good, Coherent, Escalate, Case, PublicStatuses, Day

\* The transitions of lifecycle.py, and the RTI draft.
LEMMA LifecycleGood ==
    ASSUME NEW c \in Case, NEW box, NEW day \in Day, NEW on \in Int,
           Good(c, box, day)
    PROVE  /\ c.status \in AcknowledgeFrom => Good(Acknowledge(c, on), box, day)
           /\ c.status \in ResolveFrom => Good(Resolve(c, day), box, day)
           /\ c.status \in WithdrawFrom => Good(Withdraw(c, day), box, day)
           /\ RtiAvailable(c, day) => Good(DraftRti(c), box, day)
<1>1. ASSUME c.status \in AcknowledgeFrom PROVE Good(Acknowledge(c, on), box, day)
  BY <1>1, NoneAssumption
     DEF Good, Coherent, Acknowledge, AcknowledgeFrom, Case, PublicStatuses
<1>2. ASSUME c.status \in ResolveFrom PROVE Good(Resolve(c, day), box, day)
  BY <1>2, NoneAssumption
     DEF Good, Coherent, Resolve, ResolveFrom, Case, PublicStatuses, Day
<1>3. ASSUME c.status \in WithdrawFrom PROVE Good(Withdraw(c, day), box, day)
  BY <1>3, NoneAssumption
     DEF Good, Coherent, Withdraw, WithdrawFrom, TerminalStatuses, Case,
         PublicStatuses, Day
<1>4. ASSUME RtiAvailable(c, day) PROVE Good(DraftRti(c), box, day)
  BY <1>4 DEF Good, Coherent, DraftRti, RtiAvailable, RtiFrom, Sendable, Case,
              PublicStatuses
<1> QED
  BY <1>1, <1>2, <1>3, <1>4

\* One step that writes, loads or changes at most one copy keeps every copy good
\* if that one is.
LEMMA OneNewCopy ==
    ASSUME TypeOK, TypeOK', AllGood, NEW c,
           Copies' \subseteq Copies \cup {c},
           c \in Copies' => Good(c, outbox', today'),
           today <= today', \A k \in Sending : outbox[k] <= outbox'[k]
    PROVE  AllGood'
<1>1. Copies \subseteq Case
  BY DEF Copies, TypeOK
<1>2. ASSUME NEW d \in Copies' PROVE Good(d, outbox', today')
  <2>1. CASE d = c
    BY <1>2, <2>1
  <2>2. CASE d \in Copies
    <3>1. d \in Case /\ Good(d, outbox, today)
      BY <1>1, <2>2 DEF AllGood
    <3>2. /\ outbox \in [Sending -> 0 .. 2] /\ outbox' \in [Sending -> 0 .. 2]
          /\ today \in Day /\ today' \in Day
      BY DEF TypeOK
    <3> QED
      BY <3>1, <3>2, GoodLater
  <2> QED
    BY <1>2, <2>1, <2>2
<1> QED
  BY <1>2 DEF AllGood


-----------------------------------------------------------------------------
(* The pipeline preserves the invariant. *)

\* A case no request has touched is good as long as its status claims nothing.
LEMMA UntouchedGood ==
    ASSUME NEW c \in Case, NEW box, NEW day, Untouched(c),
           \/ c.status \in {"draft", "rejected", "failed"}
           \/ /\ c.status = "awaiting_confirmation"
              /\ {"evidence", "corroboration", "complaint"} \subseteq c.held
              /\ c.jurisdiction # None
              /\ c.stage = "complete"
    PROVE  Good(c, box, day)
BY DEF Good, Coherent, Untouched, PublicStatuses

\* The invariant after a write of the pipeline: all that is left to show is that
\* the case written claims nothing its status has not, and that the task's own copy
\* has its shape if it goes on.
LEMMA WriteInv ==
    ASSUME CaseInv, TypeOK', NEW case \in Case, NEW next \in Working,
           \/ Checkpoint(case, next) \/ Halt(case) \/ Park(case)
           \/ Taken(case, next) \/ Lose,
           Untouched(case),
           \/ case.status \in {"draft", "rejected", "failed"}
           \/ /\ case.status = "awaiting_confirmation"
              /\ {"evidence", "corroboration", "complaint"} \subseteq case.held
              /\ case.jurisdiction # None
              /\ case.stage = "complete",
           Taken(case, next) => PipelineShape'
    PROVE  CaseInv'
<1> DEFINE failed == [case EXCEPT !.status = "failed"]
<1>1. Taken(case, next) \/ Ended(case) \/ Parked(case) \/ Lost
  BY WriteEnds
<1>2. failed \in Case /\ Untouched(failed) /\ failed.status = "failed"
  BY DEF Case, Status, Untouched
<1>3. Good(case, outbox', today') /\ Good(failed, outbox', today')
  <2> HIDE DEF failed
  <2> QED
    BY <1>2, UntouchedGood
<1>4. /\ UNCHANGED <<req, outbox, live, today>>
      /\ stored' \in {case, failed, stored}
      /\ run'.case \in {case, None}
  BY <1>1 DEF Taken, Ended, Parked, Lost, Write, EndedAs
<1> HIDE DEF failed
<1>5. Copies' \subseteq Copies \cup {case, failed}
  BY <1>4 DEF Copies
<1>6. AllGood'
  BY <1>3, <1>4, <1>5 DEF CaseInv, AllGood
<1>7. PipelineShape'
  <2>1. CASE Taken(case, next)
    BY <2>1
  <2>2. CASE Ended(case) \/ Parked(case) \/ Lost
    <3>1. run'.at \notin Working
      BY <2>2 DEF Ended, Parked, Lost, Write, EndedAs, Working
    <3> QED
      BY <3>1 DEF PipelineShape
  <2> QED
    BY <1>1, <2>1, <2>2
<1>8. /\ \A h \in Handlers : RequestShape(req[h])'
      /\ (outbox["escalate"] > 0 => outbox["confirm"] > 0)'
  BY <1>4 DEF CaseInv, RequestShape
<1> QED
  BY <1>6, <1>7, <1>8 DEF CaseInv

\* A run that ends does not go on.
LEMMA HaltIsLast ==
    ASSUME NEW case, NEW next \in Working, Halt(case) \/ Park(case)
    PROVE  ~Taken(case, next)
BY DEF Halt, Park, Lose, Taken, Write, EndedAs, Working


\* Every step of the pipeline task preserves the invariant.
LEMMA PipelineInv ==
    ASSUME CaseInv, Pipeline, TypeOK'
    PROVE  CaseInv'
<1> DEFINE c == run.case
<1>0. ASSUME run.at \in Working
      PROVE  /\ c \in Case
             /\ Untouched(c)
             /\ run.at # "complete" => c.status = "draft"
             /\ run.at = "complete" => c.status = "awaiting_confirmation"
  BY <1>0 DEF CaseInv, TypeOK, PipelineShape
<1>1. CASE Receive
  <2> DEFINE d == [c EXCEPT !.stage = "received"]
  <2>1. c \in Case /\ Untouched(c) /\ c.status = "draft"
    BY <1>0, <1>1 DEF Receive, Working
  <2>2. d \in Case /\ Untouched(d) /\ d.status = "draft" /\ "geocode" \in Working
    BY <2>1 DEF Case, Stage, Untouched, Working
  <2>3. Taken(d, "geocode") \/ Lose
    BY <1>1 DEF Receive, Taken
  <2> HIDE DEF d
  <2>4. Taken(d, "geocode") => PipelineShape'
    BY <2>2 DEF Taken, Write, PipelineShape, AfterEvidence
  <2> QED
    BY <2>2, <2>3, <2>4, WriteInv
<1>2. CASE Locate
  <2> DEFINE d == [c EXCEPT !.status = "rejected", !.stage = "halted"]
             e == [c EXCEPT !.stage = "evidence"]
             next == IF c.report.voice THEN "hear" ELSE "evidence"
  <2>1. c \in Case /\ Untouched(c) /\ c.status = "draft"
    BY <1>0, <1>2 DEF Locate, Working
  <2>2. /\ d \in Case /\ Untouched(d) /\ d.status = "rejected"
        /\ e \in Case /\ Untouched(e) /\ e.status = "draft"
        /\ next \in {"hear", "evidence"} /\ next \in Working
    BY <2>1 DEF Case, Status, Stage, Untouched, Working
  <2>3. Halt(d) \/ Checkpoint(e, next)
    BY <1>2 DEF Locate
  <2> HIDE DEF d, e, next
  <2>4. CASE Halt(d)
    <3>1. "geocode" \in Working
      BY DEF Working
    <3>2. ~Taken(d, "geocode")
      BY <2>4, <3>1, HaltIsLast
    <3> QED
      BY <2>2, <2>4, <3>1, <3>2, WriteInv
  <2>5. CASE Checkpoint(e, next)
    <3>1. Taken(e, next) => PipelineShape'
      BY <2>2 DEF Taken, Write, PipelineShape, AfterEvidence
    <3> QED
      BY <2>2, <2>5, <3>1, WriteInv
  <2> QED
    BY <2>3, <2>4, <2>5
<1>3. CASE Hear
  <2>1. c \in Case /\ Untouched(c) /\ c.status = "draft"
    BY <1>0, <1>3 DEF Hear, Working
  <2>2. PICK played \in BOOLEAN, speech \in BOOLEAN :
          LET heard == IF played THEN [c EXCEPT !.held = @ \cup {"voice"}] ELSE c
          IN IF (played /\ speech) \/ c.report.something_else
             THEN /\ run' = [at |-> "evidence", case |-> heard]
                  /\ UNCHANGED <<stored, req, outbox, live, today>>
             ELSE Halt([heard EXCEPT !.status = "failed"])
    BY <1>3 DEF Hear
  <2> DEFINE heard == IF played THEN [c EXCEPT !.held = @ \cup {"voice"}] ELSE c
             d == [heard EXCEPT !.status = "failed"]
  <2>3. heard \in Case /\ Untouched(heard) /\ heard.status = "draft"
    BY <2>1 DEF Case, Artefact, Untouched
  <2>4. \/ /\ run' = [at |-> "evidence", case |-> heard]
           /\ UNCHANGED <<stored, req, outbox, live, today>>
        \/ Halt(d)
    BY <2>2
  <2> HIDE DEF heard
  <2>5. d \in Case /\ Untouched(d) /\ d.status = "failed"
    BY <2>3 DEF Case, Status, Untouched
  <2> HIDE DEF d
  <2>6. CASE Halt(d)
    <3>1. "geocode" \in Working
      BY DEF Working
    <3>2. ~Taken(d, "geocode")
      BY <2>6, <3>1, HaltIsLast
    <3> QED
      BY <2>5, <2>6, <3>1, <3>2, WriteInv
  <2>7. CASE /\ run' = [at |-> "evidence", case |-> heard]
             /\ UNCHANGED <<stored, req, outbox, live, today>>
    <3>1. Copies' \subseteq Copies \cup {heard}
      BY <2>7 DEF Copies
    <3>2. Good(heard, outbox', today')
      BY <2>3, UntouchedGood
    <3>3. /\ \A k \in Sending : outbox[k] <= outbox'[k]
          /\ today <= today'
      BY <2>7, MaxDayAssumption DEF CaseInv, TypeOK, Day
    <3>4. AllGood'
      BY <3>1, <3>2, <3>3, OneNewCopy DEF CaseInv
    <3>5. PipelineShape'
      BY <2>3, <2>7 DEF PipelineShape, AfterEvidence
    <3>6. /\ \A h \in Handlers : RequestShape(req[h])'
          /\ (outbox["escalate"] > 0 => outbox["confirm"] > 0)'
      BY <2>7 DEF CaseInv, RequestShape
    <3> QED
      BY <3>4, <3>5, <3>6 DEF CaseInv
  <2> QED
    BY <2>4, <2>6, <2>7
<1>4. CASE Assess
  <2> DEFINE a == [c EXCEPT !.held = @ \cup {"evidence"}]
             d == [a EXCEPT !.status = "rejected", !.stage = "halted"]
             e == [a EXCEPT !.stage = "corroboration"]
  <2>1. c \in Case /\ Untouched(c) /\ c.status = "draft"
    BY <1>0, <1>4 DEF Assess, Working
  <2>2. a \in Case /\ Untouched(a) /\ a.status = "draft" /\ "evidence" \in a.held
    BY <2>1 DEF Case, Artefact, Untouched
  <2>3. Halt(d) \/ Checkpoint(e, "corroboration")
    BY <1>4 DEF Assess
  <2> HIDE DEF a
  <2>4. /\ d \in Case /\ Untouched(d) /\ d.status = "rejected"
        /\ e \in Case /\ Untouched(e) /\ e.status = "draft" /\ "evidence" \in e.held
        /\ "corroboration" \in Working
    BY <2>2 DEF Case, Status, Stage, Untouched, Working
  <2> HIDE DEF d, e
  <2>5. CASE Halt(d)
    <3>1. ~Taken(d, "corroboration")
      BY <2>4, <2>5, HaltIsLast
    <3> QED
      BY <2>4, <2>5, <3>1, WriteInv
  <2>6. CASE Checkpoint(e, "corroboration")
    <3>1. Taken(e, "corroboration") => PipelineShape'
      BY <2>4 DEF Taken, Write, PipelineShape, AfterEvidence
    <3> QED
      BY <2>4, <2>6, <3>1, WriteInv
  <2> QED
    BY <2>3, <2>5, <2>6
<1>5. CASE Corroborate
  <2> DEFINE d == [c EXCEPT !.held = @ \cup {"corroboration"}, !.stage = "jurisdiction"]
  <2>1. c \in Case /\ Untouched(c) /\ c.status = "draft" /\ "evidence" \in c.held
    BY <1>0, <1>5 DEF Corroborate, Working, CaseInv, PipelineShape, AfterEvidence
  <2>2. /\ d \in Case /\ Untouched(d) /\ d.status = "draft"
        /\ {"evidence", "corroboration"} \subseteq d.held
        /\ "jurisdiction" \in Working
    BY <2>1 DEF Case, Artefact, Stage, Untouched, Working
  <2>3. Checkpoint(d, "jurisdiction")
    BY <1>5 DEF Corroborate
  <2> HIDE DEF d
  <2>4. Taken(d, "jurisdiction") => PipelineShape'
    BY <2>2 DEF Taken, Write, PipelineShape, AfterEvidence
  <2> QED
    BY <2>2, <2>3, <2>4, WriteInv
<1>6. CASE ResolveJurisdiction
  <2>1. PICK j \in Authorities :
          Checkpoint([c EXCEPT !.jurisdiction = j, !.stage = "drafting"], "drafting")
    BY <1>6 DEF ResolveJurisdiction
  <2> DEFINE d == [c EXCEPT !.jurisdiction = j, !.stage = "drafting"]
  <2>2. /\ c \in Case /\ Untouched(c) /\ c.status = "draft"
        /\ {"evidence", "corroboration"} \subseteq c.held
    BY <1>0, <1>6 DEF ResolveJurisdiction, Working, CaseInv, PipelineShape, AfterEvidence
  <2>3. /\ d \in Case /\ Untouched(d) /\ d.status = "draft"
        /\ {"evidence", "corroboration"} \subseteq d.held
        /\ d.jurisdiction # None
        /\ "drafting" \in Working
    BY <2>2, NoneAssumption DEF Case, Stage, Untouched, Working
  <2>4. Checkpoint(d, "drafting")
    BY <2>1
  <2> HIDE DEF d
  <2>5. Taken(d, "drafting") => PipelineShape'
    BY <2>3 DEF Taken, Write, PipelineShape, AfterEvidence
  <2> QED
    BY <2>3, <2>4, <2>5, WriteInv
<1>7. CASE Draft
  <2> DEFINE d == [c EXCEPT !.held = @ \cup {"complaint"},
                            !.status = "awaiting_confirmation", !.stage = "complete"]
  <2>1. /\ c \in Case /\ Untouched(c)
        /\ {"evidence", "corroboration"} \subseteq c.held
        /\ c.jurisdiction # None
    BY <1>0, <1>7 DEF Draft, Working, CaseInv, PipelineShape, AfterEvidence
  <2>2. /\ d \in Case /\ Untouched(d) /\ d.status = "awaiting_confirmation"
        /\ {"evidence", "corroboration", "complaint"} \subseteq d.held
        /\ d.jurisdiction # None /\ d.stage = "complete"
        /\ "complete" \in Working
    BY <2>1 DEF Case, Artefact, Status, Stage, Untouched, Working
  <2>3. Checkpoint(d, "complete")
    BY <1>7 DEF Draft
  <2> HIDE DEF d
  <2>4. Taken(d, "complete") => PipelineShape'
    BY <2>2 DEF Taken, Write, PipelineShape, AfterEvidence
  <2> QED
    BY <2>2, <2>3, <2>4, WriteInv
<1>8. CASE SaveAgain
  <2>1. /\ c \in Case /\ Untouched(c) /\ c.status = "awaiting_confirmation"
        /\ {"evidence", "corroboration", "complaint"} \subseteq c.held
        /\ c.jurisdiction # None /\ c.stage = "complete"
        /\ "complete" \in Working
    BY <1>0, <1>8 DEF SaveAgain, Working, CaseInv, PipelineShape, AfterEvidence
  <2>2. Halt(c) /\ ~Taken(c, "complete")
    BY <1>8, <2>1, HaltIsLast DEF SaveAgain
  <2> QED
    BY <2>1, <2>2, WriteInv
<1>9. CASE Fail
  <2>1. /\ c \in Case /\ Untouched(c) /\ c.status = "draft"
        /\ "geocode" \in Working
    BY <1>0, <1>9 DEF Fail, Working
  <2>2. Park(c) /\ ~Taken(c, "geocode")
    BY <1>9, <2>1, HaltIsLast DEF Fail
  <2> QED
    BY <2>1, <2>2, WriteInv
<1> QED
  BY <1>1, <1>2, <1>3, <1>4, <1>5, <1>6, <1>7, <1>8, <1>9 DEF Pipeline


-----------------------------------------------------------------------------
(* The requests preserve the invariant. *)

\* Loading a copy: the handler's check becomes the shape of its request.
LEMMA LoadInv ==
    ASSUME CaseInv, TypeOK', NEW h \in Handlers, NEW op \in Operation, Load(h, op)
    PROVE  CaseInv'
<1>1. /\ req' = [req EXCEPT ![h] = [op |-> op, copy |-> stored, sent |-> FALSE]]
      /\ UNCHANGED <<stored, run, outbox, live, today>>
      /\ stored # None
      /\ Allowed(op, stored, today)
  BY DEF Load
<1>2. req \in [Handlers -> [op : Operation \cup {"none"},
                            copy : Case \cup {None}, sent : BOOLEAN]]
  BY DEF CaseInv, TypeOK
<1>3. Copies' \subseteq Copies
  BY <1>1, <1>2 DEF Copies
<1>4. AllGood'
  BY <1>1, <1>3 DEF CaseInv, AllGood
<1>5. PipelineShape' /\ (outbox["escalate"] > 0 => outbox["confirm"] > 0)'
  BY <1>1 DEF CaseInv, PipelineShape
<1>6. ASSUME NEW g \in Handlers PROVE RequestShape(req[g])'
  <2>1. CASE g = h
    <3>1. req'[g] = [op |-> op, copy |-> stored, sent |-> FALSE]
      BY <1>1, <1>2, <2>1
    <3>2. /\ op = "confirm" => stored.status = "awaiting_confirmation"
          /\ op = "escalate" => EscalationDue(stored, today)
          /\ op = "acknowledge" => stored.status \in AcknowledgeFrom
          /\ op = "resolve" => stored.status \in ResolveFrom
          /\ op = "withdraw" => stored.status \in WithdrawFrom
          /\ op = "rti" => RtiAvailable(stored, today)
      BY <1>1 DEF Allowed, Operation
    <3> QED
      BY <1>1, <3>1, <3>2 DEF RequestShape
  <2>2. CASE g # h
    <3>1. req'[g] = req[g] /\ today' = today
      BY <1>1, <1>2, <2>2
    <3> QED
      BY <3>1 DEF CaseInv, RequestShape
  <2> QED
    BY <2>1, <2>2
<1> QED
  BY <1>4, <1>5, <1>6 DEF CaseInv

\* Writing an envelope: the outbox grows first, so the copy that now says it was
\* sent is backed.
LEMMA DeliverInv ==
    ASSUME CaseInv, TypeOK', NEW h \in Handlers, Deliver(h)
    PROVE  CaseInv'
<1> DEFINE c == req[h].copy
           s == Sent(req[h].op, c, today)
<1>1. /\ req' = [req EXCEPT ![h] = [op |-> req[h].op, sent |-> TRUE, copy |-> s]]
      /\ outbox' = [outbox EXCEPT ![req[h].op] =
                      IF outbox[req[h].op] < 2 THEN outbox[req[h].op] + 1 ELSE 2]
      /\ UNCHANGED <<stored, run, live, today>>
      /\ req[h].op \in Sending /\ ~req[h].sent
  BY DEF Deliver
<1>2. /\ req \in [Handlers -> [op : Operation \cup {"none"},
                               copy : Case \cup {None}, sent : BOOLEAN]]
      /\ outbox \in [Sending -> 0 .. 2]
      /\ today \in Day
      /\ c \in Case
  BY <1>1 DEF CaseInv, TypeOK, Sending
<1>3. Good(c, outbox, today)
  <2>1. c \in Copies
    BY <1>2, NoneAssumption DEF Copies
  <2> QED
    BY <2>1 DEF CaseInv, AllGood
<1>4. /\ \A k \in Sending : outbox[k] <= outbox'[k]
      /\ outbox'[req[h].op] > 0
      /\ today <= today'
  <2>1. today <= today'
    BY <1>1, <1>2, MaxDayAssumption DEF Day
  <2> QED
    BY <1>1, <1>2, <2>1
<1>5. Good(c, outbox', today)
  <2>1. outbox' \in [Sending -> 0 .. 2] /\ today <= today
    BY <1>2, MaxDayAssumption DEF TypeOK, Day
  <2> QED
    BY <1>2, <1>3, <1>4, <2>1, GoodLater
<1>6. Good(s, outbox', today')
  <2>1. RequestShape(req[h])
    BY DEF CaseInv
  <2>2. CASE req[h].op = "confirm"
    BY <1>1, <1>2, <1>4, <1>5, <2>1, <2>2, FileGood DEF RequestShape, Sent
  <2>3. CASE req[h].op = "escalate"
    BY <1>1, <1>2, <1>4, <1>5, <2>1, <2>3, EscalateGood DEF RequestShape, Sent
  <2> QED
    BY <1>1, <2>2, <2>3 DEF Sending
<1>7. Copies' \subseteq Copies \cup {s}
  <2> HIDE DEF s
  <2> QED
    BY <1>1, <1>2 DEF Copies
<1>8. AllGood'
  BY <1>4, <1>6, <1>7, OneNewCopy DEF CaseInv
<1>9. PipelineShape'
  BY <1>1 DEF CaseInv, PipelineShape
<1>10. (outbox["escalate"] > 0 => outbox["confirm"] > 0)'
  <2>1. CASE req[h].op = "confirm"
    BY <1>4, <2>1
  <2>2. CASE req[h].op = "escalate"
    <3>1. c.status \in PublicStatuses
      BY <1>1, <2>2 DEF CaseInv, RequestShape, EscalationDue, ClockStart, PublicStatuses
    <3>2. outbox["confirm"] > 0
      BY <1>3, <3>1 DEF Good, Coherent
    <3> QED
      BY <1>1, <1>2, <2>2, <3>2 DEF Sending
  <2> QED
    BY <1>1, <2>1, <2>2 DEF Sending
<1>11. ASSUME NEW g \in Handlers PROVE RequestShape(req[g])'
  <2>1. CASE g = h
    <3>1. req'[g].op = req[h].op /\ req'[g].sent = TRUE /\ req'[g].copy = s
      BY <1>1, <1>2, <2>1
    <3>2. s.status = IF req[h].op = "confirm" THEN "filed" ELSE "escalated"
      BY <1>2 DEF Sent, FileComplaint, Escalate, Case
    <3> HIDE DEF s
    <3> QED
      BY <1>1, <3>1, <3>2 DEF RequestShape, Sending
  <2>2. CASE g # h
    <3>1. req'[g] = req[g] /\ today' = today
      BY <1>1, <1>2, <2>2
    <3> QED
      BY <3>1 DEF CaseInv, RequestShape
  <2> QED
    BY <2>1, <2>2
<1> QED
  BY <1>8, <1>9, <1>10, <1>11 DEF CaseInv

\* A request that ends, with or without a save of its copy.
LEMMA EndInv ==
    ASSUME CaseInv, TypeOK', NEW h \in Handlers, Save(h) \/ GiveUp(h)
    PROVE  CaseInv'
<1> DEFINE c == req[h].copy
<1>1. /\ req' = [req EXCEPT ![h] = Idle]
      /\ UNCHANGED <<run, outbox, live, today>>
      /\ req[h].op # "none"
  BY DEF Save, GiveUp, Sending
<1>2. /\ req \in [Handlers -> [op : Operation \cup {"none"},
                               copy : Case \cup {None}, sent : BOOLEAN]]
      /\ outbox \in [Sending -> 0 .. 2]
      /\ today \in Day /\ today \in Int
      /\ c \in Case
  BY <1>1 DEF CaseInv, TypeOK, Day
<1>3. Good(c, outbox, today)
  <2>1. c \in Copies
    BY <1>2, NoneAssumption DEF Copies
  <2> QED
    BY <2>1 DEF CaseInv, AllGood
<1>4. stored' = stored \/ Good(stored', outbox', today')
  <2>1. RequestShape(req[h])
    BY DEF CaseInv
  <2>2. CASE Save(h)
    <3>1. CASE req[h].op \in Sending
      BY <1>1, <1>3, <2>2, <3>1 DEF Save, Sending
    <3>2. CASE req[h].op = "acknowledge"
      <4>1. PICK on \in Dates \cup {today} : stored' = Acknowledge(c, on)
        BY <2>2, <3>2 DEF Save, Sending
      <4>2. on \in Int
        BY <1>2, DatesAssumption
      <4> QED
        BY <1>1, <1>2, <1>3, <2>1, <3>2, <4>1, <4>2, LifecycleGood DEF RequestShape
    <3>3. CASE req[h].op \in {"resolve", "withdraw", "rti"}
      <4>1. \/ req[h].op = "resolve" /\ stored' = Resolve(c, today)
            \/ req[h].op = "withdraw" /\ stored' = Withdraw(c, today)
            \/ req[h].op = "rti" /\ stored' = DraftRti(c)
        BY <2>2, <3>3 DEF Save, Sending
      <4> QED
        BY <1>1, <1>2, <1>3, <2>1, <4>1, LifecycleGood DEF RequestShape
    <3> QED
      BY <2>2, <3>1, <3>2, <3>3 DEF Save
  <2>3. CASE GiveUp(h)
    BY <2>3 DEF GiveUp
  <2> QED
    BY <2>2, <2>3
<1>5. Copies' \subseteq Copies \cup {stored'}
  BY <1>1, <1>2 DEF Copies, Idle
<1>6. AllGood'
  <2>1. /\ \A k \in Sending : outbox[k] <= outbox'[k]
        /\ today <= today'
    BY <1>1, <1>2
  <2>2. ASSUME stored' \in Copies' PROVE Good(stored', outbox', today')
    <3>1. CASE stored' = stored
      <4>1. stored \in Copies
        BY <2>2, <3>1 DEF Copies
      <4> QED
        BY <1>1, <3>1, <4>1 DEF CaseInv, AllGood
    <3> QED
      BY <1>4, <3>1
  <2> QED
    BY <1>5, <2>1, <2>2, OneNewCopy DEF CaseInv
<1>7. PipelineShape' /\ (outbox["escalate"] > 0 => outbox["confirm"] > 0)'
  BY <1>1 DEF CaseInv, PipelineShape
<1>8. ASSUME NEW g \in Handlers PROVE RequestShape(req[g])'
  <2>1. /\ req'[g] = req[g] \/ req'[g] = Idle
        /\ today' = today
    BY <1>1, <1>2
  <2> QED
    BY <2>1 DEF CaseInv, RequestShape, Idle
<1> QED
  BY <1>6, <1>7, <1>8 DEF CaseInv


-----------------------------------------------------------------------------
(* The report and the environment. *)

\* A new case is good, and the pipeline that starts on it is in shape.
LEMMA SubmitInv ==
    ASSUME CaseInv, TypeOK', NEW report \in Reports, Submit(report)
    PROVE  CaseInv'
<1> DEFINE c == NewCase(report)
<1>1. /\ stored' = c
      /\ run' = [at |-> "received", case |-> c]
      /\ UNCHANGED <<req, outbox, live, today>>
  BY DEF Submit
<1>2. c \in Case /\ Untouched(c) /\ c.status = "draft"
  BY NewCaseType DEF NewCase, Untouched
<1> HIDE DEF c
<1>3. Copies' \subseteq Copies \cup {c}
  BY <1>1 DEF Copies
<1>4. /\ \A k \in Sending : outbox[k] <= outbox'[k]
      /\ today <= today'
  BY <1>1, MaxDayAssumption DEF CaseInv, TypeOK, Day
<1>5. AllGood'
  BY <1>2, <1>3, <1>4, UntouchedGood, OneNewCopy DEF CaseInv
<1>6. PipelineShape'
  BY <1>1, <1>2 DEF PipelineShape, AfterEvidence
<1>7. /\ \A h \in Handlers : RequestShape(req[h])'
      /\ (outbox["escalate"] > 0 => outbox["confirm"] > 0)'
  BY <1>1 DEF CaseInv, RequestShape
<1> QED
  BY <1>5, <1>6, <1>7 DEF CaseInv

\* A restart forgets copies and makes none.
LEMMA RestartInv ==
    ASSUME CaseInv, TypeOK', Restart
    PROVE  CaseInv'
<1>1. /\ run' = IF run.at \in Working THEN EndedAs("gone") ELSE run
      /\ req' = [h \in Handlers |-> Idle]
      /\ UNCHANGED <<stored, outbox, today>>
  BY DEF Restart
<1>2. Copies' \subseteq Copies
  BY <1>1 DEF Copies, Idle, EndedAs
<1>3. AllGood'
  BY <1>1, <1>2 DEF CaseInv, AllGood
<1>4. PipelineShape'
  BY <1>1 DEF CaseInv, PipelineShape, Working, EndedAs
<1>5. /\ \A h \in Handlers : RequestShape(req[h])'
      /\ (outbox["escalate"] > 0 => outbox["confirm"] > 0)'
  BY <1>1 DEF CaseInv, RequestShape, Idle
<1> QED
  BY <1>3, <1>4, <1>5 DEF CaseInv

\* A clock that is due stays due.
LEMMA DueLater ==
    ASSUME NEW c \in Case, NEW day \in Day, NEW day2 \in Day, day <= day2
    PROVE  /\ EscalationDue(c, day) => EscalationDue(c, day2)
           /\ RtiAvailable(c, day) => RtiAvailable(c, day2)
<1>1. /\ c.jurisdiction # None => c.jurisdiction.response_window_days \in Nat
      /\ c.filed_at # None => c.filed_at \in Int
      /\ ClockStart(c) # None => ClockStart(c) \in Int
  BY AuthoritiesAssumption DEF Case, Day, ClockStart
<1>2. EscalationDue(c, day) => EscalationDue(c, day2)
  BY <1>1 DEF EscalationDue, Day
<1>3. RtiAvailable(c, day) => RtiAvailable(c, day2)
  BY <1>1 DEF RtiAvailable, Sendable, Day
<1> QED
  BY <1>2, <1>3

\* Another day.
LEMMA TickInv ==
    ASSUME CaseInv, TypeOK', Tick
    PROVE  CaseInv'
<1>1. /\ UNCHANGED <<stored, run, req, outbox, live>>
      /\ today \in Day /\ today' \in Day /\ today <= today'
  BY DEF Tick, CaseInv, TypeOK, Day
<1>2. \A k \in Sending : outbox[k] <= outbox'[k]
  BY <1>1 DEF CaseInv, TypeOK
<1>3. Copies' = Copies
  BY <1>1 DEF Copies
<1>4. AllGood'
  <2>1. Copies' \subseteq Copies \cup {None} /\ None \notin Copies'
    BY <1>3 DEF Copies
  <2> QED
    BY <1>1, <1>2, <2>1, OneNewCopy DEF CaseInv
<1>5. PipelineShape' /\ (outbox["escalate"] > 0 => outbox["confirm"] > 0)'
  BY <1>1 DEF CaseInv, PipelineShape
<1>6. ASSUME NEW h \in Handlers PROVE RequestShape(req[h])'
  <2>1. RequestShape(req[h]) /\ (req[h].op # "none" => req[h].copy \in Case)
    BY DEF CaseInv, TypeOK
  <2>2. req' = req
    BY <1>1
  <2>3. req[h].op # "none" =>
          /\ EscalationDue(req[h].copy, today) => EscalationDue(req[h].copy, today')
          /\ RtiAvailable(req[h].copy, today) => RtiAvailable(req[h].copy, today')
    BY <1>1, <2>1, DueLater
  <2> QED
    BY <2>1, <2>2, <2>3 DEF RequestShape
<1> QED
  BY <1>4, <1>5, <1>6 DEF CaseInv

-----------------------------------------------------------------------------
(* The theorems. *)

\* The inductive invariant holds in every reachable state.
THEOREM Inductive == Spec => []CaseInv
<1>1. Init /\ TypeOK => CaseInv
  <2> SUFFICES ASSUME Init, TypeOK PROVE CaseInv
    OBVIOUS
  <2>1. Copies = {}
    BY DEF Init, Copies, Idle
  <2> QED
    BY <2>1 DEF Init, CaseInv, AllGood, PipelineShape, RequestShape, Idle, Working, Sending
<1>2. CaseInv /\ TypeOK' /\ [Next]_vars => CaseInv'
  <2> SUFFICES ASSUME CaseInv, TypeOK', [Next]_vars PROVE CaseInv'
    OBVIOUS
  <2>1. CASE \E report \in Reports : Submit(report)
    BY <2>1, SubmitInv
  <2>2. CASE Pipeline
    BY <2>2, PipelineInv
  <2>3. CASE \E h \in Handlers, op \in Operation : Load(h, op)
    BY <2>3, LoadInv
  <2>4. CASE \E h \in Handlers : Deliver(h) \/ Save(h) \/ GiveUp(h)
    BY <2>4, DeliverInv, EndInv
  <2>5. CASE Restart
    BY <2>5, RestartInv
  <2>6. CASE Tick
    BY <2>6, TickInv
  <2>7. CASE UNCHANGED vars
    BY <2>7 DEF vars, CaseInv, AllGood, Copies, PipelineShape, RequestShape
  <2> QED
    BY <2>1, <2>2, <2>3, <2>4, <2>5, <2>6, <2>7 DEF Next
<1> QED
  BY <1>1, <1>2, TypeCorrect, PTL DEF Spec

\* No interleaving leaves a torn case: every copy of it is coherent.
THEOREM Coherence == Spec => []RecordCoherent
<1>1. CaseInv => RecordCoherent
  BY DEF CaseInv, AllGood, Good, RecordCoherent
<1> QED
  BY <1>1, Inductive, PTL

\* The human gate: no copy of the case, and so no page of the public register,
\* says filed or escalated without that envelope in the outbox.
THEOREM HumanGate == Spec => []EnvelopeBacked
<1>1. CaseInv => EnvelopeBacked
  <2> SUFFICES ASSUME CaseInv, NEW c \in Copies
               PROVE  /\ c.filed_at # None => outbox["confirm"] > 0
                      /\ c.escalated_at # None => outbox["escalate"] > 0
                      /\ IsPublic(c) => outbox["confirm"] > 0
    BY DEF CaseInv, EnvelopeBacked
  <2>1. Good(c, outbox, today)
    BY DEF CaseInv, AllGood
  <2> QED
    BY <2>1 DEF Good, Coherent, IsPublic
<1> QED
  BY <1>1, Inductive, PTL

\* The RTI clock runs from the filing and nothing restarts it: no stored case
\* holds an application drafted before its window had passed.
THEOREM RtiClock == Spec => []RtiNeverEarly
<1>1. CaseInv => RtiNeverEarly
  <2> SUFFICES ASSUME CaseInv, stored # None, "rti" \in stored.held
               PROVE  /\ stored.filed_at # None
                      /\ stored.jurisdiction.country = "IN"
                      /\ today >= stored.filed_at
                                  + stored.jurisdiction.response_window_days
    BY DEF RtiNeverEarly
  <2>1. Good(stored, outbox, today)
    BY DEF CaseInv, AllGood, Copies
  <2> QED
    BY <2>1 DEF Good
<1> QED
  BY <1>1, Inductive, PTL

\* An escalation envelope is never written before the window has passed, however
\* long ago the request read the clock and whatever happened to the case since.
THEOREM EscalationClock == Spec => EscalationNeverEarly
<1> DEFINE Early(h) ==
      (req[h].op = "escalate" /\ ~req[h].sent /\ req'[h].sent) =>
         today >= (IF req[h].copy.status = "acknowledged"
                   THEN req[h].copy.acknowledged_at ELSE req[h].copy.filed_at)
                  + req[h].copy.jurisdiction.response_window_days
<1>1. CaseInv => \A h \in Handlers : Early(h)
  <2> SUFFICES ASSUME CaseInv, NEW h \in Handlers,
                      req[h].op = "escalate", ~req[h].sent
               PROVE  today >= (IF req[h].copy.status = "acknowledged"
                                THEN req[h].copy.acknowledged_at
                                ELSE req[h].copy.filed_at)
                               + req[h].copy.jurisdiction.response_window_days
    OBVIOUS
  <2>1. EscalationDue(req[h].copy, today)
    BY DEF CaseInv, RequestShape
  <2> QED
    BY <2>1 DEF EscalationDue, ClockStart
<1>2. CaseInv /\ [Next]_vars => [\A h \in Handlers : Early(h)]_vars
  BY <1>1
<1> QED
  BY <1>2, Inductive, PTL DEF Spec, EscalationNeverEarly

-----------------------------------------------------------------------------
(* What the register keeps back, for every case there could be, whoever    *)
(* raced over it: the argument is about the ways words take, not about the *)
(* order of the writes.                                                    *)

\* The fields the register publishes.
Allowlist == PublicEvidence \cup PublicCorroboration \cup PublicComplaint

\* What a voice note's hearing listed is in no text that is made from it.
LEMMA NamesAreDropped ==
    ASSUME NEW c
    PROVE  SpokenAccount(c) \subseteq {"contact"}
<1>1. \A t \in Voice(c) : t[2] \in Recording /\ t[2] # "spoken name"
  BY DEF Voice, Redact, Hearing
<1> QED
  BY <1>1 DEF SpokenAccount, Held, Recording

\* No agent of the pipeline is shown anything private but the contact.
LEMMA AgentsRepeatNoName ==
    ASSUME NEW c
    PROVE  \A t \in Evidence(c) \cup Corroboration(c) \cup Complaint(c) : t[2] = "contact"
<1>1. \A t \in Evidence(c) : t[2] = "contact"
  BY NamesAreDropped DEF Evidence, Note
<1>2. Indicators(c) \subseteq {"contact"}
  BY <1>1 DEF Indicators, Held
<1>3. \A t \in Corroboration(c) : t[2] = "contact"
  BY <1>2 DEF Corroboration
<1>4. Held(Corroboration(c), CorroborationFields) \subseteq {"contact"}
  BY <1>3 DEF Held
<1>5. \A t \in Complaint(c) : t[2] = "contact"
  BY <1>2, <1>4, NamesAreDropped DEF Complaint, Note
<1> QED
  BY <1>1, <1>3, <1>5

\* The fields only a person or the RTI stage writes are not on the allowlist.
LEMMA OnlyAgentsArePublished ==
    ASSUME NEW c, NEW t \in Project(c)
    PROVE  t \in Evidence(c) \cup Corroboration(c) \cup Complaint(c)
<1>1. t \in Texts(c) /\ t[1] \in Allowlist
  BY DEF Project, Allowlist
<1>2. t \notin Voice(c)
  BY <1>1 DEF Voice, Redact, Hearing, VoiceFields, Allowlist, PublicEvidence,
              EvidenceFields, PublicCorroboration, CorroborationFields, PublicComplaint, ComplaintFields
<1>3. t \notin LifecycleNotes(c)
  BY <1>1 DEF LifecycleNotes, Allowlist, PublicEvidence, EvidenceFields, PublicCorroboration,
              CorroborationFields, PublicComplaint, ComplaintFields
<1>4. t \notin Rti(c)
  BY <1>1 DEF Rti, RenderRti, RtiFields, Allowlist, PublicEvidence, EvidenceFields,
              PublicCorroboration, CorroborationFields, PublicComplaint, ComplaintFields
<1>5. t # <<"report.note", "contact">> /\ t # <<"report.reporter_contact", "contact">>
  BY <1>1 DEF Allowlist, PublicEvidence, EvidenceFields, PublicCorroboration,
              CorroborationFields, PublicComplaint, ComplaintFields
<1> QED
  BY <1>1, <1>2, <1>3, <1>4, <1>5 DEF Texts

\* Nothing but the contact can reach the register, and the contact is scrubbed.
LEMMA NothingPrivateIsPublished ==
    ASSUME NEW c, NEW length \in Nat, PublicCase(c, length) # None,
           NEW t \in PublicCase(c, length)
    PROVE  t[2] \notin (IF length < MinScrubbable THEN Private \ {"contact"} ELSE Private)
<1>1. PublicCase(c, length) = Scrub(Project(c), length)
  BY DEF PublicCase
<1>2. t \in Project(c) /\ (length < MinScrubbable \/ t[2] # "contact")
  BY <1>1 DEF Scrub
<1>3. t[2] = "contact"
  BY <1>2, OnlyAgentsArePublished, AgentsRepeatNoName
<1> QED
  BY <1>2, <1>3 DEF Private

\* RegisterKeepsPrivate: in every reachable state, whatever was made public.
THEOREM RegisterIsSafe == Spec => []RegisterKeepsPrivate
<1>1. RegisterKeepsPrivate
  <2>1. \A length \in 1 .. MinScrubbable + 1 : length \in Nat
    BY DEF MinScrubbable
  <2> QED
    BY <2>1, NothingPrivateIsPublished DEF RegisterKeepsPrivate
<1> QED
  BY <1>1, PTL

-----------------------------------------------------------------------------
(* One request at a time, and none before the pipeline has ended: the copy a *)
(* request acts on is then the stored case, and the service keeps the        *)
(* promise of CasePromise.  Crashes at any point, any switch of live filing  *)
(* and any calendar are included.                                            *)

\* What the two environments have in common.
Inv == CaseInv /\ SerialInv

-----------------------------------------------------------------------------
(* What each actor does to the stored case, as the promise sees it. *)

\* Of a step of the pipeline: it saves the drafted case again, or parks it; it ends
\* refused or failed; it drafts the complaint, or goes on with a draft; or it is gone.
PipelineWrites ==
    /\ run.at \in Working
    /\ UNCHANGED <<req, outbox, live, today>>
    /\ run'.at # "none"
    /\ \/ /\ run.at = "complete" /\ run'.at = "done"
          /\ stored' = run.case \/ stored' = [run.case EXCEPT !.status = "failed"]
       \/ /\ run.at # "complete" /\ run'.at = "done"
          /\ stored' # None /\ stored'.status \in {"rejected", "failed"}
       \/ /\ run.at # "complete" /\ run'.at = "complete" /\ stored' = run'.case
          /\ stored' # None /\ stored'.status = "awaiting_confirmation"
       \/ /\ run.at # "complete" /\ run'.at \in Working \ {"complete"}
          /\ \/ stored' = stored
             \/ /\ stored' # None /\ stored'.status = "draft"
                /\ stored'.stage \notin {"complete", "halted"}
       \/ run'.at = "gone" /\ stored' = stored

\* The outcomes of a write in a stage before the last are among those.
LEMMA StageWrites ==
    ASSUME run.at \in Working, run.at # "complete", NEW case \in Case, NEW next \in Working,
           \/ Halt(case) /\ case.status \in {"rejected", "failed"}
           \/ Park(case)
           \/ Lose
           \/ /\ Checkpoint(case, next) \/ Taken(case, next)
              /\ \/ next = "complete" /\ case.status = "awaiting_confirmation"
                 \/ /\ next # "complete" /\ case.status = "draft"
                    /\ case.stage \notin {"complete", "halted"}
    PROVE  PipelineWrites
<1> DEFINE failed == [case EXCEPT !.status = "failed"]
<1>1. \/ Ended(case) /\ case.status \in {"rejected", "failed"}
      \/ Parked(case)
      \/ Lost
      \/ /\ Taken(case, next)
         /\ \/ next = "complete" /\ case.status = "awaiting_confirmation"
            \/ /\ next # "complete" /\ case.status = "draft"
               /\ case.stage \notin {"complete", "halted"}
  BY WriteEnds
<1>2. /\ case # None
      /\ failed \in Case /\ failed # None /\ failed.status = "failed"
  BY NoneAssumption DEF Case, Status
<1>3. CASE Ended(case) /\ case.status \in {"rejected", "failed"}
  BY <1>2, <1>3 DEF Ended, Write, EndedAs, PipelineWrites
<1>4. CASE Parked(case)
  <2>1. Write(failed, EndedAs("done"))
    BY <1>4 DEF Parked
  <2> HIDE DEF failed
  <2> QED
    BY <1>2, <2>1 DEF Write, EndedAs, PipelineWrites
<1>5. CASE Lost
  BY <1>5 DEF Lost, Write, EndedAs, PipelineWrites
<1>6. CASE /\ Taken(case, next)
           /\ \/ next = "complete" /\ case.status = "awaiting_confirmation"
              \/ /\ next # "complete" /\ case.status = "draft"
                 /\ case.stage \notin {"complete", "halted"}
  BY <1>2, <1>6 DEF Taken, Write, PipelineWrites, Working
<1> QED
  BY <1>1, <1>3, <1>4, <1>5, <1>6

\* Each step of the pipeline is one of those.
LEMMA PipelineStep ==
    ASSUME CaseInv, TypeOK', Pipeline
    PROVE  PipelineWrites
<1> DEFINE c == run.case
<1>0. ASSUME run.at \in Working
      PROVE  /\ c \in Case
             /\ run.at # "complete" => c.status = "draft"
             /\ None \notin Case
  BY <1>0, NoneAssumption DEF CaseInv, TypeOK, PipelineShape
<1>1. CASE Receive
  <2>1. run.at \in Working /\ run.at # "complete"
    BY <1>1 DEF Receive, Working
  <2> DEFINE d == [c EXCEPT !.stage = "received"]
  <2>2. d.status = "draft" /\ d.stage = "received" /\ d \in Case
    BY <1>0, <2>1 DEF Case, Stage
  <2>3. (Taken(d, "geocode") \/ Lose) /\ "geocode" \in Working
    BY <1>1 DEF Receive, Taken, Working
  <2> HIDE DEF d
  <2> QED
    BY <2>1, <2>2, <2>3, StageWrites
<1>2. CASE Locate
  <2>1. run.at \in Working /\ run.at # "complete"
    BY <1>2 DEF Locate, Working
  <2> DEFINE d == [c EXCEPT !.status = "rejected", !.stage = "halted"]
             e == [c EXCEPT !.stage = "evidence"]
  <2>2. /\ d.status = "rejected" /\ d \in Case
        /\ e.status = "draft" /\ e.stage = "evidence" /\ e \in Case
    <3>1. c \in Case /\ c.status = "draft"
      BY <1>0, <2>1
    <3>2. {"rejected"} \subseteq Status /\ {"halted", "evidence"} \subseteq Stage
      BY DEF Status, Stage
    <3> HIDE DEF c
    <3> QED
      BY <3>1, <3>2 DEF Case
  <2> DEFINE next == IF c.report.voice THEN "hear" ELSE "evidence"
  <2>3. Halt(d) \/ Checkpoint(e, next)
    BY <1>2 DEF Locate
  <2>4. next \in Working /\ next # "complete"
    BY DEF Working
  <2> HIDE DEF d, e, next
  <2> QED
    BY <2>1, <2>2, <2>3, <2>4, StageWrites
<1>3. CASE Hear
  <2>1. run.at \in Working /\ run.at # "complete"
    BY <1>3 DEF Hear, Working
  <2>2. PICK played \in BOOLEAN, speech \in BOOLEAN :
          LET heard == IF played THEN [c EXCEPT !.held = @ \cup {"voice"}] ELSE c
          IN IF (played /\ speech) \/ c.report.something_else
             THEN /\ run' = [at |-> "evidence", case |-> heard]
                  /\ UNCHANGED <<stored, req, outbox, live, today>>
             ELSE Halt([heard EXCEPT !.status = "failed"])
    BY <1>3 DEF Hear
  <2> DEFINE heard == IF played THEN [c EXCEPT !.held = @ \cup {"voice"}] ELSE c
             d == [heard EXCEPT !.status = "failed"]
  <2>3. heard \in Case
    BY <1>0, <2>1 DEF Case, Artefact
  <2>4. \/ run'.at = "evidence" /\ UNCHANGED <<stored, req, outbox, live, today>>
        \/ Halt(d)
    BY <2>2
  <2> HIDE DEF heard
  <2>5. d.status = "failed" /\ d \in Case
    BY <2>3 DEF Case, Status
  <2> HIDE DEF d
  <2>6. CASE Halt(d)
    BY <2>1, <2>5, <2>6, StageWrites
  <2>7. CASE run'.at = "evidence" /\ UNCHANGED <<stored, req, outbox, live, today>>
    BY <2>1, <2>7 DEF PipelineWrites, Working
  <2> QED
    BY <2>4, <2>6, <2>7
<1>4. CASE Assess
  <2>1. run.at \in Working /\ run.at # "complete"
    BY <1>4 DEF Assess, Working
  <2> DEFINE a == [c EXCEPT !.held = @ \cup {"evidence"}]
             d == [a EXCEPT !.status = "rejected", !.stage = "halted"]
             e == [a EXCEPT !.stage = "corroboration"]
  <2>2. a.status = "draft" /\ a \in Case
    BY <1>0, <2>1 DEF Case, Artefact
  <2>3. Halt(d) \/ Checkpoint(e, "corroboration")
    BY <1>4 DEF Assess
  <2> HIDE DEF a
  <2>4. /\ d.status = "rejected" /\ d \in Case
        /\ e.status = "draft" /\ e.stage = "corroboration" /\ e \in Case
    <3>1. {"rejected"} \subseteq Status /\ {"halted", "corroboration"} \subseteq Stage
      BY DEF Status, Stage
    <3> QED
      BY <2>2, <3>1 DEF Case
  <2> HIDE DEF d, e
  <2> QED
    BY <2>1, <2>3, <2>4, "corroboration" \in Working, StageWrites DEF Working
<1>5. CASE Corroborate
  <2>1. run.at \in Working /\ run.at # "complete"
    BY <1>5 DEF Corroborate, Working
  <2> DEFINE d == [c EXCEPT !.held = @ \cup {"corroboration"}, !.stage = "jurisdiction"]
  <2>2. d.status = "draft" /\ d.stage = "jurisdiction" /\ d \in Case
    BY <1>0, <2>1 DEF Case, Artefact, Stage
  <2>3. Checkpoint(d, "jurisdiction")
    BY <1>5 DEF Corroborate
  <2> HIDE DEF d
  <2> QED
    BY <2>1, <2>2, <2>3, "jurisdiction" \in Working, StageWrites DEF Working
<1>6. CASE ResolveJurisdiction
  <2>1. run.at \in Working /\ run.at # "complete"
    BY <1>6 DEF ResolveJurisdiction, Working
  <2>2. PICK j \in Authorities :
          Checkpoint([c EXCEPT !.jurisdiction = j, !.stage = "drafting"], "drafting")
    BY <1>6 DEF ResolveJurisdiction
  <2> DEFINE d == [c EXCEPT !.jurisdiction = j, !.stage = "drafting"]
  <2>3. d.status = "draft" /\ d.stage = "drafting" /\ d \in Case
    BY <1>0, <2>1 DEF Case, Stage
  <2>4. Checkpoint(d, "drafting")
    BY <2>2
  <2> HIDE DEF d
  <2> QED
    BY <2>1, <2>3, <2>4, "drafting" \in Working, StageWrites DEF Working
<1>7. CASE Draft
  <2>1. run.at \in Working /\ run.at # "complete"
    BY <1>7 DEF Draft, Working
  <2> DEFINE d == [c EXCEPT !.held = @ \cup {"complaint"},
                            !.status = "awaiting_confirmation", !.stage = "complete"]
  <2>2. d.status = "awaiting_confirmation" /\ d \in Case
    BY <1>0, <2>1 DEF Case, Artefact, Status, Stage
  <2>3. Checkpoint(d, "complete")
    BY <1>7 DEF Draft
  <2> HIDE DEF d
  <2> QED
    BY <2>1, <2>2, <2>3, "complete" \in Working, StageWrites DEF Working
<1>8. CASE SaveAgain
  <2>1. run.at = "complete" /\ run.at \in Working
    BY <1>8 DEF SaveAgain, Working
  <2>2. Ended(c) \/ Parked(c) \/ Lost
    BY <1>8, WriteEnds DEF SaveAgain
  <2> QED
    BY <2>1, <2>2 DEF PipelineWrites, Ended, Parked, Lost, Write, EndedAs
<1>9. CASE Fail
  <2>1. /\ run.at \in Working /\ run.at # "complete"
        /\ Park(c) /\ c \in Case
    BY <1>0, <1>9 DEF Fail, Working
  <2> QED
    BY <2>1, StageWrites
<1> QED
  BY <1>1, <1>2, <1>3, <1>4, <1>5, <1>6, <1>7, <1>8, <1>9 DEF Pipeline

\* Of a step of a request: it begins or gives up, it writes an envelope that the
\* stored case calls for, or it saves a case the promise lets the stored one become.
SavesFiled ==
    /\ stored.status = "awaiting_confirmation" /\ outbox["confirm"] > 0
    /\ stored'.status = "filed"
SavesEscalated ==
    /\ stored.status \in {"filed", "acknowledged"} /\ outbox["escalate"] > 0
    /\ stored'.status = "escalated"
SavesLifecycle ==
    \/ stored.status \in AcknowledgeFrom /\ stored'.status = "acknowledged"
    \/ stored.status \in ResolveFrom /\ stored'.status = "resolved"
    \/ stored.status \in WithdrawFrom /\ stored'.status = "withdrawn"
    \/ stored.status \in RtiFrom /\ stored'.status = stored.status

RequestSaves(h) ==
    /\ req[h].op # "none" /\ req'[h] = Idle
    /\ run.at \in Over
    /\ UNCHANGED <<run, outbox, live, today>>
    /\ stored \in Case /\ stored' \in Case
    /\ SavesFiled \/ SavesEscalated \/ SavesLifecycle
    /\ Sendable(stored) => Sendable(stored')
    /\ SavesFiled \/ SavesEscalated => Sendable(stored')

\* Each save is such a save: the copy is the stored case or was made of it.
LEMMA SaveStep ==
    ASSUME Inv, TypeOK', NEW h \in Handlers, Save(h)
    PROVE  RequestSaves(h)
<1> DEFINE c == req[h].copy
<1>1. /\ req' = [req EXCEPT ![h] = Idle]
      /\ UNCHANGED <<run, outbox, live, today>>
      /\ req[h].op # "none"
  BY DEF Save, Sending
<1>2. /\ req'[h] = Idle
      /\ c \in Case
      /\ RequestIsCurrent(req[h]) /\ RequestShape(req[h])
      /\ run.at \in Over
      /\ today \in Day /\ today \in Int
  BY <1>1 DEF Inv, CaseInv, SerialInv, TypeOK, RequestIsCurrent, Day
<1>3. stored \in Case
  BY <1>2 DEF Inv, CaseInv, SerialInv, TypeOK, Over
<1>4. CASE req[h].op \in Sending
  <2>1. req[h].sent /\ stored' = c
    BY <1>4 DEF Save, Sending
  <2>2. /\ Sendable(c)
        /\ \/ /\ req[h].op = "confirm" /\ stored.status = "awaiting_confirmation"
              /\ outbox["confirm"] > 0 /\ c.status = "filed"
           \/ /\ req[h].op = "escalate" /\ stored.status \in {"filed", "acknowledged"}
              /\ outbox["escalate"] > 0 /\ c.status = "escalated"
    BY <1>1, <1>2, <2>1 DEF RequestIsCurrent, RequestShape
  <2> QED
    BY <1>1, <1>2, <1>3, <2>1, <2>2 DEF RequestSaves, SavesFiled, SavesEscalated
<1>5. CASE req[h].op \notin Sending
  <2>1. c = stored
    BY <1>1, <1>2, <1>5 DEF RequestIsCurrent, Sending
  <2>2. CASE req[h].op = "acknowledge"
    <3>1. PICK on \in Dates \cup {today} : stored' = Acknowledge(c, on)
      BY <1>5, <2>2 DEF Save
    <3>2. on \in Int
      BY <1>2, DatesAssumption
    <3>3. /\ stored'.status = "acknowledged" /\ stored' \in Case
          /\ stored'.held = stored.held /\ stored'.jurisdiction = stored.jurisdiction
      BY <1>2, <1>3, <2>1, <3>1, <3>2, TransitionType DEF Acknowledge, Case
    <3> QED
      BY <1>1, <1>2, <1>3, <2>1, <2>2, <3>3
         DEF RequestSaves, SavesFiled, SavesEscalated, SavesLifecycle, RequestShape, Sendable
  <2>3. CASE req[h].op = "resolve"
    <3>1. stored' = Resolve(c, today)
      BY <1>5, <2>3 DEF Save, Sending
    <3>2. /\ stored'.status = "resolved" /\ stored' \in Case
          /\ stored'.held = stored.held /\ stored'.jurisdiction = stored.jurisdiction
      BY <1>2, <1>3, <2>1, <3>1, 0 \in Int, TransitionType DEF Resolve, Case
    <3> QED
      BY <1>1, <1>2, <1>3, <2>1, <2>3, <3>2
         DEF RequestSaves, SavesFiled, SavesEscalated, SavesLifecycle, RequestShape, Sendable
  <2>4. CASE req[h].op = "withdraw"
    <3>1. stored' = Withdraw(c, today)
      BY <1>5, <2>4 DEF Save, Sending
    <3>2. /\ stored'.status = "withdrawn" /\ stored' \in Case
          /\ stored'.held = stored.held /\ stored'.jurisdiction = stored.jurisdiction
      BY <1>2, <1>3, <2>1, <3>1, 0 \in Int, TransitionType DEF Withdraw, Case
    <3> QED
      BY <1>1, <1>2, <1>3, <2>1, <2>4, <3>2
         DEF RequestSaves, SavesFiled, SavesEscalated, SavesLifecycle, RequestShape, Sendable
  <2>5. CASE req[h].op = "rti"
    <3>1. stored' = DraftRti(c)
      BY <1>5, <2>5 DEF Save, Sending
    <3>2. /\ stored'.status = stored.status /\ stored' \in Case
          /\ stored.held \subseteq stored'.held /\ stored'.jurisdiction = stored.jurisdiction
      BY <1>2, <1>3, <2>1, <3>1, 0 \in Int, TransitionType DEF DraftRti, Case
    <3>3. stored.status \in RtiFrom
      BY <1>2, <2>1, <2>5 DEF RequestShape, RtiAvailable
    <3> QED
      BY <1>1, <1>2, <1>3, <2>5, <3>2, <3>3
         DEF RequestSaves, SavesFiled, SavesEscalated, SavesLifecycle, RtiFrom, Sendable
  <2> QED
    BY <1>5, <2>2, <2>3, <2>4, <2>5 DEF Save
<1> QED
  BY <1>4, <1>5

\* An envelope is written only for what the stored case is.
LEMMA DeliverStep ==
    ASSUME Inv, NEW h \in Handlers, Deliver(h)
    PROVE  /\ stored = req[h].copy /\ stored \in Case /\ run.at \in Over
           /\ \/ req[h].op = "confirm" /\ stored.status = "awaiting_confirmation"
              \/ req[h].op = "escalate" /\ stored.status \in {"filed", "acknowledged"}
           /\ Sendable(stored)
<1>1. req[h].op \in Sending /\ req[h].op # "none" /\ ~req[h].sent /\ Sendable(req[h].copy)
  BY DEF Deliver, Sending
<1>2. /\ stored = req[h].copy /\ stored \in Case
      /\ run.at \in Over /\ RequestShape(req[h])
  BY <1>1 DEF Inv, CaseInv, SerialInv, TypeOK, RequestIsCurrent
<1> QED
  BY <1>1, <1>2 DEF RequestShape, Sending, EscalationDue, ClockStart

-----------------------------------------------------------------------------
(* Nobody overtakes anybody. *)

\* While the pipeline works there is no request, and its write is the newest.
LEMMA PipelineStaysCurrent ==
    ASSUME Inv, TypeOK', PipelineWrites
    PROVE  SerialInv'
<1>1. /\ run.at \in Working /\ run'.at # "none"
      /\ UNCHANGED <<req, outbox, live, today>>
      /\ outbox["confirm"] = 0 /\ ~(outbox["confirm"] > 0)
  BY DEF PipelineWrites, Inv, SerialInv, PipelineIsCurrent
<1>2. \A h \in Handlers : req[h].op = "none"
  BY <1>1 DEF Inv, SerialInv, RequestIsCurrent, Working, Over
<1>3. stored # None /\ stored' # None /\ run.case \in Case
  <2>1. stored # None /\ run.case \in Case
    BY <1>1 DEF Inv, CaseInv, SerialInv, TypeOK, Working
  <2>2. [run.case EXCEPT !.status = "failed"] # None
    BY <2>1, NoneAssumption DEF Case, Status
  <2> QED
    BY <2>1, <2>2, NoneAssumption DEF PipelineWrites
<1>4. PipelineIsCurrent'
  BY <1>1, <1>3 DEF PipelineWrites, PipelineIsCurrent, Inv, SerialInv, Working
<1> QED
  BY <1>1, <1>2, <1>3, <1>4 DEF SerialInv, RequestIsCurrent, SentIsOnRecord

\* One request at a time: what it loads, writes and saves is the newest.
LEMMA RequestStaysCurrent ==
    ASSUME Inv, TypeOK', OneAtATime, NEW h \in Handlers,
           (\E op \in Operation : Load(h, op)) \/ Deliver(h) \/ Save(h) \/ GiveUp(h)
    PROVE  SerialInv'
<1>1. \A g \in Handlers : g = h
  BY DEF OneAtATime
<1>2. req \in [Handlers -> [op : Operation \cup {"none"}, copy : Case \cup {None},
                            sent : BOOLEAN]]
      /\ outbox \in [Sending -> 0 .. 2]
  BY DEF Inv, CaseInv, TypeOK
<1>3. CASE \E op \in Operation : Load(h, op)
  <2>1. PICK op \in Operation : Load(h, op)
    BY <1>3
  <2>2. /\ run.at \in Over
        /\ UNCHANGED <<stored, run, outbox, live, today>>
        /\ req'[h] = [op |-> op, copy |-> stored, sent |-> FALSE]
    BY <1>2, <2>1 DEF Load, OneAtATime
  <2> QED
    BY <1>1, <2>2 DEF Inv, SerialInv, RequestIsCurrent, PipelineIsCurrent, SentIsOnRecord
<1>4. CASE Deliver(h)
  <2>1. /\ stored = req[h].copy /\ stored \in Case /\ run.at \in Over
        /\ \/ req[h].op = "confirm" /\ stored.status = "awaiting_confirmation"
           \/ req[h].op = "escalate" /\ stored.status \in {"filed", "acknowledged"}
        /\ Sendable(stored)
    BY <1>4, DeliverStep
  <2> DEFINE s == Sent(req[h].op, stored, today)
  <2>2. /\ req[h].op \in Sending
        /\ req'[h] = [op |-> req[h].op, sent |-> TRUE, copy |-> s]
        /\ outbox' = [outbox EXCEPT ![req[h].op] = IF @ < 2 THEN @ + 1 ELSE 2]
        /\ UNCHANGED <<stored, run, live, today>>
    BY <1>2, <1>4, <2>1 DEF Deliver
  <2>3. Sendable(s)
    BY <2>1 DEF Sendable, Sent, FileComplaint, Escalate, Case
  <2> HIDE DEF s
  <2>4. outbox'[req[h].op] > 0 /\ stored # None
    BY <1>2, <2>1, <2>2, NoneAssumption
  <2>5. RequestIsCurrent(req[h])'
    BY <2>1, <2>2, <2>3, <2>4 DEF RequestIsCurrent
  <2>6. SentIsOnRecord'
    BY <2>1, <2>2 DEF SentIsOnRecord, PublicStatuses
  <2>7. PipelineIsCurrent'
    BY <2>1, <2>2 DEF PipelineIsCurrent, Working, Over
  <2>8. (run.at = "none" <=> stored = None)' /\ (stored = None => outbox["confirm"] = 0)'
    BY <2>1, <2>2, <2>4 DEF Over
  <2> QED
    BY <1>1, <2>5, <2>6, <2>7, <2>8 DEF SerialInv
<1>5. CASE Save(h)
  <2>1. RequestSaves(h)
    BY <1>5, SaveStep
  <2>2. /\ req'[h].op = "none" /\ UNCHANGED <<run, outbox>>
        /\ run.at \in Over /\ stored' # None
    BY <2>1, NoneAssumption DEF RequestSaves, Idle
  <2>3. SentIsOnRecord'
    <3>1. ASSUME outbox["confirm"] > 0 PROVE Sendable(stored')
      BY <2>1, <3>1 DEF RequestSaves, Inv, SerialInv, SentIsOnRecord
    <3>2. ASSUME outbox["confirm"] > 0
          PROVE  stored'.status \in {"awaiting_confirmation", "withdrawn"} \cup PublicStatuses
      BY <2>1, <3>2 DEF RequestSaves, SavesFiled, SavesEscalated, SavesLifecycle,
                        RtiFrom, PublicStatuses
    <3> QED
      BY <2>2, <3>1, <3>2 DEF SentIsOnRecord
  <2> QED
    BY <1>1, <2>2, <2>3 DEF SerialInv, RequestIsCurrent, PipelineIsCurrent, Working, Over
<1>6. CASE GiveUp(h)
  <2>1. req'[h].op = "none" /\ UNCHANGED <<stored, run, outbox, live, today>>
    BY <1>2, <1>6 DEF GiveUp, Idle
  <2> QED
    BY <1>1, <2>1 DEF Inv, SerialInv, RequestIsCurrent, PipelineIsCurrent, SentIsOnRecord
<1> QED
  BY <1>3, <1>4, <1>5, <1>6

\* The invariant behind the theorems of this module.
THEOREM SerialInductive == ASSUME OneAtATime PROVE Spec => []Inv
<1>1. Init => SerialInv
  BY DEF Init, SerialInv, RequestIsCurrent, PipelineIsCurrent, SentIsOnRecord, Idle, Working, Sending
<1>2. Inv /\ TypeOK' /\ [Next]_vars => SerialInv'
  <2> SUFFICES ASSUME Inv, TypeOK', [Next]_vars PROVE SerialInv'
    OBVIOUS
  <2>1. ASSUME NEW report \in Reports, Submit(report) PROVE SerialInv'
    <3>1. /\ stored = None /\ run.at = "none" /\ outbox["confirm"] = 0
          /\ stored' = NewCase(report)
          /\ run' = [at |-> "received", case |-> NewCase(report)]
          /\ UNCHANGED <<req, outbox, live, today>>
      BY <2>1 DEF Submit, Inv, SerialInv
    <3>2. NewCase(report).status = "draft" /\ NewCase(report).stage = "received"
          /\ NewCase(report) # None
      BY NewCaseType, NoneAssumption DEF NewCase
    <3> QED
      BY <3>1, <3>2 DEF Inv, SerialInv, RequestIsCurrent, PipelineIsCurrent, SentIsOnRecord, Over
  <2>2. CASE Pipeline
    BY <2>2, PipelineStep, PipelineStaysCurrent DEF Inv
  <2>3. CASE \E h \in Handlers, op \in Operation : Load(h, op)
    BY <2>3, RequestStaysCurrent
  <2>4. CASE \E h \in Handlers : Deliver(h) \/ Save(h) \/ GiveUp(h)
    BY <2>4, RequestStaysCurrent
  <2>5. CASE Restart
    <3>1. /\ run' = IF run.at \in Working THEN EndedAs("gone") ELSE run
          /\ req' = [h \in Handlers |-> Idle]
          /\ UNCHANGED <<stored, outbox, today>>
      BY <2>5 DEF Restart
    <3> QED
      BY <3>1 DEF Inv, SerialInv, RequestIsCurrent, PipelineIsCurrent, SentIsOnRecord, Idle, Working,
             Over, EndedAs
  <2>6. CASE Tick
    BY <2>6 DEF Tick, Inv, SerialInv, RequestIsCurrent, PipelineIsCurrent, SentIsOnRecord
  <2>7. CASE UNCHANGED vars
    BY <2>7 DEF vars, Inv, SerialInv, RequestIsCurrent, PipelineIsCurrent, SentIsOnRecord
  <2> QED
    BY <2>1, <2>2, <2>3, <2>4, <2>5, <2>6, <2>7 DEF Next
<1>3. Inv <=> CaseInv /\ SerialInv
  BY DEF Inv
<1> QED
  BY <1>1, <1>2, <1>3, Inductive, TypeCorrect, PTL DEF Spec

-----------------------------------------------------------------------------
(* The properties. *)

\* SentIsOnRecord: once a complaint is out, the case keeps it and the authority.
THEOREM SentStaysOnRecord == ASSUME OneAtATime PROVE Spec => []SentIsOnRecord
<1>1. Inv => SentIsOnRecord
  BY DEF Inv, SerialInv
<1> QED
  BY <1>1, SerialInductive, PTL

\* EnvelopeMatchesRecord: nothing is sent for what the stored case is no longer.
THEOREM EnvelopesMatch == ASSUME OneAtATime PROVE Spec => EnvelopeMatchesRecord
<1> DEFINE Matches(h) ==
      ~req[h].sent /\ req'[h].sent =>
        IF req[h].op = "confirm" THEN stored.status = "awaiting_confirmation"
        ELSE stored.status \in {"filed", "acknowledged"} /\ stored = req[h].copy
<1>1. ASSUME Inv, [Next]_vars, NEW h \in Handlers, ~req[h].sent, req'[h].sent
      PROVE  Deliver(h)
  <2>0. req \in [Handlers -> [op : Operation \cup {"none"}, copy : Case \cup {None},
                              sent : BOOLEAN]]
    BY <1>1 DEF Inv, CaseInv, TypeOK
  <2>1. req' # req
    BY <1>1
  <2>2. ~(\E report \in Reports : Submit(report)) /\ ~Pipeline /\ ~Tick /\ ~UNCHANGED vars
    BY <1>1, <2>1 DEF Submit, Tick, vars, Pipeline, Receive, Locate, Hear, Assess, Corroborate,
                      ResolveJurisdiction, Draft, SaveAgain, Fail, Checkpoint, Halt, Park, Lose, Write
  <2>3. ~Restart
    BY <1>1 DEF Restart, Idle
  <2>4. ASSUME NEW g \in Handlers, (\E op \in Operation : Load(g, op)) \/ Save(g) \/ GiveUp(g)
        PROVE  FALSE
    BY <1>1, <2>0, <2>4 DEF Load, Save, GiveUp, Idle
  <2>5. PICK g \in Handlers : Deliver(g)
    BY <1>1, <2>2, <2>3, <2>4 DEF Next
  <2>6. g = h
    BY <1>1, <2>0, <2>5 DEF Deliver
  <2> QED
    BY <2>5, <2>6
<1>2. Inv /\ [Next]_vars => [\A h \in Handlers : Matches(h)]_vars
  BY <1>1, DeliverStep
<1> QED
  BY <1>2, SerialInductive, PTL DEF Spec, EnvelopeMatchesRecord

\* PageSeesTheRun: a finished case changes by a request, which answers with it, or by
\* the refusal of the pipeline's second save.
THEOREM PageIsUpToDate == ASSUME OneAtATime PROVE Spec => PageSeesTheRun
<1> DEFINE Seen ==
      stored # None /\ IsFinished(stored) /\ stored' # stored =>
        \/ \E h \in Handlers : req[h].op # "none" /\ req'[h].op = "none"
        \/ run.at = "complete" /\ stored' = [stored EXCEPT !.status = "failed"]
<1>1. Inv /\ TypeOK' /\ [Next]_vars => Seen
  <2> SUFFICES ASSUME Inv, TypeOK', [Next]_vars, stored # None, IsFinished(stored),
                      stored' # stored
               PROVE  \/ \E h \in Handlers : req[h].op # "none" /\ req'[h].op = "none"
                      \/ run.at = "complete" /\ stored' = [stored EXCEPT !.status = "failed"]
    OBVIOUS
  <2>1. CASE Pipeline
    <3>1. PipelineWrites
      BY <2>1, PipelineStep DEF Inv
    <3>2. run.at # "complete" => ~IsFinished(stored)
      BY <3>1 DEF PipelineWrites, Inv, SerialInv, PipelineIsCurrent, IsFinished, TerminalStatuses
    <3> QED
      BY <3>1, <3>2 DEF PipelineWrites, Inv, SerialInv, PipelineIsCurrent
  <2>2. ASSUME NEW h \in Handlers, Save(h)
        PROVE  req[h].op # "none" /\ req'[h].op = "none"
    BY <2>2, SaveStep DEF RequestSaves, Idle
  <2>3. ~(\E report \in Reports : Submit(report)) /\ ~Restart /\ ~Tick /\ ~UNCHANGED vars
    BY DEF Submit, Restart, Tick, vars
  <2>4. ASSUME NEW h \in Handlers, (\E op \in Operation : Load(h, op)) \/ Deliver(h) \/ GiveUp(h)
        PROVE  FALSE
    BY <2>4 DEF Load, Deliver, GiveUp
  <2> QED
    BY <2>1, <2>2, <2>3, <2>4 DEF Next
<1>2. Inv /\ TypeOK' /\ [Next]_vars => [Seen]_vars
  BY <1>1
<1> QED
  BY <1>2, SerialInductive, TypeCorrect, PTL DEF Spec, PageSeesTheRun

-----------------------------------------------------------------------------
(* The refinement. *)

\* The pipeline accepts nothing new and concludes a draft, or gives up the complaint
\* it drafted before anything was sent, or does nothing the promise speaks of.
LEMMA PipelinePromise ==
    ASSUME Inv, PipelineWrites
    PROVE  [Promise!Next]_(Promise!vars)
<1>1. /\ stored # None /\ UNCHANGED outbox
      /\ run.at # "complete" => stored.status = "draft"
      /\ run.at = "complete" => stored = run.case /\ ~(outbox["confirm"] > 0)
  BY DEF PipelineWrites, Inv, SerialInv, PipelineIsCurrent, Working
<1>2. CASE stored' = stored
  BY <1>1, <1>2 DEF Promise!vars
<1>3. CASE stored' # None /\ stored'.status = "draft" /\ stored.status = "draft"
  BY <1>1, <1>3 DEF Promise!vars
<1>4. CASE /\ stored.status = "draft" /\ stored' # None
           /\ stored'.status \in {"awaiting_confirmation", "rejected", "failed"}
  <2>1. Promise!Conclude
    BY <1>1, <1>4 DEF Promise!Conclude, Promise!MoveTo
  <2> QED
    BY <2>1 DEF Promise!Next
<1>5. CASE run.at = "complete" /\ stored' = [run.case EXCEPT !.status = "failed"]
  <2>1. stored \in Case /\ stored.status = "awaiting_confirmation"
    BY <1>1, <1>5 DEF Inv, CaseInv, TypeOK, PipelineShape, Working
  <2>2. stored' # None /\ stored'.status = "failed"
    BY <1>1, <1>5, <2>1, NoneAssumption DEF Case, Status
  <2>3. Promise!GiveUp
    BY <1>1, <1>5, <2>1, <2>2 DEF Promise!GiveUp, Promise!MoveTo
  <2> QED
    BY <2>3 DEF Promise!Next
<1> QED
  BY <1>1, <1>2, <1>3, <1>4, <1>5 DEF PipelineWrites

\* An envelope is one the promise allows, written now or not for the first time.
LEMMA DeliverPromise ==
    ASSUME Inv, NEW h \in Handlers, Deliver(h)
    PROVE  [Promise!Next]_(Promise!vars)
<1>1. /\ stored # None
      /\ \/ req[h].op = "confirm" /\ stored.status = "awaiting_confirmation"
         \/ req[h].op = "escalate" /\ stored.status \in {"filed", "acknowledged"}
  BY DeliverStep, NoneAssumption
<1>2. /\ outbox' = [outbox EXCEPT ![req[h].op] = IF @ < 2 THEN @ + 1 ELSE 2]
      /\ outbox \in [Sending -> 0 .. 2]
      /\ stored' = stored
  BY DEF Deliver, Inv, CaseInv, TypeOK
<1>3. CASE req[h].op = "confirm"
  <2>1. outbox'["confirm"] > 0 /\ outbox'["escalate"] = outbox["escalate"]
    BY <1>2, <1>3 DEF Sending
  <2>2. Promise!Complain
    BY <1>1, <1>2, <1>3, <2>1 DEF Promise!Complain
  <2> QED
    BY <2>2 DEF Promise!Next
<1>4. CASE req[h].op = "escalate"
  <2>1. outbox'["escalate"] > 0 /\ outbox'["confirm"] = outbox["confirm"]
    BY <1>2, <1>4 DEF Sending
  <2>2. Promise!GoOver
    BY <1>1, <1>2, <1>4, <2>1 DEF Promise!GoOver
  <2> QED
    BY <2>2 DEF Promise!Next
<1> QED
  BY <1>1, <1>3, <1>4

\* A save moves the status along the promised graph.
LEMMA SavePromise ==
    ASSUME NEW h \in Handlers, RequestSaves(h)
    PROVE  [Promise!Next]_(Promise!vars)
<1>1. /\ stored # None /\ stored' # None /\ UNCHANGED outbox
      /\ SavesFiled \/ SavesEscalated \/ SavesLifecycle
  BY NoneAssumption DEF RequestSaves
<1>2. CASE SavesFiled
  <2>1. Promise!RecordFiled
    BY <1>1, <1>2 DEF SavesFiled, Promise!RecordFiled, Promise!MoveTo
  <2> QED
    BY <2>1 DEF Promise!Next
<1>3. CASE SavesEscalated
  <2>1. Promise!RecordEscalated
    BY <1>1, <1>3 DEF SavesEscalated, Promise!RecordEscalated, Promise!MoveTo
  <2> QED
    BY <2>1 DEF Promise!Next
<1>4. CASE stored.status \in AcknowledgeFrom /\ stored'.status = "acknowledged"
  <2>1. Promise!Answer
    BY <1>1, <1>4 DEF AcknowledgeFrom, Promise!Answer, Promise!Answerable, Promise!MoveTo
  <2> QED
    BY <2>1 DEF Promise!Next
<1>5. CASE stored.status \in ResolveFrom /\ stored'.status = "resolved"
  <2>1. Promise!Close
    BY <1>1, <1>5 DEF ResolveFrom, Promise!Close, Promise!Answerable, Promise!MoveTo
  <2> QED
    BY <2>1 DEF Promise!Next
<1>6. CASE stored.status \in WithdrawFrom /\ stored'.status = "withdrawn"
  <2>1. Promise!TakeBack
    BY <1>1, <1>6 DEF WithdrawFrom, Status, TerminalStatuses, Promise!TakeBack,
                      Promise!Open, Promise!MoveTo
  <2> QED
    BY <2>1 DEF Promise!Next
<1>7. CASE stored'.status = stored.status
  BY <1>1, <1>7 DEF Promise!vars
<1> QED
  BY <1>1, <1>2, <1>3, <1>4, <1>5, <1>6, <1>7 DEF SavesLifecycle

\* KeepsPromise: every step of the service is a step of the promise, or none of its
\* business.
THEOREM PromiseIsKept == ASSUME OneAtATime PROVE Spec => KeepsPromise
<1>1. Init => Promise!Init
  BY DEF Init, Promise!Init, Sending
<1>2. Inv /\ TypeOK' /\ [Next]_vars => [Promise!Next]_(Promise!vars)
  <2> SUFFICES ASSUME Inv, TypeOK', [Next]_vars PROVE [Promise!Next]_(Promise!vars)
    OBVIOUS
  <2>1. ASSUME NEW report \in Reports, Submit(report)
        PROVE  [Promise!Next]_(Promise!vars)
    <3>1. /\ stored = None /\ stored' # None /\ stored'.status = "draft"
          /\ UNCHANGED outbox
      BY <2>1, NewCaseType, NoneAssumption DEF Submit, NewCase
    <3>2. Promise!Accept
      BY <3>1 DEF Promise!Accept, Promise!MoveTo
    <3> QED
      BY <3>2 DEF Promise!Next
  <2>2. CASE Pipeline
    BY <2>2, PipelineStep, PipelinePromise DEF Inv
  <2>3. ASSUME NEW h \in Handlers, Deliver(h) PROVE [Promise!Next]_(Promise!vars)
    BY <2>3, DeliverPromise
  <2>4. ASSUME NEW h \in Handlers, Save(h) PROVE [Promise!Next]_(Promise!vars)
    BY <2>4, SaveStep, SavePromise
  <2>5. CASE \/ \E h \in Handlers : (\E op \in Operation : Load(h, op)) \/ GiveUp(h)
             \/ Restart \/ Tick \/ UNCHANGED vars
    <3>1. UNCHANGED <<stored, outbox>>
      BY <2>5 DEF Load, GiveUp, Restart, Tick, vars
    <3> QED
      BY <3>1 DEF Promise!vars
  <2> QED
    BY <2>1, <2>2, <2>3, <2>4, <2>5 DEF Next
<1> QED
  BY <1>1, <1>2, SerialInductive, TypeCorrect, PTL DEF Spec, KeepsPromise, Promise!Spec
=============================================================================
