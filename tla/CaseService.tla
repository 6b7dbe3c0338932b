---------------------------- MODULE CaseService ----------------------------
(***************************************************************************)
(* One case in the running server.  Three kinds of actor touch it:         *)
(*                                                                         *)
(*   - the pipeline task (pipeline.run), spawned by submit_report on the   *)
(*     event loop, which keeps its own Case object from start to finish    *)
(*     and writes all of it at every checkpoint without reading the store; *)
(*   - the request handlers of api.py.  A plain `def` handler runs on a    *)
(*     worker thread and draft_rti awaits a model, so each of them loads   *)
(*     the case, checks it, acts on its private copy and saves that copy,  *)
(*     with anything else happening in between;                            *)
(*   - the operating system, which may end the process at any point.  The  *)
(*     store and the outbox survive; the task and the requests do not, and *)
(*     nothing resumes them.                                               *)
(*                                                                         *)
(* A save may raise as well, and has then written nothing.  One raised in  *)
(* a stage parks the case as failed, by one more save; one raised outside  *)
(* the stages, or by that last save, ends the task and leaves the store as *)
(* it was.                                                                 *)
(*                                                                         *)
(* Cases live in separate documents and no handler here reads two of them, *)
(* so one case shows every interleaving.                                   *)
(***************************************************************************)
EXTENDS CaseRecord, FiniteSets

CONSTANTS
    Handlers,       \* requests that can be in flight at the same time
    Dates,          \* the days a citizen may give for an authority's answer
    ActDuringRun,   \* do requests act on the case while its pipeline runs?
    Crashes,        \* may the process end, and be started again?
    WritesFail,     \* may the store, or the outbox, refuse a write?
    LiveSettings    \* values a start of the server may find live filing set to

ASSUME DatesAssumption == Dates \subseteq Int
ASSUME SwitchAssumption ==
    /\ ActDuringRun \in BOOLEAN
    /\ Crashes \in BOOLEAN
    /\ WritesFail \in BOOLEAN
    /\ LiveSettings \subseteq BOOLEAN

VARIABLES
    stored,     \* the case as the store holds it, None before the report
    run,        \* the pipeline task: where it is, and its own Case object
    req,        \* each request: what it does, and the copy it loaded
    outbox,     \* envelopes written so far, 2 standing for "more than one"
    live,       \* the live-filing switch this process was started with
    today       \* the calendar

vars == <<stored, run, req, outbox, live, today>>

Operation == {"confirm", "escalate", "acknowledge", "resolve", "withdraw", "rti"}

\* The two operations that put an envelope in the outbox.
Sending == {"confirm", "escalate"}

\* The points between two writes of the pipeline, named after what comes next.
Working == {"received", "geocode", "hear", "evidence", "corroboration",
            "jurisdiction", "drafting", "complete"}
\* How a run is over: it ended, or it is gone, with its process or by an exception
\* nothing catches.
Over == {"done", "gone"}
RunState == Working \cup Over \cup {"none"}

Idle == [op |-> "none", copy |-> None, sent |-> FALSE]

TypeOK ==
    /\ stored \in Case \cup {None}
    /\ run \in [at : RunState, case : Case \cup {None}]
    /\ run.at \in Working => run.case \in Case
    /\ req \in [Handlers -> [op : Operation \cup {"none"},
                             copy : Case \cup {None}, sent : BOOLEAN]]
    /\ \A h \in Handlers : req[h].op # "none" => req[h].copy \in Case
    /\ outbox \in [Sending -> 0 .. 2]
    /\ live \in BOOLEAN
    /\ today \in Day

Init ==
    /\ stored = None
    /\ run = [at |-> "none", case |-> None]
    /\ req = [h \in Handlers |-> Idle]
    /\ outbox = [kind \in Sending |-> 0]
    /\ live \in LiveSettings
    /\ today = 0

-----------------------------------------------------------------------------
(* The pipeline.  Every checkpoint replaces the stored document. *)

\* submit_report: the case is saved, the task is spawned, the id is answered.
Submit(report) ==
    /\ stored = None
    /\ stored' = NewCase(report)
    /\ run' = [at |-> "received", case |-> NewCase(report)]
    /\ UNCHANGED <<req, outbox, live, today>>

\* store.save, and what the task goes on to.
Write(case, next) ==
    /\ stored' = case
    /\ run' = next
    /\ UNCHANGED <<req, outbox, live, today>>

EndedAs(how) == [at |-> how, case |-> None]

\* A save raises where nothing catches it.
Lose ==
    /\ WritesFail
    /\ Write(stored, EndedAs("gone"))

\* The except block of run, which is outside its own try: the case is saved as
\* failed, with whatever the stage had made of it.
Park(case) ==
    \/ Write([case EXCEPT !.status = "failed"], EndedAs("done"))
    \/ Lose

\* checkpoint(stage), and the await that follows it; a save that raises here is
\* an exception in the stage.
Checkpoint(case, next) ==
    \/ Write(case, [at |-> next, case |-> case])
    \/ WritesFail /\ Park(case)

\* The last write of a run.
Halt(case) ==
    \/ Write(case, EndedAs("done"))
    \/ WritesFail /\ Park(case)

\* checkpoint(RECEIVED) comes before the try.
Receive ==
    /\ run.at = "received"
    /\ LET case == [run.case EXCEPT !.stage = "received"]
       IN Write(case, [at |-> "geocode", case |-> case]) \/ Lose

\* A country with no authority table ends the run; anything else goes on.
Locate ==
    /\ run.at = "geocode"
    /\ \/ Halt([run.case EXCEPT !.status = "rejected", !.stage = "halted"])
       \/ Checkpoint([run.case EXCEPT !.stage = "evidence"],
                     IF run.case.report.voice THEN "hear" ELSE "evidence")

\* _hear, which writes nothing unless the run ends there.  The note is heard,
\* or holds no speech, or cannot be played; the last two are fatal only when
\* there is nothing else to go on.
Hear ==
    /\ run.at = "hear"
    /\ \E played, speech \in BOOLEAN :
         LET heard == IF played THEN [run.case EXCEPT !.held = @ \cup {"voice"}]
                                ELSE run.case
         IN IF (played /\ speech) \/ run.case.report.something_else
            THEN /\ run' = [at |-> "evidence", case |-> heard]
                 /\ UNCHANGED <<stored, req, outbox, live, today>>
            ELSE Halt([heard EXCEPT !.status = "failed"])

\* The evidence agent, and the confidence floor below which a run halts.
Assess ==
    /\ run.at = "evidence"
    /\ LET case == [run.case EXCEPT !.held = @ \cup {"evidence"}]
       IN \/ Halt([case EXCEPT !.status = "rejected", !.stage = "halted"])
          \/ Checkpoint([case EXCEPT !.stage = "corroboration"], "corroboration")

Corroborate ==
    /\ run.at = "corroboration"
    /\ Checkpoint([run.case EXCEPT !.held = @ \cup {"corroboration"},
                                   !.stage = "jurisdiction"], "jurisdiction")

ResolveJurisdiction ==
    /\ run.at = "jurisdiction"
    /\ \E j \in Authorities :
         Checkpoint([run.case EXCEPT !.jurisdiction = j, !.stage = "drafting"],
                    "drafting")

Draft ==
    /\ run.at = "drafting"
    /\ Checkpoint([run.case EXCEPT !.held = @ \cup {"complaint"},
                                   !.status = "awaiting_confirmation",
                                   !.stage = "complete"], "complete")

\* The drafted case is saved a second time, after its checkpoint.
SaveAgain ==
    /\ run.at = "complete"
    /\ Halt(run.case)

\* Faulty: the exception is logged and the status left as it was.
Fail_Swallowed ==
    /\ run.at \in {"geocode", "evidence", "corroboration", "jurisdiction", "drafting"}
    /\ Write(run.case, EndedAs("done"))

\* An exception in a stage: the case is parked as failed, where it had got to.
Fail ==
    /\ run.at \in {"geocode", "evidence", "corroboration", "jurisdiction", "drafting"}
    /\ Park(run.case)

Pipeline ==
    \/ Receive \/ Locate \/ Hear \/ Assess \/ Corroborate
    \/ ResolveJurisdiction \/ Draft \/ SaveAgain \/ Fail

-----------------------------------------------------------------------------
(* The request handlers. *)

\* What each handler requires of the case it loaded, or it answers 409.
Allowed(op, case, day) ==
    CASE op = "confirm"     -> case.status = "awaiting_confirmation"
      [] op = "escalate"    -> EscalationDue(case, day)
      [] op = "acknowledge" -> case.status \in AcknowledgeFrom
      [] op = "resolve"     -> case.status \in ResolveFrom
      [] op = "withdraw"    -> case.status \in WithdrawFrom
      [] op = "rti"         -> RtiAvailable(case, day)

\* _require and the check of the handler, on one loaded copy.
Load(h, op) ==
    /\ req[h].op = "none"
    /\ stored # None
    /\ ActDuringRun \/ run.at \in Over
    /\ Allowed(op, stored, today)
    /\ req' = [req EXCEPT ![h] = [op |-> op, copy |-> stored, sent |-> FALSE]]
    /\ UNCHANGED <<stored, run, outbox, live, today>>

Sent(op, case, day) ==
    IF op = "confirm" THEN FileComplaint(case, day) ELSE Escalate(case, day)

\* Faulty: the case is marked as sent and the envelope left for later.
Deliver_Queued(h) ==
    /\ req[h].op \in Sending
    /\ ~req[h].sent
    /\ ~live
    /\ Sendable(req[h].copy)
    /\ req' = [req EXCEPT ![h] = [op |-> req[h].op, sent |-> TRUE,
                                  copy |-> Sent(req[h].op, req[h].copy, today)]]
    /\ UNCHANGED <<stored, run, outbox, live, today>>

\* file_complaint and escalate: the envelope is on disk before the status says so.
Deliver(h) ==
    /\ req[h].op \in Sending
    /\ ~req[h].sent
    /\ ~live
    /\ Sendable(req[h].copy)
    /\ outbox' = [outbox EXCEPT ![req[h].op] = IF @ < 2 THEN @ + 1 ELSE 2]
    /\ req' = [req EXCEPT ![h] = [op |-> req[h].op, sent |-> TRUE,
                                  copy |-> Sent(req[h].op, req[h].copy, today)]]
    /\ UNCHANGED <<stored, run, live, today>>

\* The whole copy the handler loaded, with its own change on it, is saved.
Save(h) ==
    /\ \/ /\ req[h].op \in Sending
          /\ req[h].sent
          /\ stored' = req[h].copy
       \/ /\ req[h].op = "acknowledge"
          /\ \E on \in Dates \cup {today} : stored' = Acknowledge(req[h].copy, on)
       \/ /\ req[h].op = "resolve"
          /\ stored' = Resolve(req[h].copy, today)
       \/ /\ req[h].op = "withdraw"
          /\ stored' = Withdraw(req[h].copy, today)
       \/ /\ req[h].op = "rti"
          /\ stored' = DraftRti(req[h].copy)
    /\ req' = [req EXCEPT ![h] = Idle]
    /\ UNCHANGED <<run, outbox, live, today>>

\* The request ends without a change: no model answered the RTI draft, the
\* live-filing guard raised, the case was not ready to send, or the envelope or
\* the case could not be written -- the case perhaps after its envelope was.
GiveUp(h) ==
    /\ \/ req[h].op = "rti"
       \/ WritesFail /\ req[h].op # "none"
       \/ /\ req[h].op \in Sending
          /\ ~req[h].sent
          /\ live \/ ~Sendable(req[h].copy)
    /\ req' = [req EXCEPT ![h] = Idle]
    /\ UNCHANGED <<stored, run, outbox, live, today>>

-----------------------------------------------------------------------------
(* The environment. *)

\* The process ends and is started again, with the configuration it then finds.
\* Neither the pipeline task nor a request in flight is taken up again.
Restart ==
    /\ Crashes
    /\ run' = IF run.at \in Working THEN EndedAs("gone") ELSE run
    /\ req' = [h \in Handlers |-> Idle]
    /\ live' \in LiveSettings
    /\ UNCHANGED <<stored, outbox, today>>

Tick ==
    /\ today < MaxDay
    /\ today' = today + 1
    /\ UNCHANGED <<stored, run, req, outbox, live>>

Next ==
    \/ \E report \in Reports : Submit(report)
    \/ Pipeline
    \/ \E h \in Handlers, op \in Operation : Load(h, op)
    \/ \E h \in Handlers : Deliver(h) \/ Save(h) \/ GiveUp(h)
    \/ Restart
    \/ Tick

\* A task on a running event loop and a request on a running server get to
\* take their next step; nobody owes the server a request, a restart or a day.
Fairness ==
    /\ WF_vars(Pipeline)
    /\ \A h \in Handlers : WF_vars(Deliver(h) \/ Save(h) \/ GiveUp(h))

Spec == Init /\ [][Next]_vars /\ Fairness
=============================================================================
