--------------------------- MODULE CaseInvariant ---------------------------
(***************************************************************************)
(* The inductive invariant behind the theorems of CaseProofs.  The four    *)
(* safety properties of the race are about the stored case; a step writes  *)
(* a copy taken any number of steps ago, so what makes them inductive is   *)
(* that every copy anybody holds satisfies them, and that each actor's     *)
(* copy still satisfies what the actor checked when it took it.  SerialInv *)
(* is what is left to say when no two actors race.                         *)
(***************************************************************************)
EXTENDS CaseProperties

\* The outbox and the calendar as one copy of the case knows them: what has
\* once been true of them stays true, so a stale copy stays good.
Good(c, box, day) ==
    /\ Coherent(c)
    /\ c.filed_at # None => c.filed_at <= day /\ box["confirm"] > 0
    /\ c.escalated_at # None => box["escalate"] > 0
    /\ "rti" \in c.held =>
         /\ c.filed_at # None
         /\ c.jurisdiction # None
         /\ c.jurisdiction.country = "IN"
         /\ day >= c.filed_at + c.jurisdiction.response_window_days

AllGood == \A c \in Copies : Good(c, outbox, today)

\* The pipeline's own Case object: untouched by any request, a draft until the
\* complaint is written, and with the artefacts of the stages it has passed.
AfterEvidence == {"corroboration", "jurisdiction", "drafting", "complete"}

Untouched(c) ==
    /\ c.filed_at = None
    /\ c.acknowledged_at = None
    /\ c.escalated_at = None
    /\ c.resolved_at = None
    /\ c.withdrawn_at = None
    /\ "rti" \notin c.held

PipelineShape ==
    run.at \in Working =>
        /\ run.case.status =
             IF run.at = "complete" THEN "awaiting_confirmation" ELSE "draft"
        /\ Untouched(run.case)
        /\ run.at \in AfterEvidence => "evidence" \in run.case.held
        /\ run.at \in AfterEvidence \ {"corroboration"} =>
             "corroboration" \in run.case.held
        /\ run.at \in {"drafting", "complete"} => run.case.jurisdiction # None
        /\ run.at = "complete" =>
             "complaint" \in run.case.held /\ run.case.stage = "complete"

\* A request's copy: what the handler checked, until it has acted on it.
RequestShape(r) ==
    /\ r.op = "confirm" =>
         r.copy.status = IF r.sent THEN "filed" ELSE "awaiting_confirmation"
    /\ r.op = "escalate" =>
         IF r.sent THEN r.copy.status = "escalated" ELSE EscalationDue(r.copy, today)
    /\ r.op = "acknowledge" => r.copy.status \in AcknowledgeFrom
    /\ r.op = "resolve" => r.copy.status \in ResolveFrom
    /\ r.op = "withdraw" => r.copy.status \in WithdrawFrom
    /\ r.op = "rti" => RtiAvailable(r.copy, today)

CaseInv ==
    /\ TypeOK
    /\ AllGood
    /\ PipelineShape
    /\ \A h \in Handlers : RequestShape(req[h])
    /\ outbox["escalate"] > 0 => outbox["confirm"] > 0
-----------------------------------------------------------------------------
(* When requests come one at a time, and none before the pipeline has ended. *)

OneAtATime == ~ActDuringRun /\ \A g, h \in Handlers : g = h

\* Nobody has saved behind the request: its copy is the stored case, until an
\* envelope is out that the stored case does not tell of yet.
RequestIsCurrent(r) ==
    r.op # "none" =>
        /\ run.at \in Over
        /\ ~r.sent => r.copy = stored
        /\ r.sent =>
             /\ Sendable(r.copy)
             /\ outbox[r.op] > 0
             /\ \/ r.op = "confirm" /\ stored.status = "awaiting_confirmation"
                \/ r.op = "escalate" /\ stored.status \in {"filed", "acknowledged"}

\* Nobody has saved behind the pipeline either, nor sent anything.
PipelineIsCurrent ==
    run.at \in Working =>
        /\ outbox["confirm"] = 0
        /\ IF run.at = "complete" THEN stored = run.case
           ELSE stored.status = "draft" /\ stored.stage \notin {"complete", "halted"}

SerialInv ==
    /\ run.at = "none" <=> stored = None
    /\ stored = None => outbox["confirm"] = 0
    /\ \A h \in Handlers : RequestIsCurrent(req[h])
    /\ PipelineIsCurrent
    /\ SentIsOnRecord
=============================================================================
