--------------------------- MODULE CaseProperties ---------------------------
(***************************************************************************)
(* What must be true of one case.  The first group holds however requests, *)
(* pipeline and crashes interleave; the second needs what a run's          *)
(* constants say of the environment (one request at a time, and none while *)
(* the pipeline works); the third is what the repository says and the code *)
(* does not keep.                                                          *)
(***************************************************************************)
EXTENDS CaseService

\* Every copy of the case there is: the stored one, the pipeline's, the requests'.
Copies == ({stored, run.case} \cup {req[h].copy : h \in Handlers}) \ {None}

-----------------------------------------------------------------------------
(* Whatever the interleaving. *)

\* Which fields a status vouches for, and which dates may stand beside which.
Coherent(c) ==
    /\ c.status \in {"awaiting_confirmation"} \cup PublicStatuses =>
         /\ {"evidence", "corroboration", "complaint"} \subseteq c.held
         /\ c.jurisdiction # None
         /\ c.stage = "complete"
    /\ c.status \in PublicStatuses => c.filed_at # None
    /\ c.status \in {"draft", "awaiting_confirmation", "rejected", "failed"} =>
         c.filed_at = None
    /\ c.status = "acknowledged" => c.acknowledged_at # None
    /\ c.status = "escalated" => c.escalated_at # None
    /\ c.acknowledged_at # None => c.filed_at # None
    /\ c.escalated_at # None => c.filed_at # None /\ c.filed_at <= c.escalated_at
    /\ c.resolved_at # None <=> c.status = "resolved"
    /\ c.withdrawn_at # None <=> c.status = "withdrawn"

\* No interleaving of whole-document writes ever leaves a torn case behind: each
\* copy is one a single actor could have produced, with the drafted complaint,
\* the authority and the dates its status vouches for.  (store.save always
\* writes the whole model; a handler that merged fields would break this.)
RecordCoherent == \A c \in Copies : Coherent(c)

\* The human gate: a case says it was filed, or escalated, only if that envelope
\* is in the outbox, and the public register only ever shows such a case --
\* even after a crash between the envelope and the save, and in stale copies.
EnvelopeBacked ==
    /\ \A c \in Copies :
         /\ c.filed_at # None => outbox["confirm"] > 0
         /\ c.escalated_at # None => outbox["escalate"] > 0
         /\ IsPublic(c) => outbox["confirm"] > 0
    /\ outbox["escalate"] > 0 => outbox["confirm"] > 0

\* An escalation envelope is written only when a whole response window has
\* passed since the filing, or since the answer the copy records, although the
\* clock was read when the request loaded the case and not when it wrote.
EscalationNeverEarly ==
    [][\A h \in Handlers :
         (req[h].op = "escalate" /\ ~req[h].sent /\ req'[h].sent) =>
            LET c == req[h].copy
            IN today >= (IF c.status = "acknowledged" THEN c.acknowledged_at
                                                      ELSE c.filed_at)
                        + c.jurisdiction.response_window_days]_vars

\* A stored RTI application is for a complaint under Indian law that had gone a
\* whole window since its filing, whatever an acknowledgement did to the other
\* clock and however long the model took to write it.
RtiNeverEarly ==
    stored # None /\ "rti" \in stored.held =>
        /\ stored.filed_at # None
        /\ stored.jurisdiction.country = "IN"
        /\ today >= stored.filed_at + stored.jurisdiction.response_window_days

\* "A failed run must leave a readable case": a report leaves draft for good,
\* by a draft complaint, a refusal, a failure or a withdrawal, whatever stage
\* fails and whichever save of a stage is refused.  Only a run that is
\* gone, with its process or because a save outside the stages was refused (its
\* first, or the one that was to park it), leaves a draft nothing concludes.
ReportIsConcluded ==
    <>[](stored = None \/ stored.status # "draft" \/ run.at = "gone")

-----------------------------------------------------------------------------
(* When one request at a time acts on a case its pipeline has finished with. *)

\* An envelope is written only while the *stored* case still calls for it: it
\* awaits confirmation, or its escalation is due.  In particular a complaint is
\* written again only if a crash kept the case from saying that it was filed.
EnvelopeMatchesRecord ==
    [][\A h \in Handlers :
         ~req[h].sent /\ req'[h].sent =>
            IF req[h].op = "confirm" THEN stored.status = "awaiting_confirmation"
            ELSE stored.status \in {"filed", "acknowledged"} /\ stored = req[h].copy]_vars

\* The page polls a case until it reads one that is finished, and then never again:
\* what it shows from then on is what the pipeline leaves, and only a request, which
\* answers with the case it saved, changes that -- or the pipeline's second save of
\* the drafted case, when the store refuses it and the case is parked after all.
PageSeesTheRun ==
    [][stored # None /\ IsFinished(stored) /\ stored' # stored =>
         \/ \E h \in Handlers : req[h].op # "none" /\ req'[h].op = "none"
         \/ run.at = "complete" /\ stored' = [stored EXCEPT !.status = "failed"]]_vars

\* Once an envelope is out, the case keeps the complaint and the authority it
\* was sent to, and cannot fall back to an earlier status than the one that
\* allowed it.
SentIsOnRecord ==
    outbox["confirm"] > 0 =>
        /\ Sendable(stored)
        /\ stored.status \in {"awaiting_confirmation", "withdrawn"} \cup PublicStatuses

\* The refinement: the stored status, and which envelopes exist.
Promise == INSTANCE CasePromise
    WITH status <- IF stored = None THEN "none" ELSE stored.status,
         complained <- outbox["confirm"] > 0,
         escalated <- outbox["escalate"] > 0

\* The service keeps every promise of CasePromise: threads, copies and clocks
\* add no transition and no envelope of their own.
KeepsPromise == Promise!Spec

-----------------------------------------------------------------------------
(* What the repository says of the program, and the program does not do. *)

\* schemas.py: "Statuses nothing moves out of."  A case the citizen withdrew
\* stays withdrawn.
WithdrawalStands ==
    [][stored # None /\ stored.status = "withdrawn" => stored'.status = "withdrawn"]_vars
=============================================================================
