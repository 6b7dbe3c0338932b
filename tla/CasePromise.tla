---------------------------- MODULE CasePromise ----------------------------
(***************************************************************************)
(* What the service promises about one case, without threads, copies or    *)
(* clocks: which status may follow which, and that an envelope leaves      *)
(* before, and only for, the status that claims it.  schemas.CaseStatus    *)
(* and the tuples of lifecycle.py and filing.py draw this graph; nothing   *)
(* in the code holds it as a whole.  CaseService is shown to implement it  *)
(* when nobody acts on a case behind another actor's back.                 *)
(***************************************************************************)

VARIABLES
    status,     \* "none" before the report, then the status of the case
    complained, \* has the complaint envelope been written?
    escalated   \* has the escalation envelope been written?

vars == <<status, complained, escalated>>

Open == {"draft", "awaiting_confirmation", "filed", "acknowledged", "escalated"}
Answerable == {"filed", "escalated"}

Init ==
    /\ status = "none"
    /\ complained = FALSE
    /\ escalated = FALSE

\* The status moves and no envelope is written.
MoveTo(s) ==
    /\ status' = s
    /\ UNCHANGED <<complained, escalated>>

Accept == status = "none" /\ MoveTo("draft")

\* The pipeline ends in a drafted complaint, a refusal or a failure.
Conclude ==
    /\ status = "draft"
    /\ \E s \in {"awaiting_confirmation", "rejected", "failed"} : MoveTo(s)

\* The drafted complaint is given up again, its last save refused; never one sent.
GiveUp ==
    /\ status = "awaiting_confirmation"
    /\ ~complained
    /\ MoveTo("failed")

\* An envelope is written first; the case says so afterwards.
Complain ==
    /\ status = "awaiting_confirmation"
    /\ complained' = TRUE
    /\ UNCHANGED <<status, escalated>>

RecordFiled ==
    /\ status = "awaiting_confirmation"
    /\ complained
    /\ MoveTo("filed")

GoOver ==
    /\ status \in {"filed", "acknowledged"}
    /\ escalated' = TRUE
    /\ UNCHANGED <<status, complained>>

RecordEscalated ==
    /\ status \in {"filed", "acknowledged"}
    /\ escalated
    /\ MoveTo("escalated")

Answer == status \in Answerable /\ MoveTo("acknowledged")

Close == status \in Answerable \cup {"acknowledged"} /\ MoveTo("resolved")

TakeBack == status \in Open /\ MoveTo("withdrawn")

Next ==
    \/ Accept \/ Conclude \/ GiveUp \/ Complain \/ RecordFiled \/ GoOver
    \/ RecordEscalated \/ Answer \/ Close \/ TakeBack

Spec == Init /\ [][Next]_vars
=============================================================================
