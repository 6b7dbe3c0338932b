----------------------------- MODULE CaseRecord -----------------------------
(***************************************************************************)
(* The case document and the pure functions that move it: the record of    *)
(* schemas.Case, the transitions of lifecycle.py and filing.py and the     *)
(* clocks that decide when a transition is due.  Nothing here is shared    *)
(* state; CaseService puts the record in a store and lets threads race     *)
(* over it.                                                                *)
(*                                                                         *)
(* Data is kept only where a guard or a property reads it.  What the       *)
(* stages produce is the set `held` of artefacts attached to the case; the *)
(* jurisdiction keeps the response window and the country, because the     *)
(* escalation and RTI clocks read them.  Time is counted in days.          *)
(***************************************************************************)
EXTENDS Integers

CONSTANTS
    MaxDay,         \* the last day of the modelled calendar
    Authorities,    \* what the authority table can resolve a report to
    Reports,        \* what citizens submit
    None            \* an absent value: Python's None

ASSUME MaxDayAssumption == MaxDay \in Nat

\* Of an authority, its response window and whether it is in India, the one
\* country the RTI stage drafts for.
ASSUME AuthoritiesAssumption ==
    Authorities \subseteq [response_window_days : Nat, country : {"IN", "elsewhere"}]

\* Of a report, whether it has a voice note, and whether it has anything besides
\* (a photograph or a written note).
ASSUME ReportsAssumption ==
    Reports \subseteq [voice : BOOLEAN, something_else : BOOLEAN]

Day == 0 .. MaxDay

Status == {"draft", "awaiting_confirmation", "filed", "acknowledged",
           "escalated", "resolved", "withdrawn", "rejected", "failed"}

TerminalStatuses == {"resolved", "withdrawn", "rejected", "failed"}

\* Faulty: a case whose complaint is being drafted is taken to be at its end.
IsFinished_Drafting(case) ==
    case.stage \in {"drafting", "complete", "halted"} \/ case.status \in TerminalStatuses

\* isFinished: the page asks for the case again and again until this.
IsFinished(case) ==
    case.stage \in {"complete", "halted"} \/ case.status \in TerminalStatuses

Stage == {"received", "evidence", "corroboration", "jurisdiction",
          "drafting", "complete", "halted"}

Artefact == {"voice", "evidence", "corroboration", "complaint", "rti"}

\* A citizen may date an authority's answer as they like: `acknowledged_at` is
\* any day of the integers, before the filing or in the future included.
Case == [report : Reports,
         status : Status,
         stage : Stage,
         held : SUBSET Artefact,
         jurisdiction : Authorities \cup {None},
         filed_at : Day \cup {None},
         acknowledged_at : Int \cup {None},
         escalated_at : Day \cup {None},
         resolved_at : Day \cup {None},
         withdrawn_at : Day \cup {None}]

ASSUME NoneAssumption ==
    /\ None \notin Int
    /\ None \notin Authorities
    /\ None \notin Case

NewCase(report) ==
    [report |-> report, status |-> "draft", stage |-> "received",
     held |-> {}, jurisdiction |-> None, filed_at |-> None,
     acknowledged_at |-> None, escalated_at |-> None,
     resolved_at |-> None, withdrawn_at |-> None]

-----------------------------------------------------------------------------
(* filing.py: the two envelopes and the clocks. *)

\* Both envelopes need a drafted complaint and somebody to send it to.
Sendable(c) == "complaint" \in c.held /\ c.jurisdiction # None

FileComplaint(c, today) == [c EXCEPT !.status = "filed", !.filed_at = today]

Escalate(c, today) == [c EXCEPT !.status = "escalated", !.escalated_at = today]

\* Faulty: an escalated case has a clock too, as if there were a third tier.
ClockStart_ThirdTier(c) ==
    CASE c.status = "filed"        -> c.filed_at
      [] c.status = "acknowledged" -> c.acknowledged_at
      [] c.status = "escalated"    -> c.escalated_at
      [] OTHER                     -> None

\* The day the escalation clock of a case runs from, None when none runs.
ClockStart(c) ==
    CASE c.status = "filed"        -> c.filed_at
      [] c.status = "acknowledged" -> c.acknowledged_at
      [] OTHER                     -> None

\* Faulty: due on the last day of the window.
EscalationDue_DayEarly(c, today) ==
    /\ c.jurisdiction # None
    /\ ClockStart(c) # None
    /\ today + 1 >= ClockStart(c) + c.jurisdiction.response_window_days

EscalationDue(c, today) ==
    /\ c.jurisdiction # None
    /\ ClockStart(c) # None
    /\ today >= ClockStart(c) + c.jurisdiction.response_window_days

RtiFrom == {"filed", "acknowledged", "escalated"}

\* Faulty: the RTI clock is the escalation clock, which an answer restarts.
RtiAvailable_SharedClock(c, today) ==
    /\ c.status \in RtiFrom
    /\ Sendable(c)
    /\ c.filed_at # None
    /\ c.jurisdiction.country = "IN"
    /\ c.status = "escalated" \/ EscalationDue(c, today)

RtiAvailable(c, today) ==
    /\ c.status \in RtiFrom
    /\ Sendable(c)
    /\ c.filed_at # None
    /\ c.jurisdiction.country = "IN"
    /\ today >= c.filed_at + c.jurisdiction.response_window_days

DraftRti(c) == [c EXCEPT !.held = @ \cup {"rti"}]

-----------------------------------------------------------------------------
(* lifecycle.py: what came back, and taking the complaint back. *)

AcknowledgeFrom == {"filed", "escalated"}
\* Faulty: a complaint nobody confirmed can be closed as resolved.
ResolveFrom_Unfiled == {"awaiting_confirmation", "filed", "escalated", "acknowledged"}
ResolveFrom == {"filed", "escalated", "acknowledged"}
WithdrawFrom == Status \ TerminalStatuses

Acknowledge(c, on) == [c EXCEPT !.status = "acknowledged", !.acknowledged_at = on]

Resolve(c, today) == [c EXCEPT !.status = "resolved", !.resolved_at = today]

\* Faulty: the complaint is dropped with the case.
Withdraw_Erasing(c, today) ==
    [c EXCEPT !.status = "withdrawn", !.withdrawn_at = today, !.held = @ \ {"complaint"}]

Withdraw(c, today) == [c EXCEPT !.status = "withdrawn", !.withdrawn_at = today]

-----------------------------------------------------------------------------
(* register.py: the public register shows what a person confirmed. *)

PublicStatuses == {"filed", "acknowledged", "escalated", "resolved"}

IsPublic(c) == c.status \in PublicStatuses
=============================================================================
