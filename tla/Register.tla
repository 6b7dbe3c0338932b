------------------------------ MODULE Register ------------------------------
(***************************************************************************)
(* register.py, and the words it keeps back.  What a citizen types with a  *)
(* report, says in a voice note and notes about an answer goes through     *)
(* agents that may repeat whatever they are shown, and the register        *)
(* publishes some of what the agents write.                                *)
(*                                                                         *)
(* A document is a relation between its fields and the private matters     *)
(* each may hold.  An agent is taken at its worst: every field it writes   *)
(* repeats all that its prompt contained.                                  *)
(***************************************************************************)
EXTENDS CaseService

\* The reporter's contact letter for letter, a name said in a voice note that its hearing listed,
\* and what a person notes of the authority's answer.
Private == {"contact", "spoken name", "answer"}

\* "Call me on ...": what a note, a recording and a note on an answer may hold.
Note == {"contact"}
Recording == {"contact", "spoken name"}
LifecycleNote == {"contact", "answer"}

\* The private matters that some of the fields of a document may hold.
Held(document, fields) == {t[2] : t \in {u \in document : u[1] \in fields}}

-----------------------------------------------------------------------------
(* What the agents write, each from what it is shown. *)

VoiceFields == {"voice.language", "voice.transcript", "voice.translation_en",
                "voice.what_is_described", "voice.time_pattern", "voice.duration",
                "voice.smells", "voice.health_effects"}

\* VoiceHearing
Hearing == VoiceFields \X Recording

\* redact: each listed name is removed from every field, and the list dropped.
Redact(hearing) == {t \in hearing : t[2] # "spoken name"}

Voice(c) == IF "voice" \in c.held THEN Redact(Hearing) ELSE {}

\* spoken_account_block: all of the account but the transcript.
SpokenAccount(c) == Held(Voice(c), VoiceFields \ {"voice.transcript"})

EvidenceFields == {"evidence.visible_indicators", "evidence.landmarks", "evidence.reasoning"}

\* analyse_evidence
Evidence(c) ==
    IF "evidence" \in c.held THEN EvidenceFields \X (Note \cup SpokenAccount(c)) ELSE {}

Indicators(c) == Held(Evidence(c), {"evidence.visible_indicators"})

CorroborationFields == {"corroboration.air_quality_summary", "corroboration.dominant_pollutant",
                        "corroboration.satellite_summary", "corroboration.corroboration_notes"}

\* corroborate: the indicators are all of the report that is words.
Corroboration(c) ==
    IF "corroboration" \in c.held THEN CorroborationFields \X Indicators(c) ELSE {}

ComplaintFields == {"complaint.subject", "complaint.body_en", "complaint.body_local",
                    "complaint.local_language", "complaint.cited_statutes",
                    "complaint.requested_action"}

\* draft_complaint
Complaint(c) ==
    IF "complaint" \in c.held
    THEN ComplaintFields \X (Note \cup SpokenAccount(c) \cup Indicators(c)
                             \cup Held(Corroboration(c), CorroborationFields))
    ELSE {}

\* response_note, resolution_note and withdrawal_note, each also in the log.
LifecycleNotes(c) ==
    IF {c.acknowledged_at, c.resolved_at, c.withdrawn_at} = {None}
    THEN {}
    ELSE {"response_note", "resolution_note", "withdrawal_note", "history"} \X LifecycleNote

RtiFields == {"rti.subject", "rti.preamble", "rti.questions", "rti.placeholders",
              "rti.body_local", "rti.body_en"}

\* render_rti: the form around the application, which names the applicant's contact.
RenderRti(application) == application \cup {<<"rti.body_en", "contact">>}

\* draft_rti_application
Rti(c) ==
    LET shown == Held(Complaint(c), {"complaint.subject", "complaint.requested_action"})
                 \cup Held(LifecycleNotes(c), {"response_note"})
    IN IF "rti" \in c.held THEN RenderRti(RtiFields \X shown) ELSE {}

\* Everything written in a case.
Texts(c) ==
    {<<"report.note", "contact">>, <<"report.reporter_contact", "contact">>}
    \cup Voice(c) \cup Evidence(c) \cup Corroboration(c) \cup Complaint(c)
    \cup LifecycleNotes(c) \cup Rti(c)

-----------------------------------------------------------------------------
(* What the register publishes of it. *)

\* A landmark may be the name on a signboard.
PublicEvidence == EvidenceFields \ {"evidence.landmarks"}

PublicCorroboration == CorroborationFields

PublicComplaint == ComplaintFields

\* project: the allowlist.
Project(c) ==
    {t \in Texts(c) : t[1] \in PublicEvidence \cup PublicCorroboration \cup PublicComplaint}

MinScrubbable == 4

\* Faulty: the lists are not walked.
Scrub_Strings(public, length) ==
    IF length < MinScrubbable THEN public
    ELSE {t \in public : \/ t[1] \in {"evidence.visible_indicators", "complaint.cited_statutes"}
                         \/ t[2] # "contact"}

\* _scrub: the contact is taken out of every string, however deep, unless it is
\* so short that it would be found inside ordinary words.
Scrub(public, length) ==
    IF length < MinScrubbable THEN public ELSE {t \in public : t[2] # "contact"}

\* public_case, for a contact of some length: one that exists but is not
\* publishable is answered as one that does not exist.
PublicCase(c, length) ==
    IF c = None THEN None
    ELSE IF ~IsPublic(c) THEN None
    ELSE Scrub(Project(c), length)

-----------------------------------------------------------------------------
\* Whatever the agents repeat of what they were shown, along whichever way it
\* reached them, the register shows nobody the citizen's contact (unless it is
\* too short to look for), nor a name the voice note's hearing listed, nor what
\* was noted about the authority's answer.
RegisterKeepsPrivate ==
    \A length \in 1 .. MinScrubbable + 1 :
      PublicCase(stored, length) # None =>
        \A t \in PublicCase(stored, length) :
          t[2] \notin (IF length < MinScrubbable THEN Private \ {"contact"} ELSE Private)
=============================================================================
