--------------------------- MODULE IntakeService ---------------------------
(***************************************************************************)
(* POST /reports up to the stored case: the budget, the reading of a voice *)
(* note and of the photographs, and the files and the case left behind.    *)
(* Every report is handled on the event loop and gives way to others only  *)
(* where it awaits an upload, so its budget check is one step here (for    *)
(* the threads that are not on the loop see LimiterService).  The process  *)
(* may end between any two writes.                                         *)
(***************************************************************************)
EXTENDS RateLimiter

CONSTANTS
    Reports,        \* the requests
    Uploads,        \* what one may carry
    MaxPhotos,      \* vayudoot_max_images_per_report
    MaxTime

ASSUME UploadsAssumption ==
    Uploads \subseteq [photos : Seq({"good", "bad"}), voice : {"none", "good", "bad"}]
ASSUME BoundsAssumption == MaxPhotos \in Nat /\ MaxTime \in Nat

VARIABLES
    limiter,    \* the process's one RateLimiter
    task,       \* each report: where it is, what it carries, its next photograph
    files,      \* the uploads directory: <<report, i>> its i-th photograph, 0 its voice
    cases,      \* the reports whose case is stored
    granted,    \* the requests this process has let through, in order
    now

vars == <<limiter, task, files, cases, granted, now>>

\* Where a report has let go of the loop, and where it keeps it to the end.
Waiting == {"voice", "photos"}
Holding == {"note", "save"}
Uploading == Waiting \cup Holding
Answered == {"accepted", "refused", "limited"}

Task == [at : {"idle", "lost"} \cup Uploading \cup Answered,
         upload : Uploads \cup {None}, photo : Nat]

Idle == [at |-> "idle", upload |-> None, photo |-> 0]

TypeOK ==
    /\ limiter \in Limiter
    /\ task \in [Reports -> Task]
    /\ \A p \in Reports : task[p].at \in Uploading \cup {"accepted"} => task[p].upload \in Uploads
    /\ files \subseteq Reports \X Nat
    /\ cases \subseteq Reports
    /\ granted \in Seq([client : Clients, at : 0 .. MaxTime])
    /\ now \in 0 .. MaxTime

Init ==
    /\ limiter = Fresh
    /\ task = [p \in Reports |-> Idle]
    /\ files = {} /\ cases = {}
    /\ granted = <<>>
    /\ now = 0

\* The report is at this stage, and no other report holds the loop.
At(p, stage) ==
    /\ task[p].at = stage
    /\ \A q \in Reports \ {p} : task[q].at \notin Holding

Goto(p, stage) == task' = [task EXCEPT ![p].at = stage]

-----------------------------------------------------------------------------
\* Faulty: the photographs are stored before the voice note is looked at.
FirstUpload_Photos == "photos"

FirstUpload == "voice"

\* refuse_an_oversized_body: a body that says it is too large is turned away
\* before the handler, and costs nobody a report.
TurnAway(p) ==
    /\ At(p, "idle")
    /\ Goto(p, "refused")
    /\ UNCHANGED <<limiter, files, cases, granted, now>>

\* The report arrives and its budget is checked, before anything else: it is
\* refused for the day, or for its client, or it is counted and goes on.
Arrive(p) ==
    /\ At(p, "idle")
    /\ \E c \in Clients, upload \in Uploads :
         LET rolled == RollDay(limiter, now)
             taken == Taken(rolled, c, now)
         IN \/ /\ DayExhausted(rolled)
               /\ limiter' = rolled
               /\ Goto(p, "limited")
               /\ UNCHANGED granted
            \/ /\ ~DayExhausted(rolled) /\ ClientExhausted(taken, c)
               /\ limiter' = taken
               /\ Goto(p, "limited")
               /\ UNCHANGED granted
            \/ /\ ~DayExhausted(rolled) /\ ~ClientExhausted(taken, c)
               /\ limiter' = Counted(Appended(taken, c, now))
               /\ granted' = Append(granted, [client |-> c, at |-> now])
               /\ task' = [task EXCEPT ![p] = [at |-> FirstUpload, upload |-> upload,
                                               photo |-> 0]]
    /\ UNCHANGED <<files, cases, now>>

-----------------------------------------------------------------------------
(* The uploads of a report that was let through. *)

\* Faulty: a voice note that cannot be read is never answered.
ReadVoice_Stuck(p) ==
    /\ At(p, "voice")
    /\ task[p].upload.voice # "bad"
    /\ Goto(p, "photos")
    /\ UNCHANGED <<limiter, files, cases, granted, now>>

\* _read_voice_note: too large, unreadable or too long is an answer at once.
ReadVoice(p) ==
    /\ At(p, "voice")
    /\ IF task[p].upload.voice = "bad" THEN Goto(p, "refused") ELSE Goto(p, "photos")
    /\ UNCHANGED <<limiter, files, cases, granted, now>>

\* Faulty: a photograph that cannot be read is passed over.
ReadPhoto_Skipping(p) ==
    /\ At(p, "photos")
    /\ LET photos == task[p].upload.photos
           i == task[p].photo + 1
       IN IF i > Len(photos)
          THEN Goto(p, "note") /\ UNCHANGED files
          ELSE /\ files' = IF photos[i] = "good" THEN files \cup {<<p, i>>} ELSE files
               /\ task' = [task EXCEPT ![p].photo = i]
    /\ UNCHANGED <<limiter, cases, granted, now>>

\* _store_photographs: too many are refused before the first; each is then
\* read, checked and written before the next is looked at.
ReadPhoto(p) ==
    /\ At(p, "photos")
    /\ LET photos == task[p].upload.photos
           i == task[p].photo + 1
       IN \/ /\ Len(photos) <= MaxPhotos /\ i > Len(photos)
             /\ Goto(p, "note")
             /\ UNCHANGED files
          \/ /\ Len(photos) <= MaxPhotos /\ i <= Len(photos) /\ photos[i] = "good"
             /\ files' = files \cup {<<p, i>>}
             /\ task' = [task EXCEPT ![p].photo = i]
          \/ /\ Len(photos) > MaxPhotos \/ (i <= Len(photos) /\ photos[i] = "bad")
             /\ Goto(p, "refused")
             /\ UNCHANGED files
    /\ UNCHANGED <<limiter, cases, granted, now>>

StoreVoice(p) ==
    /\ At(p, "note")
    /\ files' = IF task[p].upload.voice = "good" THEN files \cup {<<p, 0>>} ELSE files
    /\ Goto(p, "save")
    /\ UNCHANGED <<limiter, cases, granted, now>>

\* The case is saved, its pipeline spawned (see CaseService) and the id answered.
SaveCase(p) ==
    /\ At(p, "save")
    /\ cases' = cases \cup {p}
    /\ Goto(p, "accepted")
    /\ UNCHANGED <<limiter, files, granted, now>>

-----------------------------------------------------------------------------
\* The process is started again: its counters and its requests are gone.
Restart ==
    /\ limiter' = Fresh
    /\ task' = [p \in Reports |-> IF task[p].at \in Uploading
                                  THEN [task[p] EXCEPT !.at = "lost"] ELSE task[p]]
    /\ granted' = <<>>
    /\ UNCHANGED <<files, cases, now>>

Tick ==
    /\ now < MaxTime
    /\ now' = now + 1
    /\ UNCHANGED <<limiter, task, files, cases, granted>>

\* submit_report, once it has let the report through.
Step(p) == ReadVoice(p) \/ ReadPhoto(p) \/ StoreVoice(p) \/ SaveCase(p)

Next ==
    \/ \E p \in Reports : TurnAway(p) \/ Arrive(p) \/ Step(p)
    \/ Restart
    \/ Tick

\* A report that was let through is read when the loop is free; nobody owes the
\* server a report, a restart or a tick.
Fairness == \A p \in Reports : WF_vars(Step(p))

Spec == Init /\ [][Next]_vars /\ Fairness

-----------------------------------------------------------------------------
(* Properties. *)

\* "Reports the instance may accept in one UTC day", and what one client may
\* submit inside any window, wherever in it the day ends.
BudgetsHold ==
    \A i \in DOMAIN granted :
        /\ Cardinality({j \in DOMAIN granted : DayOf(granted[j].at) = DayOf(granted[i].at)})
             <= ReportsPerDay
        /\ Cardinality({j \in 1 .. i : /\ granted[j].client = granted[i].client
                                       /\ granted[i].at - granted[j].at < Window})
             <= ReportsPerClient

IntakeInv == TypeOK /\ BudgetsHold

\* A stored case finds every file its report came with, whatever crashed or was
\* refused on the way.
CaseHasItsFiles ==
    \A p \in cases :
        /\ \A i \in DOMAIN task[p].upload.photos : <<p, i>> \in files
        /\ task[p].upload.voice # "none" => <<p, 0>> \in files

\* _read_voice_note: "a refused voice note does not leave photographs on disk
\* for a case that was never created".
RefusedVoiceLeavesNothing ==
    \A f \in files : task[f[1]].upload.voice # "bad"

\* What is on disk is a case's own, or what a refusal after the voice note left.
UploadsAccountedFor == CaseHasItsFiles /\ RefusedVoiceLeavesNothing

\* Every request is answered, or lost with its process: the loop is never held
\* for good, and no upload falls through the checks.
EveryRequestIsAnswered ==
    \A p \in Reports : task[p].at \in Uploading ~> task[p].at \in Answered \cup {"lost"}
=============================================================================
