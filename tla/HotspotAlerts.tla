--------------------------- MODULE HotspotAlerts ---------------------------
(***************************************************************************)
(* One hotspot, the alerts drafted for it and the readings of its          *)
(* satellite image.  A hotspot is derived on every request, so it changes, *)
(* loses its corroboration or disappears between any two steps.  Drafting  *)
(* and reading run on the event loop and let go of it only while they wait *)
(* for a model; confirming runs on a thread, beside everything else.  The  *)
(* process may end between any two writes.                                 *)
(***************************************************************************)
EXTENDS Naturals

CONSTANTS
    AlertIds,       \* bounds how many alerts are drafted
    Handlers,       \* requests that can be in flight at the same time
    Sightings,      \* what detection may find the hotspot to be
    Corroborated,   \* those an independent instrument supports
    Dates,          \* the days of a satellite pass
    Pictures,       \* composites of a day, which is filled in as it goes on
    Redrafts,       \* do requests ask for a new draft?
    LiveSettings,   \* values a start of the server may find live filing set to
    None

ASSUME AlertAssumption ==
    /\ Corroborated \subseteq Sightings
    /\ None \notin Sightings \cup Pictures
    /\ Dates \subseteq Nat
    /\ Redrafts \subseteq BOOLEAN /\ LiveSettings \subseteq BOOLEAN

Reading == [date : Dates, picture : Pictures]
Facts == [hotspot : Sightings, imagery : Reading \cup {None}]
Alert == [status : {"awaiting_confirmation", "sent"}, facts : Facts]

ASSUME NoneAssumption == None \notin Facts \cup Alert

VARIABLES
    hotspot,    \* what detection would find now, None if nothing
    alerts,     \* the store: an alert for each id given out
    outbox,     \* the facts in the envelope written for each id
    imagery,    \* the cache: for each date a picture, and what a reading was made from
    task,       \* each request, with what it holds
    live        \* the live-filing switch this process was started with

vars == <<hotspot, alerts, outbox, imagery, task, live>>

Idle == [at |-> "idle"]
Drafting == [at : {"drafting"}, facts : Facts]
Confirming == [at : {"send", "save"}, id : AlertIds, copy : Alert]
BeingRead == [at : {"reading", "keeping"}, date : Dates, picture : Pictures]

TypeOK ==
    /\ hotspot \in Sightings \cup {None}
    /\ alerts \in [AlertIds -> Alert \cup {None}]
    /\ outbox \in [AlertIds -> Facts \cup {None}]
    /\ imagery \in [Dates -> [image : Pictures \cup {None}, reading : Pictures \cup {None}]]
    /\ task \in [Handlers -> {Idle} \cup Drafting \cup Confirming \cup BeingRead]
    /\ live \in BOOLEAN

Init ==
    /\ hotspot = None
    /\ alerts = [a \in AlertIds |-> None]
    /\ outbox = [a \in AlertIds |-> None]
    /\ imagery = [d \in Dates |-> [image |-> None, reading |-> None]]
    /\ task = [h \in Handlers |-> Idle]
    /\ live \in LiveSettings

\* Nothing awaits between the two files of a reading, so nothing else runs on
\* the loop until both are written.
LoopIsFree == \A h \in Handlers : task[h].at # "keeping"

Finish(h) == task' = [task EXCEPT ![h] = Idle]

-----------------------------------------------------------------------------
(* The imagery cache, and reading a picture. *)

\* load_imagery: a reading counts only beside its picture.
Cached(d) == imagery[d].image # None /\ imagery[d].reading # None

\* latest_imagery: the newest date that has both.
IsNewest(r) ==
    /\ Cached(r.date) /\ r.picture = imagery[r.date].reading
    /\ \A d \in Dates : Cached(d) => d <= r.date

Latest == IF \E r \in Reading : IsNewest(r) THEN CHOOSE r \in Reading : IsNewest(r) ELSE None

\* Faulty: what was just fetched replaces the picture, read again or not.
AskForReading_Refreshed(h) ==
    /\ task[h] = Idle /\ hotspot # None /\ LoopIsFree
    /\ \E d \in Dates, p \in Pictures, reread \in BOOLEAN :
         IF reread \/ ~Cached(d)
         THEN /\ task' = [task EXCEPT ![h] = [at |-> "reading", date |-> d, picture |-> p]]
              /\ UNCHANGED imagery
         ELSE imagery' = [imagery EXCEPT ![d].image = p] /\ UNCHANGED task
    /\ UNCHANGED <<hotspot, alerts, outbox, live>>

\* read_imagery: a picture is fetched, and the model asked about it unless the
\* date has a reading and no other was asked for.
AskForReading(h) ==
    /\ task[h] = Idle /\ hotspot # None /\ LoopIsFree
    /\ \E d \in Dates, p \in Pictures, reread \in BOOLEAN :
         /\ reread \/ ~Cached(d)
         /\ task' = [task EXCEPT ![h] = [at |-> "reading", date |-> d, picture |-> p]]
    /\ UNCHANGED <<hotspot, alerts, outbox, imagery, live>>

\* The model has answered.  save_imagery: the picture first ...
SaveImage(h) ==
    /\ task[h].at = "reading" /\ LoopIsFree
    /\ imagery' = [imagery EXCEPT ![task[h].date].image = task[h].picture]
    /\ task' = [task EXCEPT ![h].at = "keeping"]
    /\ UNCHANGED <<hotspot, alerts, outbox, live>>

\* ... and then what the model made of it.
SaveReading(h) ==
    /\ task[h].at = "keeping"
    /\ imagery' = [imagery EXCEPT ![task[h].date].reading = task[h].picture]
    /\ Finish(h)
    /\ UNCHANGED <<hotspot, alerts, outbox, live>>

-----------------------------------------------------------------------------
(* Drafting an alert and confirming it. *)

Pending(a) == alerts[a] # None /\ alerts[a].status = "awaiting_confirmation"

\* draft_hotspot_alert up to the model: a pending alert is the answer unless a
\* new one was asked for; a hotspot only the public reported is refused, and
\* its place may be.  The facts are those of this moment.
AskForAlert(h) ==
    /\ task[h] = Idle /\ LoopIsFree
    /\ \E redraft \in Redrafts : redraft \/ \A a \in AlertIds : ~Pending(a)
    /\ hotspot \in Corroborated
    /\ task' = [task EXCEPT ![h] = [at |-> "drafting",
                                    facts |-> [hotspot |-> hotspot, imagery |-> Latest]]]
    /\ UNCHANGED <<hotspot, alerts, outbox, imagery, live>>

\* Faulty: the facts are taken once the model has answered.
Stated_Now(h) == [hotspot |-> IF hotspot = None THEN task[h].facts.hotspot ELSE hotspot,
                  imagery |-> Latest]

\* What the alert says of the hotspot.
Stated(h) == task[h].facts

\* The model has answered: the alert is stored under an id of its own.
SaveAlert(h) ==
    /\ task[h].at = "drafting" /\ LoopIsFree
    /\ \E a \in AlertIds :
         /\ alerts[a] = None
         /\ alerts' = [alerts EXCEPT ![a] = [status |-> "awaiting_confirmation",
                                             facts |-> Stated(h)]]
    /\ Finish(h)
    /\ UNCHANGED <<hotspot, outbox, imagery, live>>

\* No model answered, or an error was raised: nothing is left behind.
ModelFails(h) ==
    /\ task[h].at \in {"drafting", "reading"} /\ LoopIsFree
    /\ Finish(h)
    /\ UNCHANGED <<hotspot, alerts, outbox, imagery, live>>

\* confirm_alert loads the alert and looks at its status.
Confirm(h) ==
    /\ task[h] = Idle
    /\ \E a \in AlertIds :
         /\ Pending(a)
         /\ task' = [task EXCEPT ![h] = [at |-> "send", id |-> a, copy |-> alerts[a]]]
    /\ UNCHANGED <<hotspot, alerts, outbox, imagery, live>>

\* Faulty: the body is rendered with the imagery of the moment of sending.
Rendered_Now(h) == [task[h].copy.facts EXCEPT !.imagery = Latest]

\* render_body quotes the facts the alert was drafted with.
Rendered(h) == task[h].copy.facts

\* file_alert: the guard on live filing, the envelope, then the copy's status.
Send(h) ==
    /\ task[h].at = "send"
    /\ IF live
       THEN Finish(h) /\ UNCHANGED outbox
       ELSE /\ outbox' = [outbox EXCEPT ![task[h].id] = Rendered(h)]
            /\ task' = [task EXCEPT ![h].at = "save", ![h].copy.status = "sent"]
    /\ UNCHANGED <<hotspot, alerts, imagery, live>>

SaveSent(h) ==
    /\ task[h].at = "save"
    /\ alerts' = [alerts EXCEPT ![task[h].id] = task[h].copy]
    /\ Finish(h)
    /\ UNCHANGED <<hotspot, outbox, imagery, live>>

-----------------------------------------------------------------------------
\* A signal arrives or expires: detection finds something else, or nothing.
Redetect ==
    /\ hotspot' \in (Sightings \cup {None}) \ {hotspot}
    /\ UNCHANGED <<alerts, outbox, imagery, task, live>>

\* The process ends and is started again: the files stay, the requests do not.
Restart ==
    /\ task' = [h \in Handlers |-> Idle]
    /\ live' \in LiveSettings
    /\ UNCHANGED <<hotspot, alerts, outbox, imagery>>

Next ==
    \/ \E h \in Handlers :
         \/ AskForReading(h) \/ SaveImage(h) \/ SaveReading(h)
         \/ AskForAlert(h) \/ SaveAlert(h) \/ ModelFails(h)
         \/ Confirm(h) \/ Send(h) \/ SaveSent(h)
    \/ Redetect
    \/ Restart

Spec == Init /\ [][Next]_vars

-----------------------------------------------------------------------------
(* Properties. *)

\* "The envelope an authority receives says exactly what the stored alert
\* says", and no alert is called sent without one: whoever confirmed or
\* redrafted meanwhile, and wherever the process ended.
EnvelopeMatchesAlert ==
    \A a \in AlertIds :
        /\ outbox[a] # None => alerts[a] # None /\ alerts[a].facts = outbox[a]
        /\ alerts[a] # None /\ alerts[a].status = "sent" => outbox[a] # None

\* "Only a corroborated hotspot can be alerted": what was sent, or may be, is
\* what an instrument supported when it was checked, whatever the hotspot
\* turned into while the model wrote.
OnlyCorroboratedIsAlerted ==
    \A a \in AlertIds :
        /\ alerts[a] # None => alerts[a].facts.hotspot \in Corroborated
        /\ outbox[a] # None => outbox[a].hotspot \in Corroborated

\* save_imagery: no reading is without a picture beside it, even one whose
\* process ended between the two files.
ReadingHasAPicture ==
    \A d \in Dates : imagery[d].reading # None => imagery[d].image # None

\* read_hotspot_imagery: the picture an operator is shown is the one the model
\* read.  Only a re-reading that is being saved puts another in its place.
Torn(d) == imagery[d].reading \notin {None, imagery[d].image}
BeingSaved(d) == \E h \in Handlers : task[h].at = "keeping" /\ task[h].date = d

PictureIsTheOneRead == [][\A d \in Dates : Torn(d)' => Torn(d) \/ BeingSaved(d)']_vars

-----------------------------------------------------------------------------
(* Why they hold, as an invariant every step preserves. *)

\* What a draft in progress will say was checked before the model was asked.
DraftIsCorroborated(t) == t.at = "drafting" => t.facts.hotspot \in Corroborated

\* An alert that was stored keeps its facts, so the copy of a confirmation never
\* goes stale in anything but its status; and until its envelope is written that
\* status is the one that allows it.
ConfirmationIsGood(t) ==
    t.at \in {"send", "save"} =>
        /\ alerts[t.id] # None
        /\ alerts[t.id].facts = t.copy.facts
        /\ t.at = "send" => t.copy.status = "awaiting_confirmation"
        /\ t.at = "save" => outbox[t.id] # None

\* A picture is not replaced between its two files.
KeepsItsPicture(t) == t.at = "keeping" => imagery[t.date].image = t.picture

AlertInv ==
    /\ TypeOK
    /\ EnvelopeMatchesAlert
    /\ OnlyCorroboratedIsAlerted
    /\ \A h \in Handlers : /\ DraftIsCorroborated(task[h])
                            /\ ConfirmationIsGood(task[h])
                            /\ KeepsItsPicture(task[h])
    /\ ReadingHasAPicture
=============================================================================
