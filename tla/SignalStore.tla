---------------------------- MODULE SignalStore ----------------------------
(***************************************************************************)
(* Signals in Firestore: firestore_store.Backend, a mirror in memory that  *)
(* writes whole documents through to the remote, as the threads of one     *)
(* process use it (a scan, a sensor reading, every request that derives    *)
(* the hotspots).  A document holds the signals of one day and one hash of *)
(* their ids, and is rewritten from the mirror; so the mirror must hold    *)
(* everything the document does.  The backend itself is made by the first  *)
(* call, with no lock.  A call to the remote may fail, before it is        *)
(* applied or after, and the process may end between any two.              *)
(***************************************************************************)
EXTENDS Integers

CONSTANTS
    Threads,
    Backends,       \* bounds how many are made in one process
    MaxDay,
    Shards, ShardOf,    \* SHARDS, and the hash of an id
    Signals,        \* observations: an id, a day, and what was observed
    FirstCallsRace, \* may a second call begin while the first makes the backend?
    None

Days == 1 .. MaxDay
Ids == {s.id : s \in Signals}

ASSUME DaysAssumption == MaxDay \in Nat
ASSUME SignalsAssumption ==
    /\ \A s \in Signals : s = [id |-> s.id, day |-> s.day, value |-> s.value] /\ s.day \in Days
    /\ ShardOf \in [Ids -> Shards]
ASSUME RaceAssumption == FirstCallsRace \in BOOLEAN
ASSUME NoneAssumption == None \notin Backends \cup Threads

VARIABLES
    remote,         \* the documents: what each holds
    mirror,         \* each backend: its documents, from which day, and who locks it
    current,        \* the global _backend
    keyed,          \* has _backend_key been set?
    task,           \* each thread: where it is in its call
    acknowledged    \* what the calls that returned have found or put in the store

vars == <<remote, mirror, current, keyed, task, acknowledged>>

Docs == Days \X Shards
DocOf(s) == <<s.day, ShardOf[s.id]>>

\* What store.save_signals hands over: one observation for each id.
Batches == {batch \in SUBSET Signals \ {{}} : \A s, t \in batch : s.id = t.id => s = t}

\* A mirror that has read nothing yet holds no day.
Unread == [made |-> FALSE, from |-> MaxDay + 1, shards |-> [d \in Docs |-> {}], holder |-> None]

Idle == [at |-> "idle", batch |-> {}, low |-> 0, backend |-> None]

Mirror == [made : BOOLEAN, from : 0 .. MaxDay + 1, shards : [Docs -> SUBSET Signals],
           holder : Threads \cup {None}]

Task == [at : {"idle", "creating", "published", "enter", "locked"}, batch : SUBSET Signals,
         low : 0 .. MaxDay, backend : Backends \cup {None}]

TypeOK ==
    /\ remote \in [Docs -> SUBSET Signals]
    /\ mirror \in [Backends -> Mirror]
    /\ current \in Backends \cup {None}
    /\ keyed \in BOOLEAN
    /\ task \in [Threads -> Task]
    /\ acknowledged \subseteq Signals

Init ==
    /\ remote = [d \in Docs |-> {}]
    /\ mirror = [b \in Backends |-> Unread]
    /\ current = None
    /\ keyed = FALSE
    /\ task = [t \in Threads |-> Idle]
    /\ acknowledged = {}

\* A call with no batch is a read.
Reading(t) == task[t].batch = {}

\* The first day a call needs in the mirror: the earliest of its batch, or the
\* one it asks for.
IsLow(low, batch) ==
    batch # {} => low \in {s.day : s \in batch} /\ \A s \in batch : low <= s.day

-----------------------------------------------------------------------------
(* The process's backend. *)

\* backend() is called by a save or by a read of everything since a day: there
\* is one for this account, or one has to be made.
Call(t) ==
    /\ task[t].at = "idle"
    /\ FirstCallsRace \/ \A u \in Threads : task[u].at \notin {"creating", "published"}
    /\ \E batch \in Batches \cup {{}}, low \in 0 .. MaxDay :
         /\ IsLow(low, batch)
         /\ task' = [task EXCEPT ![t] =
              IF current = None \/ ~keyed
              THEN [at |-> "creating", batch |-> batch, low |-> low, backend |-> None]
              ELSE [at |-> "enter", batch |-> batch, low |-> low, backend |-> current]]
    /\ UNCHANGED <<remote, mirror, current, keyed, acknowledged>>

\* Backend(...) is made and assigned to the global.
Create(t) ==
    /\ task[t].at = "creating"
    /\ \E b \in Backends :
         /\ ~mirror[b].made
         /\ mirror' = [mirror EXCEPT ![b].made = TRUE]
         /\ current' = b
    /\ task' = [task EXCEPT ![t].at = "published"]
    /\ UNCHANGED <<remote, keyed, acknowledged>>

\* The key is set, and the global is returned, whoever assigned it last.
Take(t) ==
    /\ task[t].at = "published"
    /\ keyed' = TRUE
    /\ task' = [task EXCEPT ![t].at = "enter", ![t].backend = current]
    /\ UNCHANGED <<remote, mirror, current, acknowledged>>

-----------------------------------------------------------------------------
(* Inside the backend's lock. *)

\* Faulty: the documents a batch touches are rewritten as the mirror has them.
Loaded_ForReadsOnly(t) ==
    LET m == mirror[task[t].backend]
    IN IF ~Reading(t) \/ task[t].low >= m.from THEN m
       ELSE [m EXCEPT !.from = task[t].low,
                      !.shards = [d \in Docs |-> IF d[1] >= task[t].low /\ d[1] < m.from
                                                 THEN remote[d] ELSE @[d]]]

\* Faulty: the mirror is filled once.
Loaded_Once(t) ==
    LET m == mirror[task[t].backend]
    IN IF m.from <= MaxDay THEN m
       ELSE [m EXCEPT !.from = task[t].low,
                      !.shards = [d \in Docs |-> IF d[1] >= task[t].low THEN remote[d] ELSE @[d]]]

\* _signals_since: the mirror with every document from a day onwards.
Loaded(t) ==
    LET m == mirror[task[t].backend]
    IN IF task[t].low >= m.from THEN m
       ELSE [m EXCEPT !.from = task[t].low,
                      !.shards = [d \in Docs |-> IF d[1] >= task[t].low /\ d[1] < m.from
                                                 THEN remote[d] ELSE @[d]]]

\* The lock is taken and the mirror filled as far back as the call needs.
Enter(t) ==
    /\ task[t].at = "enter"
    /\ mirror[task[t].backend].holder = None
    /\ mirror' = [mirror EXCEPT ![task[t].backend] = [Loaded(t) EXCEPT !.holder = t]]
    /\ task' = [task EXCEPT ![t].at = "locked"]
    /\ UNCHANGED <<remote, current, keyed, acknowledged>>

\* Of these observations, those whose id the document does not hold.
Unheld(batch, shard) == {s \in batch : \A held \in shard : held.id # s.id}

\* What a document of the batch gains, and what it then holds.
New(t, d) ==
    Unheld({s \in task[t].batch : DocOf(s) = d}, mirror[task[t].backend].shards[d])

Written(t, d) == mirror[task[t].backend].shards[d] \cup New(t, d)

\* The call ends, and the lock is released.
Leave(t) ==
    /\ mirror' = [mirror EXCEPT ![task[t].backend].holder = None]
    /\ task' = [task EXCEPT ![t] = Idle]

Mirrored(t, d) == [mirror EXCEPT ![task[t].backend].shards[d] = Written(t, d)]

\* A document that gains signals is written to the remote, then to the mirror.
Write(t) ==
    /\ task[t].at = "locked"
    /\ \E d \in Docs :
         /\ New(t, d) # {}
         /\ remote' = [remote EXCEPT ![d] = Written(t, d)]
         /\ mirror' = Mirrored(t, d)
    /\ UNCHANGED <<current, keyed, task, acknowledged>>

\* The remote raises, with the document written or not: the rest of the batch
\* is given up, and the mirror left as it was.
WriteFails(t) ==
    /\ task[t].at = "locked"
    /\ \E d \in Docs :
         /\ New(t, d) # {}
         /\ remote' \in {remote, [remote EXCEPT ![d] = Written(t, d)]}
    /\ Leave(t)
    /\ UNCHANGED <<current, keyed, acknowledged>>

\* A save has nothing left to write, and its observations are on record.
Saved(t) ==
    /\ task[t].at = "locked" /\ ~Reading(t)
    /\ \A d \in Docs : New(t, d) = {}
    /\ acknowledged' = acknowledged \cup
         UNION {{held \in mirror[task[t].backend].shards[DocOf(s)] : held.id = s.id} :
                  s \in task[t].batch}
    /\ Leave(t)
    /\ UNCHANGED <<remote, current, keyed>>

\* signal_texts: every signal of the documents since a day.
Answer(t) ==
    UNION {mirror[task[t].backend].shards[d] : d \in {e \in Docs : e[1] >= task[t].low}}

\* The read returns.
Answered(t) ==
    /\ task[t].at = "locked" /\ Reading(t)
    /\ Leave(t)
    /\ UNCHANGED <<remote, current, keyed, acknowledged>>

\* The query that fills the mirror raises.
LoadFails(t) ==
    /\ task[t].at = "enter"
    /\ mirror[task[t].backend].holder = None
    /\ task[t].low < mirror[task[t].backend].from
    /\ task' = [task EXCEPT ![t] = Idle]
    /\ UNCHANGED <<remote, mirror, current, keyed, acknowledged>>

-----------------------------------------------------------------------------
\* The process is started again, and knows nothing of what is stored.
Restart ==
    /\ mirror' = [b \in Backends |-> Unread]
    /\ current' = None
    /\ keyed' = FALSE
    /\ task' = [t \in Threads |-> Idle]
    /\ UNCHANGED <<remote, acknowledged>>

Next ==
    \/ \E t \in Threads :
         \/ Call(t) \/ Create(t) \/ Take(t) \/ Enter(t) \/ LoadFails(t)
         \/ Write(t) \/ WriteFails(t) \/ Saved(t) \/ Answered(t)
    \/ Restart

Spec == Init /\ [][Next]_vars

-----------------------------------------------------------------------------
(* Properties. *)

\* "The rewrite would drop what an earlier process stored": what a call that
\* returned has put on record, or found there, stays there as it was, whatever
\* failed, restarted or was written to the same document since.
SavedIsKept == \A s \in acknowledged : s \in remote[DocOf(s)]

\* A read sees every observation since its day that any call has put on record,
\* although the mirror was filled a range at a time.
ReadsSeeSaves ==
    \A t \in Threads :
        task[t].at = "locked" /\ Reading(t) =>
            {s \in acknowledged : s.day >= task[t].low} \subseteq Answer(t)

\* "An id already held is left exactly as it was stored": no document has two
\* observations of one id, which would count one instrument twice.
OneRecordADay ==
    \A d \in Docs : \A s, t \in remote[d] : s.id = t.id => s = t

-----------------------------------------------------------------------------
(* Why: the inductive invariant, for a process whose first call is alone. *)

LockIsHeld ==
    \A t \in Threads :
        task[t].at = "locked" => /\ task[t].backend # None
                                 /\ mirror[task[t].backend].holder = t

Making(t) == task[t].at \in {"creating", "published"}

\* One thread makes the backend, every call uses that one, and the others are
\* empty.
BackendIsAlone ==
    /\ keyed => current # None
    /\ \A t \in Threads :
         /\ task[t].at = "creating" => current = None
         /\ task[t].at = "published" => current # None /\ ~keyed
         /\ task[t].at \in {"enter", "locked"} => current # None /\ task[t].backend = current
    /\ \A t, u \in Threads : Making(t) /\ Making(u) => t = u
    /\ current # None /\ ~keyed => \E t \in Threads : task[t].at = "published"
    /\ \A b \in Backends : b # current => /\ mirror[b].from = MaxDay + 1
                                          /\ mirror[b].shards = [d \in Docs |-> {}]

\* What a call wrote down when it began, and what it may rely on past the lock.
CallIsSound ==
    \A t \in Threads :
        /\ \A s, r \in task[t].batch : s.id = r.id => s = r
        /\ \A s \in task[t].batch : task[t].low <= s.day
        /\ task[t].at = "locked" => mirror[task[t].backend].from <= task[t].low

\* A mirror has nothing the remote lacks, and, from its day on, all that was
\* acknowledged: a document may be rewritten from it.
MirrorIsSafe ==
    /\ \A b \in Backends : \A d \in Docs : mirror[b].shards[d] \subseteq remote[d]
    /\ \A b \in Backends : \A s \in acknowledged :
         mirror[b].from <= s.day => s \in mirror[b].shards[DocOf(s)]

InItsDocument == \A d \in Docs : \A s \in remote[d] : DocOf(s) = d

\* The inductive invariant of SignalProofs: what is kept, and why it is.
SignalInv ==
    /\ TypeOK
    /\ LockIsHeld
    /\ BackendIsAlone
    /\ CallIsSound
    /\ InItsDocument
    /\ MirrorIsSafe
    /\ SavedIsKept
    /\ OneRecordADay
=============================================================================
