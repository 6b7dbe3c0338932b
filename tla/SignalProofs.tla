---------------------------- MODULE SignalProofs ----------------------------
(***************************************************************************)
(* What SignalStore keeps, for every number of threads, days, shards and   *)
(* observations, when the first call of a process is alone: one inductive  *)
(* invariant.                                                              *)
(***************************************************************************)
EXTENDS SignalStore, TLAPS

-----------------------------------------------------------------------------
(* Documents. *)

\* An observation has a document.
LEMMA DocOfType == ASSUME NEW s \in Signals PROVE DocOf(s) \in Docs
  BY SignalsAssumption DEF DocOf, Docs, Ids

\* What a process starts with is of its type.
LEMMA StartTypes == Idle \in Task /\ Unread \in Mirror
<1>1. [d \in Docs |-> {}] \in [Docs -> SUBSET Signals]
  OBVIOUS
<1>2. MaxDay + 1 \in 0 .. MaxDay + 1 /\ 0 \in 0 .. MaxDay
  BY DaysAssumption
<1> QED
  BY <1>1, <1>2 DEF Idle, Unread, Task, Mirror

\* A thread whose call moves on is still a thread's call.
LEMMA TaskMoves ==
    ASSUME TypeOK, NEW t \in Threads, NEW at \in {"published", "enter", "locked"},
           NEW b \in Backends \cup {None}
    PROVE  /\ [task EXCEPT ![t].at = at] \in [Threads -> Task]
           /\ [task EXCEPT ![t].at = at, ![t].backend = b] \in [Threads -> Task]
<1>1. task \in [Threads -> Task] /\ task[t] \in Task
  BY DEF TypeOK
<1>2. [task[t] EXCEPT !.at = at] \in Task
  BY <1>1 DEF Task
<1>3. [task[t] EXCEPT !.at = at, !.backend = b] \in Task
  BY <1>1 DEF Task
<1> QED
  BY <1>1, <1>2, <1>3

\* The thread past the lock uses the only backend, whose mirror goes back as
\* far as it needs, and no other thread is past it.
LEMMA PastTheLock ==
    ASSUME SignalInv, NEW t \in Threads, task[t].at = "locked"
    PROVE  /\ task[t].backend \in Backends
           /\ task[t].backend = current
           /\ mirror[current].holder = t
           /\ mirror[current].from <= task[t].low
           /\ \A u \in Threads : task[u].at = "locked" => u = t
  BY DEF SignalInv, TypeOK, Mirror, Task, LockIsHeld, BackendIsAlone, CallIsSound

\* The mirror as a call that enters leaves it.
LEMMA LoadedFacts ==
    ASSUME SignalInv, NEW t \in Threads, task[t].at = "enter"
    PROVE  /\ current \in Backends /\ task[t].backend = current
           /\ Loaded(t) \in Mirror
           /\ Loaded(t).from <= task[t].low
           /\ \A d \in Docs : Loaded(t).shards[d] \subseteq remote[d]
           /\ \A s \in acknowledged :
                Loaded(t).from <= s.day => s \in Loaded(t).shards[DocOf(s)]
<1> DEFINE m == mirror[current]
<1>1. current \in Backends /\ task[t].backend = current
  BY DEF SignalInv, TypeOK, Mirror, Task, BackendIsAlone
<1>2. /\ m \in Mirror
      /\ task[t].low \in 0 .. MaxDay
      /\ remote \in [Docs -> SUBSET Signals]
  BY <1>1 DEF SignalInv, TypeOK, Mirror, Task
<1>3. /\ \A d \in Docs : m.shards[d] \subseteq remote[d]
      /\ \A s \in acknowledged : m.from <= s.day => s \in m.shards[DocOf(s)]
  BY <1>1 DEF SignalInv, MirrorIsSafe
<1>4. \A s \in acknowledged :
        s \in Signals /\ s.day \in Days /\ DocOf(s) \in Docs /\ DocOf(s)[1] = s.day
        /\ s \in remote[DocOf(s)]
  BY DocOfType, SignalsAssumption DEF SignalInv, TypeOK, Mirror, Task, SavedIsKept, DocOf
<1>5. \A d \in Docs : d[1] \in Days
  BY DEF Docs
<1>6. CASE task[t].low >= m.from
  BY <1>1, <1>2, <1>3, <1>6 DEF Loaded, Mirror
<1>7. CASE ~(task[t].low >= m.from)
  <2> DEFINE filled == [d \in Docs |-> IF d[1] >= task[t].low /\ d[1] < m.from
                                       THEN remote[d] ELSE m.shards[d]]
  <2>1. Loaded(t) = [m EXCEPT !.from = task[t].low, !.shards = filled]
    BY <1>1, <1>2, <1>7 DEF Loaded, Mirror
  <2>2. filled \in [Docs -> SUBSET Signals]
    BY <1>2 DEF Mirror
  <2>3. /\ Loaded(t).from = task[t].low
        /\ Loaded(t).shards = filled
        /\ Loaded(t).made = m.made
        /\ Loaded(t).holder = m.holder
    BY <1>2, <2>1
  <2>4. Loaded(t) \in Mirror
    <3>1. task[t].low \in 0 .. MaxDay + 1
      BY <1>2, DaysAssumption
    <3> HIDE DEF filled, m
    <3> QED
      BY <1>2, <2>1, <2>2, <3>1 DEF Mirror
  <2>5. \A d \in Docs : filled[d] \subseteq remote[d]
    BY <1>3
  <2>6. ASSUME NEW s \in acknowledged, task[t].low <= s.day PROVE s \in filled[DocOf(s)]
    <3>1. m.from <= s.day => s \in m.shards[DocOf(s)]
      BY <1>3
    <3>2. s.day \in Int /\ m.from \in Int
      BY <1>2, <1>4, DaysAssumption DEF Days, Mirror
    <3>3. DocOf(s) \in Docs /\ DocOf(s)[1] = s.day /\ s \in remote[DocOf(s)]
      BY <1>4
    <3> HIDE DEF m
    <3> QED
      BY <2>6, <3>1, <3>2, <3>3
  <2> QED
    BY <1>1, <1>2, <2>3, <2>4, <2>5, <2>6
<1> QED
  BY <1>6, <1>7

-----------------------------------------------------------------------------
(* One lemma for each way the store moves. *)

\* An empty process keeps everything that is stored.
LEMMA StartKeeps == Init => SignalInv
<1> SUFFICES ASSUME Init PROVE SignalInv
  OBVIOUS
<1>1. TypeOK
  BY StartTypes DEF Init, TypeOK
<1>2. LockIsHeld /\ BackendIsAlone /\ CallIsSound
  BY DEF Init, LockIsHeld, BackendIsAlone, Making, CallIsSound, Idle, Unread
<1>3. InItsDocument /\ MirrorIsSafe /\ SavedIsKept /\ OneRecordADay
  BY DEF Init, InItsDocument, MirrorIsSafe, SavedIsKept, OneRecordADay, Unread
<1> QED
  BY <1>1, <1>2, <1>3 DEF SignalInv

\* A process that starts again has an empty mirror.
LEMMA RestartKeeps == ASSUME SignalInv, Restart PROVE SignalInv'
<1>1. \A b \in Backends : mirror'[b] = Unread
  BY DEF Restart
<1>2. \A t \in Threads : task'[t] = Idle
  BY DEF Restart
<1>3. TypeOK'
  BY StartTypes DEF Restart, SignalInv, TypeOK
<1>4. \A s \in acknowledged : ~(MaxDay + 1 <= s.day) /\ DocOf(s) \in Docs
  BY DocOfType, SignalsAssumption, DaysAssumption DEF SignalInv, TypeOK, Mirror, Task, Days
<1>5. MirrorIsSafe'
  BY <1>1, <1>4 DEF Restart, MirrorIsSafe, Unread
<1>6. (LockIsHeld /\ BackendIsAlone /\ CallIsSound)'
  BY <1>1, <1>2 DEF Restart, LockIsHeld, BackendIsAlone, Making, CallIsSound, Idle, Unread
<1>7. (InItsDocument /\ SavedIsKept /\ OneRecordADay)'
  BY DEF Restart, SignalInv, InItsDocument, SavedIsKept, OneRecordADay
<1> QED
  BY <1>3, <1>5, <1>6, <1>7 DEF SignalInv

\* A call begins on the one backend, or makes it when there is none.
LEMMA CallKeeps ==
    ASSUME SignalInv, ~FirstCallsRace, NEW t \in Threads, Call(t)
    PROVE  SignalInv'
<1>1. PICK batch \in Batches \cup {{}}, low \in 0 .. MaxDay :
        /\ IsLow(low, batch)
        /\ task' = [task EXCEPT ![t] =
             IF current = None \/ ~keyed
             THEN [at |-> "creating", batch |-> batch, low |-> low, backend |-> None]
             ELSE [at |-> "enter", batch |-> batch, low |-> low, backend |-> current]]
  BY DEF Call
<1>2. \A u \in Threads : ~Making(u)
  BY DEF Call, Making
<1>3. current = None <=> ~keyed
  BY <1>2 DEF SignalInv, BackendIsAlone, Making
<1>4. /\ batch \subseteq Signals
      /\ \A s, r \in batch : s.id = r.id => s = r
      /\ \A s \in batch : low <= s.day
  BY <1>1 DEF Batches, IsLow
<1>5. /\ task'[t].batch = batch /\ task'[t].low = low
      /\ task'[t].at = IF current = None THEN "creating" ELSE "enter"
      /\ task'[t].backend = current
      /\ \A u \in Threads \ {t} : task'[u] = task[u]
  BY <1>1, <1>3 DEF SignalInv, TypeOK, Mirror, Task
<1>6. TypeOK'
  BY <1>1, <1>4 DEF Call, SignalInv, TypeOK, Mirror, Task
<1>7. LockIsHeld'
  BY <1>5 DEF Call, SignalInv, LockIsHeld
<1>8. BackendIsAlone'
  <2>1. UNCHANGED <<mirror, current, keyed>> /\ BackendIsAlone
    BY DEF Call, SignalInv
  <2>2. ASSUME NEW u \in Threads
        PROVE  /\ task'[u].at = "creating" => current = None
               /\ task'[u].at # "published"
               /\ task'[u].at \in {"enter", "locked"} =>
                    current # None /\ task'[u].backend = current
    <3>1. CASE u = t
      BY <1>5, <3>1
    <3>2. CASE u # t
      BY <1>2, <1>5, <2>1, <3>2 DEF BackendIsAlone, Making
    <3> QED
      BY <3>1, <3>2
  <2>3. \A u, v \in Threads : Making(u)' /\ Making(v)' => u = v
    BY <1>2, <1>5 DEF Making
  <2>4. /\ keyed' <=> current' # None
        /\ \A b \in Backends : b # current' => /\ mirror'[b].from = MaxDay + 1
                                              /\ mirror'[b].shards = [d \in Docs |-> {}]
    BY <1>3, <2>1 DEF BackendIsAlone
  <2> QED
    BY <2>1, <2>2, <2>3, <2>4 DEF BackendIsAlone
<1>9. CallIsSound'
  BY <1>4, <1>5 DEF Call, SignalInv, CallIsSound
<1> QED
  BY <1>6, <1>7, <1>8, <1>9
     DEF Call, SignalInv, InItsDocument, MirrorIsSafe, SavedIsKept, OneRecordADay

\* The thread that makes the backend is the only one that does.
LEMMA CreateKeeps == ASSUME SignalInv, NEW t \in Threads, Create(t) PROVE SignalInv'
<1>1. PICK b \in Backends :
        /\ mirror' = [mirror EXCEPT ![b].made = TRUE]
        /\ current' = b
  BY DEF Create
<1>2. \A c \in Backends : /\ mirror'[c].from = mirror[c].from
                          /\ mirror'[c].shards = mirror[c].shards
                          /\ mirror'[c].holder = mirror[c].holder
  BY <1>1 DEF SignalInv, TypeOK, Mirror, Task
<1>3. current = None /\ ~keyed
  BY DEF Create, SignalInv, BackendIsAlone
<1>4. task' = [task EXCEPT ![t].at = "published"]
  BY DEF Create
<1>5. /\ task'[t].at = "published" /\ task'[t].batch = task[t].batch
      /\ task'[t].low = task[t].low
      /\ \A u \in Threads \ {t} : task'[u] = task[u]
  BY <1>4 DEF SignalInv, TypeOK, Mirror, Task
<1>6. \A u \in Threads \ {t} : task[u].at = "idle"
  BY <1>3 DEF Create, SignalInv, TypeOK, Mirror, Task, BackendIsAlone, Making
<1>7. TypeOK'
  <2>1. [mirror[b] EXCEPT !.made = TRUE] \in Mirror
    BY DEF SignalInv, TypeOK, Mirror
  <2> QED
    BY <1>1, <1>4, <2>1, TaskMoves DEF Create, SignalInv, TypeOK
<1>8. BackendIsAlone'
  <2>1. current' # None /\ ~keyed'
    BY <1>1, <1>3, NoneAssumption DEF Create
  <2>2. \A u \in Threads \ {t} : task'[u].at = "idle"
    BY <1>5, <1>6
  <2>3. \A c \in Backends : /\ mirror'[c].from = MaxDay + 1
                            /\ mirror'[c].shards = [d \in Docs |-> {}]
    BY <1>2, <1>3, NoneAssumption DEF SignalInv, BackendIsAlone
  <2> QED
    BY <1>5, <2>1, <2>2, <2>3 DEF BackendIsAlone, Making
<1>9. (LockIsHeld /\ CallIsSound)'
  BY <1>5, <1>6 DEF SignalInv, LockIsHeld, CallIsSound
<1>10. MirrorIsSafe'
  BY <1>2 DEF Create, SignalInv, MirrorIsSafe
<1> QED
  BY <1>7, <1>8, <1>9, <1>10 DEF Create, SignalInv, InItsDocument, SavedIsKept, OneRecordADay

\* The backend that was made is the one that is used.
LEMMA TakeKeeps == ASSUME SignalInv, NEW t \in Threads, Take(t) PROVE SignalInv'
<1>1. task' = [task EXCEPT ![t].at = "enter", ![t].backend = current]
  BY DEF Take
<1>2. /\ task'[t].at = "enter" /\ task'[t].batch = task[t].batch
      /\ task'[t].low = task[t].low /\ task'[t].backend = current
      /\ \A u \in Threads \ {t} : task'[u] = task[u]
  BY <1>1 DEF SignalInv, TypeOK, Mirror, Task
<1>3. current # None /\ \A u \in Threads \ {t} : ~Making(u)
  BY DEF Take, SignalInv, BackendIsAlone, Making
<1>4. TypeOK'
  <2>1. current \in Backends \cup {None} /\ TypeOK
    BY DEF SignalInv, TypeOK
  <2>2. task' \in [Threads -> Task]
    BY <1>1, <2>1, TaskMoves
  <2> QED
    BY <2>1, <2>2 DEF Take, TypeOK
<1>5. BackendIsAlone'
  <2>1. /\ keyed' = TRUE /\ UNCHANGED <<mirror, current>>
        /\ BackendIsAlone
    BY DEF Take, SignalInv
  <2>2. \A u \in Threads : ~Making(u)'
    BY <1>2, <1>3 DEF Making
  <2>3. \A u \in Threads : task'[u].at \notin {"creating", "published"}
    BY <2>2 DEF Making
  <2>4. \A u \in Threads : task'[u].at \in {"enter", "locked"} => task'[u].backend = current
    BY <1>2, <2>1 DEF BackendIsAlone
  <2>5. \A b \in Backends : b # current' => /\ mirror'[b].from = MaxDay + 1
                                            /\ mirror'[b].shards = [d \in Docs |-> {}]
    BY <2>1 DEF BackendIsAlone
  <2> QED
    BY <1>3, <2>1, <2>2, <2>3, <2>4, <2>5 DEF BackendIsAlone
<1>6. (LockIsHeld /\ CallIsSound)'
  <2>1. LockIsHeld /\ CallIsSound /\ UNCHANGED mirror
    BY DEF Take, SignalInv
  <2>2. LockIsHeld'
    BY <1>2, <2>1 DEF LockIsHeld
  <2>3. CallIsSound'
    BY <1>2, <2>1 DEF CallIsSound
  <2> QED
    BY <2>2, <2>3
<1> QED
  BY <1>4, <1>5, <1>6
     DEF Take, SignalInv, InItsDocument, MirrorIsSafe, SavedIsKept, OneRecordADay

\* A call that enters fills the mirror from the remote, which has all that was
\* acknowledged.
LEMMA EnterKeeps == ASSUME SignalInv, NEW t \in Threads, Enter(t) PROVE SignalInv'
<1> DEFINE m == [Loaded(t) EXCEPT !.holder = t]
<1>1. task[t].at = "enter"
  BY DEF Enter
<1>2. /\ current \in Backends /\ task[t].backend = current
      /\ mirror' = [mirror EXCEPT ![current] = m]
      /\ task' = [task EXCEPT ![t].at = "locked"]
      /\ mirror[current].holder = None
  BY <1>1, LoadedFacts DEF Enter
<1>3. /\ m \in Mirror
      /\ m.holder = t
      /\ m.from <= task[t].low
      /\ \A d \in Docs : m.shards[d] \subseteq remote[d]
      /\ \A s \in acknowledged : m.from <= s.day => s \in m.shards[DocOf(s)]
  <2>1. Loaded(t) \in Mirror
    BY <1>1, LoadedFacts
  <2>2. /\ m \in Mirror
        /\ m.holder = t /\ m.from = Loaded(t).from /\ m.shards = Loaded(t).shards
    BY <2>1 DEF Mirror
  <2> HIDE DEF m
  <2> QED
    BY <1>1, <2>2, LoadedFacts
<1> HIDE DEF m
<1>4. /\ task'[t].at = "locked" /\ task'[t].batch = task[t].batch
      /\ task'[t].low = task[t].low /\ task'[t].backend = current
      /\ \A u \in Threads \ {t} : task'[u] = task[u]
  BY <1>2 DEF SignalInv, TypeOK, Mirror, Task
<1>5. /\ mirror'[current] = m
      /\ \A b \in Backends \ {current} : mirror'[b] = mirror[b]
  BY <1>2 DEF SignalInv, TypeOK, Mirror, Task
<1>6. \A u \in Threads : task[u].at # "locked"
  BY <1>2, NoneAssumption DEF SignalInv, LockIsHeld, BackendIsAlone
<1>7. TypeOK'
  <2>1. /\ UNCHANGED <<remote, current, keyed, acknowledged>>
        /\ TypeOK
    BY DEF Enter, SignalInv
  <2> QED
    BY <1>2, <1>3, <2>1, TaskMoves DEF TypeOK
<1>8. LockIsHeld'
  BY <1>2, <1>3, <1>4, <1>5, <1>6, NoneAssumption DEF Enter, SignalInv, LockIsHeld
<1>9. BackendIsAlone'
  <2>1. /\ UNCHANGED <<current, keyed>>
        /\ BackendIsAlone
        /\ current # None
    BY <1>2, NoneAssumption DEF Enter, SignalInv
  <2>2. \A u \in Threads : Making(u)' <=> Making(u) /\ u # t
    BY <1>1, <1>4 DEF Making
  <2>3. \A u \in Threads : (task'[u].at = "published") <=> (task[u].at = "published")
    BY <1>1, <1>4
  <2>4. \A b \in Backends : b # current => mirror'[b] = mirror[b]
    BY <1>5
  <2>5. /\ \A b \in Backends : b # current => /\ mirror'[b].from = MaxDay + 1
                                              /\ mirror'[b].shards = [d \in Docs |-> {}]
        /\ \A u, v \in Threads : Making(u)' /\ Making(v)' => u = v
        /\ ~keyed => \E u \in Threads : task'[u].at = "published"
    <3>1. \A b \in Backends : b # current => /\ mirror'[b].from = MaxDay + 1
                                             /\ mirror'[b].shards = [d \in Docs |-> {}]
      <4>1. \A b \in Backends : b # current => /\ mirror[b].from = MaxDay + 1
                                              /\ mirror[b].shards = [d \in Docs |-> {}]
        BY <2>1 DEF BackendIsAlone
      <4> QED
        BY <2>4, <4>1
    <3>2. \A u, v \in Threads : Making(u)' /\ Making(v)' => u = v
      <4>1. \A u, v \in Threads : Making(u) /\ Making(v) => u = v
        BY <2>1 DEF BackendIsAlone
      <4> QED
        BY <2>2, <4>1
    <3>3. ~keyed => \E u \in Threads : task'[u].at = "published"
      BY <2>1, <2>3 DEF BackendIsAlone
    <3> QED
      BY <3>1, <3>2, <3>3
  <2>6. \A u \in Threads :
          /\ task'[u].at = "creating" => current = None
          /\ task'[u].at = "published" => current # None /\ ~keyed
          /\ task'[u].at \in {"enter", "locked"} => current # None /\ task'[u].backend = current
    BY <1>4, <2>1 DEF BackendIsAlone
  <2> QED
    BY <2>1, <2>5, <2>6 DEF BackendIsAlone
<1>10. CallIsSound'
  <2>1. \A u \in Threads : task'[u].batch = task[u].batch /\ task'[u].low = task[u].low
    BY <1>4
  <2>2. \A u \in Threads \ {t} : task'[u].at # "locked"
    BY <1>4, <1>6
  <2>3. mirror'[task'[t].backend].from <= task'[t].low
    BY <1>3, <1>4, <1>5
  <2> QED
    BY <2>1, <2>2, <2>3 DEF SignalInv, CallIsSound
<1>11. MirrorIsSafe'
  BY <1>2, <1>3, <1>5 DEF Enter, SignalInv, MirrorIsSafe
<1> QED
  BY <1>7, <1>8, <1>9, <1>10, <1>11
     DEF Enter, SignalInv, InItsDocument, SavedIsKept, OneRecordADay

\* Writing a document from a mirror that goes back that far loses nothing.
LEMMA WrittenFacts ==
    ASSUME SignalInv, NEW t \in Threads, task[t].at = "locked",
           NEW d \in Docs, New(t, d) # {}
    PROVE  /\ Written(t, d) \in SUBSET Signals
           /\ mirror[current].shards[d] \subseteq Written(t, d)
           /\ \A s \in Written(t, d) : DocOf(s) = d
           /\ \A s, r \in Written(t, d) : s.id = r.id => s = r
           /\ \A s \in acknowledged : DocOf(s) = d => s \in Written(t, d)
<1> DEFINE shard == mirror[current].shards[d]
<1>1. current \in Backends /\ task[t].backend = current /\ mirror[current].from <= task[t].low
  BY PastTheLock
<1>2. /\ TypeOK
      /\ shard \subseteq remote[d] /\ shard \subseteq Signals
      /\ Written(t, d) = shard \cup New(t, d)
  BY <1>1 DEF SignalInv, TypeOK, Mirror, Task, MirrorIsSafe, Written
<1>3. /\ New(t, d) \subseteq task[t].batch
      /\ \A s \in New(t, d) : s \in Signals /\ DocOf(s) = d
                              /\ \A held \in shard : held.id # s.id
  <2>1. mirror[task[t].backend].shards[d] = shard
    BY <1>1
  <2>2. TypeOK
    BY DEF SignalInv
  <2>3. /\ New(t, d) \subseteq task[t].batch
        /\ \A s \in New(t, d) :
             /\ s \in Signals
             /\ DocOf(s) = d
             /\ \A held \in mirror[task[t].backend].shards[d] : held.id # s.id
    BY <2>2 DEF TypeOK, Mirror, Task, New, Unheld
  <2> HIDE DEF shard
  <2> QED
    BY <2>1, <2>3
<1>4. \A s \in shard : DocOf(s) = d
  BY <1>2 DEF SignalInv, InItsDocument
<1>5. \A s, r \in shard : s.id = r.id => s = r
  BY <1>2 DEF SignalInv, OneRecordADay
<1>6. \A s, r \in New(t, d) : s.id = r.id => s = r
  BY <1>3 DEF SignalInv, CallIsSound
<1>7. PICK n \in New(t, d) : TRUE
  OBVIOUS
<1>8. task[t].low <= d[1]
  BY <1>3, <1>7 DEF SignalInv, CallIsSound, DocOf
<1>9. ASSUME NEW s \in acknowledged, DocOf(s) = d PROVE s \in shard
  <2>1. s.day = d[1] /\ s.day \in Days
    BY <1>9, SignalsAssumption DEF SignalInv, TypeOK, Mirror, Task, DocOf
  <2>2. mirror[current].from <= s.day
    BY <1>1, <1>2, <1>8, <2>1, DaysAssumption DEF TypeOK, Mirror, Task, Days
  <2> QED
    BY <1>1, <1>9, <2>2 DEF SignalInv, MirrorIsSafe
<1> HIDE DEF shard
<1> QED
  BY <1>2, <1>3, <1>4, <1>5, <1>6, <1>9 DEF shard

\* The backend stays alone when calls only end and no other mirror is touched.
LEMMA AloneStays ==
    ASSUME BackendIsAlone, UNCHANGED <<current, keyed>>,
           \A u \in Threads : \/ task'[u] = task[u]
                              \/ task'[u].at = "idle" /\ task[u].at \in {"enter", "locked"},
           \A b \in Backends : b # current => /\ mirror'[b].from = mirror[b].from
                                              /\ mirror'[b].shards = mirror[b].shards
    PROVE  BackendIsAlone'
<1>1. \A b \in Backends : b # current => /\ mirror'[b].from = MaxDay + 1
                                         /\ mirror'[b].shards = [d \in Docs |-> {}]
  BY DEF BackendIsAlone
<1>2. \A u, v \in Threads : Making(u)' /\ Making(v)' => u = v
  <2>1. \A u \in Threads : Making(u)' => Making(u)
    BY DEF Making
  <2> QED
    BY <2>1 DEF BackendIsAlone
<1>3. current # None /\ ~keyed => \E u \in Threads : task'[u].at = "published"
  <2>1. \A u \in Threads : task[u].at = "published" => task'[u].at = "published"
    OBVIOUS
  <2> QED
    BY <2>1 DEF BackendIsAlone
<1>4. \A u \in Threads :
        /\ task'[u].at = "creating" => current = None
        /\ task'[u].at = "published" => current # None /\ ~keyed
        /\ task'[u].at \in {"enter", "locked"} => current # None /\ task'[u].backend = current
  BY DEF BackendIsAlone
<1>5. keyed => current # None
  BY DEF BackendIsAlone
<1> QED
  BY <1>1, <1>2, <1>3, <1>4, <1>5 DEF BackendIsAlone

\* A write that succeeds leaves remote and mirror in step.
LEMMA WriteKeeps == ASSUME SignalInv, NEW t \in Threads, Write(t) PROVE SignalInv'
<1>1. PICK d \in Docs : /\ New(t, d) # {}
                        /\ remote' = [remote EXCEPT ![d] = Written(t, d)]
                        /\ mirror' = Mirrored(t, d)
  BY DEF Write
<1>2. task[t].at = "locked" /\ UNCHANGED <<current, keyed, task, acknowledged>>
  BY DEF Write
<1>3. current \in Backends /\ task[t].backend = current
  BY <1>2, PastTheLock
<1> DEFINE w == Written(t, d)
<1>4. /\ w \in SUBSET Signals
      /\ \A s \in w : DocOf(s) = d
      /\ \A s, r \in w : s.id = r.id => s = r
      /\ \A s \in acknowledged : DocOf(s) = d => s \in w
  BY <1>1, <1>2, WrittenFacts
<1>5. mirror' = [mirror EXCEPT ![current].shards[d] = w]
  BY <1>1, <1>3 DEF Mirrored
<1>6. remote' = [remote EXCEPT ![d] = w]
  BY <1>1
<1> HIDE DEF w
<1>7. /\ mirror'[current].shards = [mirror[current].shards EXCEPT ![d] = w]
      /\ \A b \in Backends : /\ mirror'[b].from = mirror[b].from
                             /\ mirror'[b].holder = mirror[b].holder
      /\ \A b \in Backends \ {current} : mirror'[b] = mirror[b]
      /\ mirror[current].shards \in [Docs -> SUBSET Signals]
      /\ remote \in [Docs -> SUBSET Signals]
  BY <1>3, <1>5 DEF SignalInv, TypeOK, Mirror
<1>8. TypeOK'
  <2>1. [mirror[current] EXCEPT !.shards[d] = w] \in Mirror
    <3>1. mirror[current] \in Mirror
      BY <1>3 DEF SignalInv, TypeOK
    <3>2. [mirror[current].shards EXCEPT ![d] = w] \in [Docs -> SUBSET Signals]
      BY <1>4, <1>7
    <3> QED
      BY <3>1, <3>2 DEF Mirror
  <2> QED
    <3>1. TypeOK
      BY DEF SignalInv
    <3>2. mirror' \in [Backends -> Mirror]
      <4>1. mirror'[current] = [mirror[current] EXCEPT !.shards[d] = w]
        BY <1>3, <1>5, <3>1 DEF TypeOK
      <4>2. \A b \in Backends \ {current} : mirror'[b] = mirror[b]
        BY <1>7
      <4> QED
        BY <1>5, <2>1, <3>1, <4>1, <4>2 DEF TypeOK
    <3>3. remote' \in [Docs -> SUBSET Signals]
      BY <1>4, <1>6, <1>7
    <3> QED
      BY <1>2, <3>1, <3>2, <3>3 DEF TypeOK
<1>9. (LockIsHeld /\ CallIsSound)'
  BY <1>2, <1>3, <1>7 DEF SignalInv, TypeOK, Task, LockIsHeld, BackendIsAlone, CallIsSound
<1>10. BackendIsAlone'
  BY <1>2, <1>7, AloneStays DEF SignalInv
<1>11. InItsDocument' /\ OneRecordADay'
  BY <1>4, <1>6 DEF SignalInv, TypeOK, InItsDocument, OneRecordADay
<1>12. \A s \in acknowledged : DocOf(s) \in Docs
  BY DocOfType DEF SignalInv, TypeOK
<1>13. SavedIsKept'
  BY <1>2, <1>4, <1>6, <1>12 DEF SignalInv, TypeOK, SavedIsKept
<1>14. MirrorIsSafe'
  <2>1. ASSUME NEW b \in Backends, NEW e \in Docs
        PROVE  mirror'[b].shards[e] \subseteq remote'[e]
    <3>1. CASE b = current
      BY <1>6, <1>7, <3>1 DEF SignalInv, MirrorIsSafe
    <3>2. CASE b # current
      <4>1. mirror'[b].shards[e] = {}
        BY <1>7, <3>2 DEF SignalInv, BackendIsAlone
      <4> QED
        BY <4>1
    <3> QED
      BY <3>1, <3>2
  <2>2. ASSUME NEW b \in Backends, NEW s \in acknowledged', mirror'[b].from <= s.day
        PROVE  s \in mirror'[b].shards[DocOf(s)]
    <3>1. s \in acknowledged /\ DocOf(s) \in Docs /\ mirror[b].from <= s.day
      BY <1>2, <1>7, <1>12, <2>2
    <3>2. s \in mirror[b].shards[DocOf(s)]
      BY <3>1 DEF SignalInv, MirrorIsSafe
    <3> QED
      BY <1>4, <1>7, <3>1, <3>2
  <2>3. ASSUME NEW s PROVE DocOf(s)' = DocOf(s)
    BY DEF DocOf
  <2> QED
    BY <2>1, <2>2, <2>3 DEF MirrorIsSafe
<1> QED
  BY <1>8, <1>9, <1>10, <1>11, <1>13, <1>14 DEF SignalInv

\* Leaving the lock disturbs nothing but the call that leaves.
LEMMA LeaveFacts ==
    ASSUME SignalInv, NEW t \in Threads, task[t].at = "locked",
           Leave(t), UNCHANGED <<current, keyed>>
    PROVE  /\ mirror' \in [Backends -> Mirror] /\ task' \in [Threads -> Task]
           /\ LockIsHeld' /\ BackendIsAlone' /\ CallIsSound'
           /\ \A b \in Backends : /\ mirror'[b].from = mirror[b].from
                                  /\ mirror'[b].shards = mirror[b].shards
<1>1. /\ current \in Backends /\ task[t].backend = current
      /\ \A u \in Threads \ {t} : task[u].at # "locked"
  BY PastTheLock
<1>2. /\ mirror' = [mirror EXCEPT ![current].holder = None]
      /\ task' = [task EXCEPT ![t] = Idle]
  BY <1>1 DEF Leave
<1>3. mirror' \in [Backends -> Mirror] /\ task' \in [Threads -> Task]
  <2>1. [mirror[current] EXCEPT !.holder = None] \in Mirror
    BY <1>1 DEF SignalInv, TypeOK, Mirror
  <2> QED
    BY <1>1, <1>2, <2>1, StartTypes DEF SignalInv, TypeOK
<1>4. \A b \in Backends : /\ mirror'[b].from = mirror[b].from
                          /\ mirror'[b].shards = mirror[b].shards
  BY <1>1, <1>2 DEF SignalInv, TypeOK, Mirror
<1>5. task'[t] = Idle /\ \A u \in Threads \ {t} : task'[u] = task[u]
  BY <1>2 DEF SignalInv, TypeOK
<1>6. LockIsHeld' /\ CallIsSound'
  BY <1>1, <1>5 DEF SignalInv, LockIsHeld, CallIsSound, Idle
<1>7. BackendIsAlone'
  <2>1. \A u \in Threads : \/ task'[u] = task[u]
                           \/ task'[u].at = "idle" /\ task[u].at \in {"enter", "locked"}
    BY <1>5 DEF Idle
  <2> QED
    BY <1>4, <2>1, AloneStays DEF SignalInv
<1> QED
  BY <1>3, <1>4, <1>6, <1>7

\* A failed write leaves the mirror with less than the remote, never with more.
LEMMA WriteFailsKeeps == ASSUME SignalInv, NEW t \in Threads, WriteFails(t) PROVE SignalInv'
<1>1. PICK d \in Docs : /\ New(t, d) # {}
                        /\ remote' \in {remote, [remote EXCEPT ![d] = Written(t, d)]}
  BY DEF WriteFails
<1>2. task[t].at = "locked" /\ Leave(t) /\ UNCHANGED <<current, keyed, acknowledged>>
  BY DEF WriteFails
<1>3. /\ mirror' \in [Backends -> Mirror] /\ task' \in [Threads -> Task]
      /\ LockIsHeld' /\ BackendIsAlone' /\ CallIsSound'
      /\ \A b \in Backends : /\ mirror'[b].from = mirror[b].from
                             /\ mirror'[b].shards = mirror[b].shards
  BY <1>2, LeaveFacts
<1>4. current \in Backends /\ task[t].backend = current
  BY <1>2, PastTheLock
<1> DEFINE w == Written(t, d)
<1>5. /\ w \in SUBSET Signals
      /\ mirror[current].shards[d] \subseteq w
      /\ \A s \in w : DocOf(s) = d
      /\ \A s, r \in w : s.id = r.id => s = r
      /\ \A s \in acknowledged : DocOf(s) = d => s \in w
  BY <1>1, <1>2, WrittenFacts
<1>6. remote' = remote \/ remote' = [remote EXCEPT ![d] = w]
  BY <1>1
<1> HIDE DEF w
<1>7. TypeOK'
  BY <1>2, <1>3, <1>5, <1>6 DEF SignalInv, TypeOK
<1>8. InItsDocument' /\ OneRecordADay'
  BY <1>5, <1>6 DEF SignalInv, TypeOK, InItsDocument, OneRecordADay
<1>9. SavedIsKept'
  <2>1. \A s \in acknowledged : DocOf(s) \in Docs
    BY DocOfType DEF SignalInv, TypeOK
  <2> QED
    BY <1>2, <1>5, <1>6, <2>1 DEF SignalInv, TypeOK, SavedIsKept
<1>10. MirrorIsSafe'
  <2>1. ASSUME NEW b \in Backends, NEW e \in Docs
        PROVE  mirror[b].shards[e] \subseteq remote'[e]
    <3>1. mirror[b].shards[e] \subseteq remote[e]
      BY DEF SignalInv, MirrorIsSafe
    <3>2. b # current => mirror[b].shards[e] = {}
      BY DEF SignalInv, BackendIsAlone
    <3> QED
      BY <1>5, <1>6, <3>1, <3>2 DEF SignalInv, TypeOK
  <2> QED
    BY <1>2, <1>3, <2>1 DEF SignalInv, MirrorIsSafe
<1> QED
  BY <1>3, <1>7, <1>8, <1>9, <1>10 DEF SignalInv

\* What a save vouches for is in its mirror, and so in the remote.
LEMMA SavedKeeps == ASSUME SignalInv, NEW t \in Threads, Saved(t) PROVE SignalInv'
<1> DEFINE found(s) == {held \in mirror[task[t].backend].shards[DocOf(s)] : held.id = s.id}
<1>1. /\ task[t].at = "locked" /\ Leave(t) /\ UNCHANGED <<remote, current, keyed>>
      /\ acknowledged' = acknowledged \cup UNION {found(s) : s \in task[t].batch}
  BY DEF Saved
<1>2. /\ mirror' \in [Backends -> Mirror] /\ task' \in [Threads -> Task]
      /\ LockIsHeld' /\ BackendIsAlone' /\ CallIsSound'
      /\ \A b \in Backends : /\ mirror'[b].from = mirror[b].from
                             /\ mirror'[b].shards = mirror[b].shards
  BY <1>1, LeaveFacts
<1>3. current \in Backends /\ task[t].backend = current
  BY <1>1, PastTheLock
<1>4. ASSUME NEW r \in acknowledged', r \notin acknowledged
      PROVE  /\ DocOf(r) \in Docs /\ r \in Signals
             /\ r \in mirror[current].shards[DocOf(r)]
             /\ r \in remote[DocOf(r)]
  <2>1. PICK s \in task[t].batch : r \in mirror[current].shards[DocOf(s)]
    BY <1>1, <1>3, <1>4
  <2>2. DocOf(s) \in Docs
    BY DocOfType DEF SignalInv, TypeOK, Task
  <2>3. r \in remote[DocOf(s)] /\ r \in Signals
    BY <1>3, <2>1, <2>2 DEF SignalInv, MirrorIsSafe, TypeOK
  <2>4. DocOf(r) = DocOf(s)
    BY <2>2, <2>3 DEF SignalInv, InItsDocument
  <2> QED
    BY <2>1, <2>2, <2>3, <2>4
<1>5. TypeOK'
  BY <1>1, <1>2, <1>4 DEF SignalInv, TypeOK
<1>6. SavedIsKept'
  BY <1>1, <1>4 DEF SignalInv, SavedIsKept
<1>7. MirrorIsSafe'
  <2>1. ASSUME NEW b \in Backends, NEW r \in acknowledged', mirror[b].from <= r.day
        PROVE  r \in mirror[b].shards[DocOf(r)]
    <3>1. CASE r \in acknowledged
      BY <2>1, <3>1 DEF SignalInv, MirrorIsSafe
    <3>2. CASE r \notin acknowledged
      <4>1. b = current
        BY <1>4, <2>1, <3>2, SignalsAssumption, DaysAssumption
           DEF SignalInv, BackendIsAlone, Days
      <4> QED
        BY <1>4, <3>2, <4>1
    <3> QED
      BY <3>1, <3>2
  <2> QED
    BY <1>1, <1>2, <2>1 DEF SignalInv, MirrorIsSafe
<1>8. InItsDocument' /\ OneRecordADay'
  BY <1>1 DEF SignalInv, InItsDocument, OneRecordADay
<1> QED
  BY <1>2, <1>5, <1>6, <1>7, <1>8 DEF SignalInv

\* A read changes nothing.
LEMMA AnsweredKeeps == ASSUME SignalInv, NEW t \in Threads, Answered(t) PROVE SignalInv'
<1>1. /\ task[t].at = "locked" /\ Leave(t)
      /\ UNCHANGED <<remote, current, keyed, acknowledged>>
  BY DEF Answered
<1>2. /\ mirror' \in [Backends -> Mirror] /\ task' \in [Threads -> Task]
      /\ LockIsHeld' /\ BackendIsAlone' /\ CallIsSound'
      /\ \A b \in Backends : /\ mirror'[b].from = mirror[b].from
                             /\ mirror'[b].shards = mirror[b].shards
  BY <1>1, LeaveFacts
<1> QED
  BY <1>1, <1>2
     DEF SignalInv, TypeOK, InItsDocument, MirrorIsSafe, SavedIsKept, OneRecordADay

\* A mirror that could not be filled is left as it was.
LEMMA LoadFailsKeeps == ASSUME SignalInv, NEW t \in Threads, LoadFails(t) PROVE SignalInv'
<1>1. /\ task[t].at = "enter" /\ task' = [task EXCEPT ![t] = Idle]
      /\ UNCHANGED <<remote, mirror, current, keyed, acknowledged>>
  BY DEF LoadFails
<1>2. task'[t] = Idle /\ \A u \in Threads \ {t} : task'[u] = task[u]
  BY <1>1 DEF SignalInv, TypeOK
<1>3. TypeOK'
  BY <1>1, StartTypes DEF SignalInv, TypeOK
<1>4. LockIsHeld' /\ CallIsSound'
  BY <1>1, <1>2 DEF SignalInv, LockIsHeld, CallIsSound, Idle
<1>5. BackendIsAlone'
  <2>1. \A u \in Threads : \/ task'[u] = task[u]
                           \/ task'[u].at = "idle" /\ task[u].at \in {"enter", "locked"}
    BY <1>1, <1>2 DEF Idle
  <2> QED
    BY <1>1, <2>1, AloneStays DEF SignalInv
<1> QED
  BY <1>1, <1>3, <1>4, <1>5 DEF SignalInv, InItsDocument, MirrorIsSafe, SavedIsKept, OneRecordADay

-----------------------------------------------------------------------------
(* The theorems.  Each presumes that no second call begins while the first   *)
(* makes the backend: with that race SavedIsKept is false.                   *)

\* The inductive invariant, whatever fails and whenever the process restarts.
THEOREM Inductive == ASSUME ~FirstCallsRace PROVE Spec => []SignalInv
<1>1. SignalInv /\ [Next]_vars => SignalInv'
  <2> SUFFICES ASSUME SignalInv, [Next]_vars PROVE SignalInv'
    OBVIOUS
  <2>1. CASE UNCHANGED vars
    BY <2>1 DEF vars, SignalInv, TypeOK, LockIsHeld, BackendIsAlone, Making, CallIsSound,
                InItsDocument, MirrorIsSafe, SavedIsKept, OneRecordADay
  <2>2. CASE Next
    BY <2>2, CallKeeps, CreateKeeps, TakeKeeps, EnterKeeps, LoadFailsKeeps, WriteKeeps,
       WriteFailsKeeps, SavedKeeps, AnsweredKeeps, RestartKeeps DEF Next
  <2> QED
    BY <2>1, <2>2
<1> QED
  BY <1>1, StartKeeps, PTL DEF Spec

\* No rewrite of a document drops what a call that returned has stored or found.
THEOREM NothingIsLost == ASSUME ~FirstCallsRace PROVE Spec => []SavedIsKept
<1>1. SignalInv => SavedIsKept
  BY DEF SignalInv
<1> QED
  BY <1>1, Inductive, PTL

\* A document never has two observations of one id.
THEOREM CountedOnce == ASSUME ~FirstCallsRace PROVE Spec => []OneRecordADay
<1>1. SignalInv => OneRecordADay
  BY DEF SignalInv
<1> QED
  BY <1>1, Inductive, PTL

\* A read answers with all that was put on record since its day.
THEOREM ReadsAreComplete == ASSUME ~FirstCallsRace PROVE Spec => []ReadsSeeSaves
<1>1. SignalInv => ReadsSeeSaves
  <2> SUFFICES ASSUME SignalInv, NEW t \in Threads, task[t].at = "locked",
                      NEW s \in acknowledged, s.day >= task[t].low
               PROVE  s \in Answer(t)
    BY DEF ReadsSeeSaves
  <2>1. /\ current \in Backends /\ task[t].backend = current
        /\ mirror[current].from <= task[t].low
    BY PastTheLock
  <2>2. s \in Signals /\ s.day \in Int /\ DocOf(s) \in Docs /\ DocOf(s)[1] = s.day
    BY DocOfType, SignalsAssumption, DaysAssumption DEF SignalInv, TypeOK, DocOf, Days
  <2>3. mirror[current].from \in Int /\ task[t].low \in Int
    BY <2>1, DaysAssumption DEF SignalInv, TypeOK, Mirror, Task
  <2>4. s \in mirror[current].shards[DocOf(s)]
    BY <2>1, <2>2, <2>3 DEF SignalInv, MirrorIsSafe
  <2> QED
    BY <2>1, <2>2, <2>4 DEF Answer
<1> QED
  BY <1>1, Inductive, PTL
=============================================================================
