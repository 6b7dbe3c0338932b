---------------------------- MODULE IntakeProofs ----------------------------
(***************************************************************************)
(* Proofs about the intake, for any set of reports and clients, every cap, *)
(* window and length of a day, whatever is uploaded, and restarts at any   *)
(* point: what is on disk is accounted for, and the budgets hold.          *)
(***************************************************************************)
EXTENDS IntakeService, FiniteSetTheorems, FunctionTheorems, SequenceTheorems, TLAPS

USE UploadsAssumption, BoundsAssumption, CapsAssumption, TimeAssumption, NoneAssumption

-----------------------------------------------------------------------------
(* The pieces of the limiter. *)

\* A client the dictionary does not know has no deque.
KnownHold(l) == \A c \in Clients : c \notin l.known => l.recent[c] = <<>>

\* The positions of a deque that are inside the window at time t.
Within(q, t) == {i \in 1 .. Len(q) : t - q[i] < Window}

\* Later times have no earlier days.
LEMMA DayMonotonic ==
    ASSUME NEW s \in Nat, NEW t \in Nat, s <= t
    PROVE  DayOf(s) \in Nat /\ DayOf(t) \in Nat /\ DayOf(s) <= DayOf(t)
BY DEF DayOf

\* Rolling the day loses no deque: it drops the clients that have an empty one.
LEMMA RollKeeps ==
    ASSUME NEW l \in Limiter, KnownHold(l), NEW t \in Nat
    PROVE  /\ RollDay(l, t) \in Limiter /\ KnownHold(RollDay(l, t))
           /\ RollDay(l, t).day = DayOf(t)
           /\ RollDay(l, t).count = IF l.day = DayOf(t) THEN l.count ELSE 0
           /\ RollDay(l, t).recent = l.recent
<1> DEFINE r == Rolled(l, t)
<1>1. DayOf(t) \in Int /\ <<>> \in Seq(Nat)
  BY DayMonotonic, EmptySeq
<1>2. /\ r \in Limiter /\ r.day = DayOf(t) /\ r.count = 0
      /\ r.known = l.known /\ r.recent = l.recent
  BY <1>1 DEF Rolled, Limiter
<1>3. \A c \in Clients : c \notin Kept(r) => r.recent[c] = <<>>
  BY <1>2 DEF Kept, KnownHold
<1>4. Kept(r) \subseteq Clients
  BY <1>2 DEF Kept, Limiter
<1> HIDE DEF r
<1>5. /\ Rebuilt(r) \in Limiter /\ Rebuilt(r).known = Kept(r)
      /\ Rebuilt(r).day = r.day /\ Rebuilt(r).count = r.count
      /\ Rebuilt(r).recent = [c \in Clients |-> IF c \in Kept(r) THEN r.recent[c] ELSE <<>>]
  BY <1>1, <1>2, <1>4 DEF Rebuilt, Limiter
<1>6. Rebuilt(r).recent = r.recent
  BY <1>2, <1>3, <1>5 DEF Limiter
<1>7. KnownHold(Rebuilt(r))
  BY <1>3, <1>5, <1>6 DEF KnownHold
<1> QED
  BY <1>2, <1>5, <1>6, <1>7 DEF RollDay, MustRoll, r

\* The first n positions are n.
LEMMA UpTo ==
    ASSUME NEW n \in Nat
    PROVE  IsFiniteSet(1 .. n) /\ Cardinality(1 .. n) = n
<1>1. 1 \in Int /\ n \in Int
  OBVIOUS
<1>2. IsFiniteSet(1 .. n) /\ Cardinality(1 .. n) = IF 1 > n THEN 0 ELSE n - 1 + 1
  BY <1>1, FS_Interval
<1> QED
  BY <1>2

\* A set of positions that has, of each, all before it, is a first few.
LEMMA FirstFew ==
    ASSUME NEW n \in Nat, NEW S, S \subseteq 1 .. n, \A i \in S : 1 .. i \subseteq S
    PROVE  Cardinality(S) \in 0 .. n /\ S = 1 .. Cardinality(S)
<1>1. PICK k : k = Cardinality(S)
  OBVIOUS
<1>2. k \in Nat /\ k <= n /\ IsFiniteSet(S)
  <2>1. IsFiniteSet(1 .. n) /\ Cardinality(1 .. n) = n
    BY UpTo
  <2>2. IsFiniteSet(S) /\ Cardinality(S) <= n
    BY <2>1, FS_Subset
  <2> QED
    BY <1>1, <2>2, FS_CardinalityType
<1>3. k + 1 \notin S
  <2> SUFFICES ASSUME k + 1 \in S PROVE FALSE
    OBVIOUS
  <2>1. Cardinality(1 .. k + 1) = k + 1
    BY <1>2, UpTo
  <2>2. Cardinality(1 .. k + 1) <= k
    BY <1>1, <1>2, FS_Subset
  <2> QED
    BY <1>2, <2>1, <2>2
<1>4. S \subseteq 1 .. k
  <2> SUFFICES ASSUME NEW i \in S, i > k PROVE FALSE
    BY <1>2
  <2>1. i \in 1 .. n /\ k + 1 \in 1 .. i
    BY <1>2
  <2> QED
    BY <1>3, <2>1
<1>5. IsFiniteSet(1 .. k) /\ Cardinality(1 .. k) = k
  BY <1>2, UpTo
<1>6. S = 1 .. k
  BY <1>1, <1>4, <1>5, FS_Subset
<1> QED
  BY <1>1, <1>2, <1>6

\* Pruning takes a prefix of the deque that is outside the window.
LEMMA PrunedPrefix ==
    ASSUME NEW q \in Seq(Nat), NEW t \in Nat
    PROVE  \E k \in 0 .. Len(q) :
             /\ Pruned(q, t) = SubSeq(q, k + 1, Len(q))
             /\ \A i \in 1 .. k : t - q[i] >= Window
<1> DEFINE expired == {i \in 1 .. Len(q) : \A j \in 1 .. i : t - q[j] >= Window}
<1>1. Len(q) \in Nat
  BY LenProperties
<1>2. ASSUME NEW i \in expired PROVE 1 .. i \subseteq expired
  <2>1. ASSUME NEW j \in 1 .. i PROVE j \in expired
    <3>1. i \in 1 .. Len(q) /\ \A h \in 1 .. i : t - q[h] >= Window
      OBVIOUS
    <3>2. j \in 1 .. Len(q) /\ \A h \in 1 .. j : h \in 1 .. i
      BY <1>1, <2>1, <3>1
    <3> QED
      BY <3>1, <3>2
  <2> QED
    BY <2>1
<1>3. \A i \in expired : t - q[i] >= Window
  BY <1>1
<1>4. Pruned(q, t) = SubSeq(q, Cardinality(expired) + 1, Len(q))
  BY DEF Pruned
<1>5. expired \subseteq 1 .. Len(q)
  OBVIOUS
<1> HIDE DEF expired
<1>6. Cardinality(expired) \in 0 .. Len(q) /\ expired = 1 .. Cardinality(expired)
  BY <1>1, <1>2, <1>5, FirstFew
<1> QED
  BY <1>3, <1>4, <1>6

\* Nothing inside the window is pruned, now or at any later time.
LEMMA PrunedKeepsWindow ==
    ASSUME NEW q \in Seq(Nat), NEW now1 \in Nat, NEW t \in Nat, now1 <= t
    PROVE  /\ Pruned(q, now1) \in Seq(Nat)
           /\ IsFiniteSet(Within(Pruned(q, now1), t))
           /\ Cardinality(Within(q, t)) <= Cardinality(Within(Pruned(q, now1), t))
<1>1. PICK k \in 0 .. Len(q) : /\ Pruned(q, now1) = SubSeq(q, k + 1, Len(q))
                               /\ \A i \in 1 .. k : now1 - q[i] >= Window
  BY PrunedPrefix
<1> DEFINE r == SubSeq(q, k + 1, Len(q))
           f == [i \in Within(q, t) |-> i - k]
<1>2. Len(q) \in Nat /\ \A i \in 1 .. Len(q) : q[i] \in Nat
  BY LenProperties, ElementOfSeq
<1>3. /\ r \in Seq(Nat) /\ Len(r) = Len(q) - k /\ Len(r) \in Nat
      /\ \A i \in 1 .. Len(r) : r[i] = q[k + i]
  BY <1>2, SubSeqProperties
<1> HIDE DEF r
<1>4. IsFiniteSet(Within(r, t))
  <2>1. Within(r, t) \subseteq 1 .. Len(r)
    BY DEF Within
  <2> QED
    BY <1>3, <2>1, UpTo, FS_Subset
<1>5. \A i \in Within(q, t) : i \in Int /\ i - k \in Within(r, t)
  <2> SUFFICES ASSUME NEW i \in Within(q, t) PROVE i \in Int /\ i - k \in Within(r, t)
    OBVIOUS
  <2>1. i \in 1 .. Len(q) /\ t - q[i] < Window /\ q[i] \in Nat
    BY <1>2 DEF Within
  <2>2. i > k
    BY <1>1, <1>2, <2>1
  <2>3. i - k \in 1 .. Len(r) /\ r[i - k] = q[i]
    <3>1. i - k \in 1 .. Len(r)
      BY <1>2, <1>3, <2>1, <2>2
    <3>2. k + (i - k) = i
      BY <2>1
    <3> QED
      BY <1>3, <3>1, <3>2
  <2> QED
    BY <2>1, <2>3 DEF Within
<1>6. f \in Injection(Within(q, t), Within(r, t))
  <2>1. f \in [Within(q, t) -> Within(r, t)]
    BY <1>5
  <2>2. \A a, b \in Within(q, t) : f[a] = f[b] => a = b
    BY <1>5
  <2> QED
    BY <2>1, <2>2, Fun_IsInj
<1> HIDE DEF f
<1>7. Cardinality(Within(q, t)) <= Cardinality(Within(r, t))
  BY <1>4, <1>6, FS_Injection
<1> QED
  BY <1>1, <1>3, <1>4, <1>7 DEF r

\* A deque has no more entries inside the window than it has entries.
LEMMA WithinLength ==
    ASSUME NEW q \in Seq(Nat), NEW t
    PROVE  /\ IsFiniteSet(Within(q, t)) /\ Cardinality(Within(q, t)) \in Nat
           /\ Cardinality(Within(q, t)) <= Len(q)
<1>1. Len(q) \in Nat /\ Within(q, t) \subseteq 1 .. Len(q)
  BY LenProperties DEF Within
<1>2. IsFiniteSet(1 .. Len(q)) /\ Cardinality(1 .. Len(q)) = Len(q)
  BY <1>1, UpTo
<1> QED
  BY <1>1, <1>2, FS_Subset, FS_CardinalityType

-----------------------------------------------------------------------------
(* What is on disk. *)

\* Where a report has looked at its voice note, at its photographs, and has stored
\* the note.
PastVoice == {"photos", "note", "save", "accepted"}
PastPhotos == {"note", "save", "accepted"}
PastNote == {"save", "accepted"}

FilesInv(p) ==
    /\ task[p].at = "idle" => \A i \in Nat : <<p, i>> \notin files
    /\ task[p].at = "voice" => task[p].photo = 0 /\ \A i \in Nat : <<p, i>> \notin files
    /\ \A i \in Nat : <<p, i>> \in files => task[p].upload.voice # "bad"
    /\ task[p].at \in PastVoice =>
         task[p].upload.voice # "bad" /\ \A i \in 1 .. task[p].photo : <<p, i>> \in files
    /\ task[p].at \in PastPhotos => Len(task[p].upload.photos) <= task[p].photo
    /\ task[p].at \in PastNote /\ task[p].upload.voice # "none" => <<p, 0>> \in files
    /\ p \in cases => task[p].at = "accepted"

UploadsInv == \A p \in Reports : FilesInv(p)

\* A report moves on and nothing else of it changes.
LEMMA Moves ==
    ASSUME TypeOK, NEW p \in Reports, NEW stage, Goto(p, stage),
           stage \in Uploading \cup Answered,
           stage \in Uploading \cup {"accepted"} => task[p].upload \in Uploads
    PROVE  /\ task' \in [Reports -> Task]
           /\ task'[p].at = stage /\ task'[p].upload = task[p].upload
           /\ task'[p].photo = task[p].photo
           /\ \A q \in Reports \ {p} : task'[q] = task[q]
           /\ \A q \in Reports : task'[q].at \in Uploading \cup {"accepted"}
                => task'[q].upload \in Uploads
<1>1. task \in [Reports -> Task] /\ task' = [task EXCEPT ![p].at = stage]
  BY DEF TypeOK, Goto
<1>2. task[p] \in Task
  BY <1>1
<1>3. [task[p] EXCEPT !.at = stage] \in Task
  BY <1>2 DEF Task
<1>4. /\ task'[p] = [task[p] EXCEPT !.at = stage]
      /\ \A q \in Reports \ {p} : task'[q] = task[q]
  BY <1>1
<1>5. /\ task'[p].at = stage /\ task'[p].upload = task[p].upload
      /\ task'[p].photo = task[p].photo
  BY <1>2, <1>4 DEF Task
<1>6. task' \in [Reports -> Task]
  BY <1>1, <1>3
<1> QED
  BY <1>4, <1>5, <1>6 DEF TypeOK

\* A report that is let through starts with its upload and no photograph read.
LEMMA Starts ==
    ASSUME TypeOK, NEW p \in Reports, NEW upload \in Uploads,
           task' = [task EXCEPT ![p] = [at |-> FirstUpload, upload |-> upload, photo |-> 0]]
    PROVE  /\ task' \in [Reports -> Task]
           /\ task'[p].at = "voice" /\ task'[p].upload = upload /\ task'[p].photo = 0
           /\ \A q \in Reports \ {p} : task'[q] = task[q]
           /\ \A q \in Reports : task'[q].at \in Uploading \cup {"accepted"}
                => task'[q].upload \in Uploads
<1>1. [at |-> FirstUpload, upload |-> upload, photo |-> 0] \in Task
  BY DEF Task, FirstUpload, Uploading, Waiting
<1>2. /\ task'[p] = [at |-> "voice", upload |-> upload, photo |-> 0]
      /\ \A q \in Reports \ {p} : task'[q] = task[q]
  BY DEF TypeOK, FirstUpload
<1> QED
  BY <1>1, <1>2 DEF TypeOK

\* What an arriving report may find: it is turned away, limited or let through.
LEMMA ArriveTask ==
    ASSUME TypeOK, NEW p \in Reports, TurnAway(p) \/ Arrive(p)
    PROVE  /\ task[p].at = "idle" /\ UNCHANGED <<files, cases>>
           /\ \/ Goto(p, "refused") \/ Goto(p, "limited")
              \/ \E upload \in Uploads :
                   task' = [task EXCEPT ![p] = [at |-> FirstUpload, upload |-> upload,
                                                photo |-> 0]]
BY DEF TurnAway, Arrive, At

\* Each step of the uploads keeps the tasks, the files and the cases in their types.
LEMMA StepType ==
    ASSUME TypeOK, NEW p \in Reports, Step(p)
    PROVE  TypeOK'
<1>0. /\ task \in [Reports -> Task] /\ task[p] \in Task
      /\ task[p].at \in Uploading => task[p].upload \in Uploads
  BY DEF TypeOK
<1>1. CASE ReadVoice(p)
  <2>1. PICK stage \in {"refused", "photos"} : Goto(p, stage)
    BY <1>1 DEF ReadVoice
  <2>2. task[p].upload \in Uploads
    BY <1>0, <1>1 DEF ReadVoice, At, Uploading, Waiting
  <2> QED
    BY <1>1, <2>1, <2>2, Moves DEF ReadVoice, TypeOK, Uploading, Waiting, Answered
<1>2. CASE ReadPhoto(p)
  <2>1. task[p].upload \in Uploads /\ task[p].photo \in Nat
    BY <1>0, <1>2 DEF ReadPhoto, At, Uploading, Waiting, Task
  <2>2. CASE \E stage \in {"note", "refused"} : Goto(p, stage) /\ UNCHANGED files
    BY <1>2, <2>1, <2>2, Moves DEF ReadPhoto, TypeOK, Uploading, Holding, Answered
  <2>3. CASE /\ files' = files \cup {<<p, task[p].photo + 1>>}
             /\ task' = [task EXCEPT ![p].photo = task[p].photo + 1]
    <3>1. [task[p] EXCEPT !.photo = task[p].photo + 1] \in Task
      <4>1. task[p] \in Task /\ task[p].photo + 1 \in Nat
        BY <1>0, <2>1
      <4> QED
        BY <4>1 DEF Task
    <3>2. /\ task' \in [Reports -> Task]
          /\ \A q \in Reports : task'[q].at = task[q].at /\ task'[q].upload = task[q].upload
      BY <1>0, <2>3, <3>1 DEF Task
    <3>3. files' \subseteq Reports \X Nat
      BY <2>1, <2>3 DEF TypeOK
    <3> QED
      BY <1>2, <3>2, <3>3 DEF ReadPhoto, TypeOK
  <2> QED
    BY <1>2, <2>2, <2>3 DEF ReadPhoto
<1>3. CASE StoreVoice(p)
  <2>1. Goto(p, "save") /\ task[p].upload \in Uploads
    BY <1>0, <1>3 DEF StoreVoice, At, Uploading, Holding
  <2>2. files' \subseteq Reports \X Nat
    BY <1>3 DEF StoreVoice, TypeOK
  <2> QED
    BY <1>3, <2>1, <2>2, Moves DEF StoreVoice, TypeOK, Uploading, Holding
<1>4. CASE SaveCase(p)
  <2>1. Goto(p, "accepted") /\ task[p].upload \in Uploads
    BY <1>0, <1>4 DEF SaveCase, At, Uploading, Holding
  <2>2. cases' \subseteq Reports
    BY <1>4 DEF SaveCase, TypeOK
  <2> QED
    BY <1>4, <2>1, <2>2, Moves DEF SaveCase, TypeOK, Answered
<1> QED
  BY <1>1, <1>2, <1>3, <1>4 DEF Step

\* Each step of the uploads keeps what is on disk accounted for.
LEMMA StepUploads ==
    ASSUME TypeOK, UploadsInv, NEW p \in Reports, Step(p)
    PROVE  UploadsInv'
<1>0. /\ task \in [Reports -> Task] /\ task[p] \in Task /\ task[p].photo \in Nat
      /\ task[p].at \in Uploading => task[p].upload \in Uploads
      /\ FilesInv(p)
  BY DEF TypeOK, UploadsInv, Task
<1>1. ASSUME NEW q \in Reports \ {p}, task'[q] = task[q],
             \A i \in Nat : <<q, i>> \in files' <=> <<q, i>> \in files,
             q \in cases' <=> q \in cases
      PROVE  FilesInv(q)'
  <2>1. FilesInv(q)
    BY DEF UploadsInv
  <2>2. 0 \in Nat /\ (task[q].photo \in Nat => 1 .. task[q].photo \subseteq Nat)
    OBVIOUS
  <2>3. task[q].photo \in Nat
    BY <1>0 DEF Task
  <2> QED
    BY <1>1, <2>1, <2>2, <2>3 DEF FilesInv
<1>2. CASE ReadVoice(p)
  <2>1. /\ task[p].at = "voice" /\ task[p].upload \in Uploads
        /\ IF task[p].upload.voice = "bad" THEN Goto(p, "refused") ELSE Goto(p, "photos")
        /\ UNCHANGED <<files, cases>>
    BY <1>0, <1>2 DEF ReadVoice, At, Uploading, Waiting
  <2>2. /\ task'[p].at = IF task[p].upload.voice = "bad" THEN "refused" ELSE "photos"
        /\ task'[p].upload = task[p].upload /\ task'[p].photo = task[p].photo
        /\ \A q \in Reports \ {p} : task'[q] = task[q]
    BY <2>1, Moves DEF Uploading, Waiting, Answered
  <2>3. FilesInv(p)'
    BY <1>0, <2>1, <2>2 DEF FilesInv, PastVoice, PastPhotos, PastNote
  <2> QED
    BY <1>1, <2>1, <2>2, <2>3 DEF UploadsInv
<1>3. CASE ReadPhoto(p)
  <2> DEFINE photos == task[p].upload.photos
             i == task[p].photo + 1
  <2>1. /\ task[p].at = "photos" /\ task[p].upload \in Uploads
        /\ photos \in Seq({"good", "bad"}) /\ Len(photos) \in Nat
        /\ UNCHANGED cases
    <3>1. task[p].at = "photos" /\ task[p].upload \in Uploads /\ UNCHANGED cases
      BY <1>0, <1>3 DEF ReadPhoto, At, Uploading, Waiting
    <3>2. photos \in Seq({"good", "bad"})
      BY <3>1
    <3> QED
      BY <3>1, <3>2, LenProperties
  <2>2. CASE \/ Goto(p, "note") /\ i > Len(photos) /\ UNCHANGED files
             \/ Goto(p, "refused") /\ UNCHANGED files
    <3>1. /\ task'[p].at \in {"note", "refused"}
          /\ task'[p].at = "note" => Len(photos) <= task[p].photo
          /\ task'[p].upload = task[p].upload /\ task'[p].photo = task[p].photo
          /\ \A q \in Reports \ {p} : task'[q] = task[q]
      BY <1>0, <2>1, <2>2, Moves DEF Uploading, Holding, Answered
    <3>2. FilesInv(p)'
      BY <1>0, <2>1, <2>2, <3>1 DEF FilesInv, PastVoice, PastPhotos, PastNote
    <3> QED
      BY <1>1, <2>1, <2>2, <3>1, <3>2 DEF UploadsInv
  <2>3. CASE files' = files \cup {<<p, i>>} /\ task' = [task EXCEPT ![p].photo = i]
    <3>1. /\ task'[p].at = "photos" /\ task'[p].upload = task[p].upload /\ task'[p].photo = i
          /\ \A q \in Reports \ {p} : task'[q] = task[q]
      BY <1>0, <2>1, <2>3 DEF Task
    <3>2. 1 .. i = 1 .. task[p].photo \cup {i}
      BY <1>0
    <3>3. FilesInv(p)'
      BY <1>0, <2>1, <2>3, <3>1, <3>2 DEF FilesInv, PastVoice, PastPhotos, PastNote
    <3> QED
      BY <1>1, <2>1, <2>3, <3>1, <3>3 DEF UploadsInv
  <2> QED
    BY <1>3, <2>2, <2>3 DEF ReadPhoto
<1>4. CASE StoreVoice(p)
  <2>1. /\ task[p].at = "note" /\ task[p].upload \in Uploads /\ Goto(p, "save")
        /\ files' = IF task[p].upload.voice = "good" THEN files \cup {<<p, 0>>} ELSE files
        /\ UNCHANGED cases
    BY <1>0, <1>4 DEF StoreVoice, At, Uploading, Holding
  <2>2. /\ task'[p].at = "save"
        /\ task'[p].upload = task[p].upload /\ task'[p].photo = task[p].photo
        /\ \A q \in Reports \ {p} : task'[q] = task[q]
    BY <2>1, Moves DEF Uploading, Holding
  <2>3. task[p].upload.voice \in {"none", "good", "bad"}
    BY <2>1
  <2>4. FilesInv(p)'
    BY <1>0, <2>1, <2>2, <2>3 DEF FilesInv, PastVoice, PastPhotos, PastNote
  <2> QED
    BY <1>1, <2>1, <2>2, <2>4 DEF UploadsInv
<1>5. CASE SaveCase(p)
  <2>1. /\ task[p].at = "save" /\ task[p].upload \in Uploads /\ Goto(p, "accepted")
        /\ cases' = cases \cup {p} /\ UNCHANGED files
    BY <1>0, <1>5 DEF SaveCase, At, Uploading, Holding
  <2>2. /\ task'[p].at = "accepted"
        /\ task'[p].upload = task[p].upload /\ task'[p].photo = task[p].photo
        /\ \A q \in Reports \ {p} : task'[q] = task[q]
    BY <2>1, Moves DEF Answered
  <2>3. FilesInv(p)'
    BY <1>0, <2>1, <2>2 DEF FilesInv, PastVoice, PastPhotos, PastNote
  <2> QED
    BY <1>1, <2>1, <2>2, <2>3 DEF UploadsInv
<1> QED
  BY <1>2, <1>3, <1>4, <1>5 DEF Step

\* A report that arrives has left nothing on disk.
LEMMA ArriveUploads ==
    ASSUME TypeOK, UploadsInv, NEW p \in Reports, TurnAway(p) \/ Arrive(p)
    PROVE  UploadsInv'
<1>1. /\ task[p].at = "idle" /\ UNCHANGED <<files, cases>>
      /\ FilesInv(p)
  BY ArriveTask DEF UploadsInv
<1>2. /\ task'[p].at \in {"refused", "limited", "voice"}
      /\ task'[p].at = "voice" => task'[p].photo = 0
      /\ \A q \in Reports \ {p} : task'[q] = task[q]
  BY ArriveTask, Moves, Starts DEF Uploading, Waiting, Holding, Answered
<1>3. FilesInv(p)'
  BY <1>1, <1>2 DEF FilesInv, PastVoice, PastPhotos, PastNote
<1>4. ASSUME NEW q \in Reports \ {p} PROVE FilesInv(q)'
  <2>1. FilesInv(q)
    BY DEF UploadsInv
  <2> QED
    BY <1>1, <1>2, <2>1 DEF FilesInv
<1> QED
  BY <1>3, <1>4 DEF UploadsInv

\* A restart loses requests, and neither files nor cases.
LEMMA RestartUploads ==
    ASSUME TypeOK, UploadsInv, Restart
    PROVE  UploadsInv'
<1>1. ASSUME NEW p \in Reports PROVE FilesInv(p)'
  <2>1. /\ FilesInv(p) /\ task[p] \in Task
        /\ task'[p] = IF task[p].at \in Uploading THEN [task[p] EXCEPT !.at = "lost"] ELSE task[p]
        /\ UNCHANGED <<files, cases>>
    BY DEF Restart, UploadsInv, TypeOK
  <2>2. CASE task[p].at \in Uploading
    <3>1. task'[p].at = "lost" /\ task'[p].upload = task[p].upload
      BY <2>1, <2>2 DEF Task
    <3> QED
      BY <2>1, <2>2, <3>1 DEF FilesInv, PastVoice, PastPhotos, PastNote, Uploading, Waiting, Holding
  <2>3. CASE task[p].at \notin Uploading
    BY <2>1, <2>3 DEF FilesInv
  <2> QED
    BY <2>2, <2>3
<1> QED
  BY <1>1 DEF UploadsInv

-----------------------------------------------------------------------------
(* What the process let through. *)

\* The requests of one day, and those of a client inside the window at time t.
GrantedOn(d) == {j \in DOMAIN granted : DayOf(granted[j].at) = d}
GrantedWithin(c, t) ==
    {j \in DOMAIN granted : granted[j].client = c /\ t - granted[j].at < Window}

\* The count is what the limiter's day has been given, and no later day has been
\* given anything.
DayInv ==
    /\ limiter.day = None => granted = <<>>
    /\ limiter.day # None =>
         /\ limiter.day <= DayOf(now)
         /\ \A j \in DOMAIN granted : DayOf(granted[j].at) <= limiter.day
         /\ Cardinality(GrantedOn(limiter.day)) = limiter.count

\* Each deque has an entry for every request of its client that is, or will be,
\* inside the window.
WindowInv ==
    /\ KnownHold(limiter)
    /\ \A c \in Clients, t \in Nat : t >= now =>
         Cardinality(GrantedWithin(c, t)) <= Cardinality(Within(limiter.recent[c], t))

IntakeIInv == IntakeInv /\ UploadsInv /\ DayInv /\ WindowInv

\* The sets that are counted are finite.
LEMMA GrantsAreFinite ==
    ASSUME TypeOK
    PROVE  /\ Len(granted) \in Nat /\ DOMAIN granted = 1 .. Len(granted)
           /\ \A j \in DOMAIN granted : /\ granted[j].client \in Clients
                                        /\ granted[j].at \in Nat /\ granted[j].at <= MaxTime
           /\ \A d : IsFiniteSet(GrantedOn(d)) /\ Cardinality(GrantedOn(d)) \in Nat
           /\ \A c, t : IsFiniteSet(GrantedWithin(c, t)) /\ Cardinality(GrantedWithin(c, t)) \in Nat
<1>1. granted \in Seq([client : Clients, at : 0 .. MaxTime])
  BY DEF TypeOK
<1>2. Len(granted) \in Nat /\ DOMAIN granted = 1 .. Len(granted)
  BY <1>1, LenProperties
<1>3. \A j \in DOMAIN granted : granted[j] \in [client : Clients, at : 0 .. MaxTime]
  BY <1>1, <1>2, ElementOfSeq
<1>4. IsFiniteSet(DOMAIN granted)
  BY <1>2, UpTo
<1>5. ASSUME NEW d PROVE IsFiniteSet(GrantedOn(d)) /\ Cardinality(GrantedOn(d)) \in Nat
  BY <1>4, FS_Subset, FS_CardinalityType DEF GrantedOn
<1>6. ASSUME NEW c, NEW t
      PROVE  IsFiniteSet(GrantedWithin(c, t)) /\ Cardinality(GrantedWithin(c, t)) \in Nat
  BY <1>4, FS_Subset, FS_CardinalityType DEF GrantedWithin
<1> QED
  BY <1>2, <1>3, <1>5, <1>6

\* The limiter after the day is rolled and a client's deque is pruned: it still
\* counts what was let through.
LimiterFits(l) ==
    /\ l \in Limiter /\ KnownHold(l)
    /\ l.day = DayOf(now)
    /\ \A j \in DOMAIN granted : DayOf(granted[j].at) <= l.day
    /\ Cardinality(GrantedOn(l.day)) = l.count
    /\ \A c \in Clients, t \in Nat : t >= now =>
         Cardinality(GrantedWithin(c, t)) <= Cardinality(Within(l.recent[c], t))

\* Rolling the day: a later day has been given nothing yet.
LEMMA RolledFits ==
    ASSUME IntakeIInv
    PROVE  LimiterFits(RollDay(limiter, now))
<1> DEFINE r == RollDay(limiter, now)
<1>1. /\ TypeOK /\ limiter \in Limiter /\ KnownHold(limiter) /\ now \in Nat
      /\ DayInv /\ WindowInv
  BY DEF IntakeIInv, IntakeInv, TypeOK, WindowInv
<1>2. /\ r \in Limiter /\ KnownHold(r) /\ r.day = DayOf(now)
      /\ r.count = IF limiter.day = DayOf(now) THEN limiter.count ELSE 0
      /\ r.recent = limiter.recent
  BY <1>1, RollKeeps
<1> HIDE DEF r
<1>3. /\ \A j \in DOMAIN granted : DayOf(granted[j].at) <= DayOf(now)
      /\ Cardinality(GrantedOn(DayOf(now))) = r.count
  <2>1. CASE limiter.day = None
    <3>1. DOMAIN granted = {}
      BY <1>1, <2>1, GrantsAreFinite DEF DayInv
    <3>2. GrantedOn(DayOf(now)) = {} /\ limiter.day # DayOf(now)
      <4>1. DayOf(now) \in Int
        BY <1>1, DayMonotonic
      <4> QED
        BY <2>1, <3>1, <4>1 DEF GrantedOn
    <3> QED
      BY <1>2, <3>1, <3>2, FS_EmptySet
  <2>2. CASE limiter.day = DayOf(now)
    <3>1. limiter.day # None
      BY <1>1, <2>2, DayMonotonic
    <3> QED
      BY <1>1, <1>2, <2>2, <3>1 DEF DayInv
  <2>3. CASE limiter.day # None /\ limiter.day # DayOf(now)
    <3>1. /\ limiter.day \in Int /\ DayOf(now) \in Int
          /\ limiter.day < DayOf(now)
      <4>1. limiter.day \in Int /\ DayOf(now) \in Int /\ limiter.day <= DayOf(now)
        BY <1>1, <2>3, DayMonotonic DEF DayInv, Limiter
      <4> QED
        BY <2>3, <4>1
    <3>2. \A j \in DOMAIN granted : DayOf(granted[j].at) \in Int /\ DayOf(granted[j].at) < DayOf(now)
      <4>1. ASSUME NEW j \in DOMAIN granted PROVE DayOf(granted[j].at) \in Int
        <5>1. granted[j].at \in Nat
          BY <1>1, GrantsAreFinite
        <5> QED
          BY <5>1, DayMonotonic
      <4> QED
        BY <1>1, <2>3, <3>1, <4>1 DEF DayInv
    <3>3. GrantedOn(DayOf(now)) = {}
      BY <3>1, <3>2 DEF GrantedOn
    <3> QED
      BY <1>2, <2>3, <3>1, <3>2, <3>3, FS_EmptySet
  <2> QED
    BY <2>1, <2>2, <2>3
<1>4. \A c \in Clients, t \in Nat : t >= now =>
        Cardinality(GrantedWithin(c, t)) <= Cardinality(Within(r.recent[c], t))
  BY <1>1, <1>2 DEF WindowInv
<1> QED
  BY <1>2, <1>3, <1>4 DEF LimiterFits, r

\* Pruning a deque: what leaves it has left the window for good.
LEMMA TakenFits ==
    ASSUME TypeOK, NEW l, LimiterFits(l), NEW c \in Clients
    PROVE  /\ LimiterFits(Taken(l, c, now))
           /\ Taken(l, c, now).count = l.count /\ c \in Taken(l, c, now).known
<1> DEFINE s == Taken(l, c, now)
<1>1. l \in Limiter /\ now \in Nat /\ l.recent[c] \in Seq(Nat)
  BY DEF LimiterFits, TypeOK, Limiter
<1>2. Pruned(l.recent[c], now) \in Seq(Nat)
  <2>1. now <= now
    BY <1>1
  <2> QED
    BY <1>1, <2>1, PrunedKeepsWindow
<1>3. /\ s \in Limiter /\ s.day = l.day /\ s.count = l.count
      /\ s.known = l.known \cup {c}
      /\ s.recent = [l.recent EXCEPT ![c] = Pruned(l.recent[c], now)]
  BY <1>1, <1>2 DEF Taken, Limiter
<1> HIDE DEF s
<1>4. KnownHold(s)
  BY <1>1, <1>3 DEF KnownHold, LimiterFits, Limiter
<1>5. ASSUME NEW d \in Clients, NEW t \in Nat, t >= now
      PROVE  Cardinality(GrantedWithin(d, t)) <= Cardinality(Within(s.recent[d], t))
  <2>1. Cardinality(GrantedWithin(d, t)) <= Cardinality(Within(l.recent[d], t))
    BY <1>5 DEF LimiterFits
  <2>2. CASE d # c
    BY <1>1, <1>3, <2>1, <2>2 DEF Limiter
  <2>3. CASE d = c
    <3>1. /\ Cardinality(Within(l.recent[c], t)) <= Cardinality(Within(Pruned(l.recent[c], now), t))
          /\ IsFiniteSet(Within(Pruned(l.recent[c], now), t))
      BY <1>1, <1>5, PrunedKeepsWindow
    <3>2. s.recent[c] = Pruned(l.recent[c], now)
      BY <1>1, <1>3 DEF Limiter
    <3>3. /\ Cardinality(GrantedWithin(d, t)) \in Nat
          /\ Cardinality(Within(l.recent[c], t)) \in Nat
          /\ Cardinality(Within(s.recent[c], t)) \in Nat
      BY <1>1, <3>1, <3>2, GrantsAreFinite, WithinLength, FS_CardinalityType
    <3> QED
      BY <2>1, <2>3, <3>1, <3>2, <3>3
  <2> QED
    BY <2>2, <2>3
<1> QED
  BY <1>3, <1>4, <1>5 DEF LimiterFits, s

\* A limiter that fits is one the invariant speaks of.
LEMMA FitsKeeps ==
    ASSUME TypeOK, NEW l, LimiterFits(l), limiter' = l, UNCHANGED <<granted, now>>
    PROVE  DayInv' /\ WindowInv' /\ limiter' \in Limiter
<1>1. DayOf(now) \in Int /\ DayOf(now) <= DayOf(now)
  BY DayMonotonic DEF TypeOK
<1>2. limiter'.day = DayOf(now) /\ limiter'.count = l.count
  BY DEF LimiterFits
<1>3. DayOf(now)' = DayOf(now) /\ (GrantedOn(limiter.day))' = GrantedOn(DayOf(now))
  BY <1>2 DEF DayOf, GrantedOn
<1>4. \A j \in DOMAIN granted' : DayOf(granted[j].at)' <= limiter'.day
  BY <1>2 DEF LimiterFits, DayOf
<1>5. Cardinality((GrantedOn(limiter.day))') = limiter'.count
  BY <1>2, <1>3 DEF LimiterFits
<1>6. DayInv'
  BY <1>1, <1>2, <1>3, <1>4, <1>5 DEF DayInv
<1>7. WindowInv'
  BY DEF LimiterFits, WindowInv, GrantedWithin
<1> QED
  BY <1>6, <1>7 DEF LimiterFits

-----------------------------------------------------------------------------
(* One more request is let through. *)

LetThrough(c) == granted' = Append(granted, [client |-> c, at |-> now])

\* It is the last of the requests and leaves the others where they were.
LEMMA GrantAppends ==
    ASSUME TypeOK, NEW c \in Clients, LetThrough(c)
    PROVE  LET last == Len(granted) + 1
           IN /\ granted' \in Seq([client : Clients, at : 0 .. MaxTime])
              /\ last \notin DOMAIN granted
              /\ DOMAIN granted' = DOMAIN granted \cup {last}
              /\ granted'[last].client = c /\ granted'[last].at = now
              /\ \A j \in DOMAIN granted : granted'[j] = granted[j]
<1> DEFINE e == [client |-> c, at |-> now]
<1>1. granted \in Seq([client : Clients, at : 0 .. MaxTime]) /\ e \in [client : Clients, at : 0 .. MaxTime]
  BY DEF TypeOK
<1>2. /\ granted' \in Seq([client : Clients, at : 0 .. MaxTime])
      /\ Len(granted') = Len(granted) + 1
      /\ granted'[Len(granted) + 1] = e
      /\ \A j \in 1 .. Len(granted) : granted'[j] = granted[j]
  BY <1>1, AppendProperties DEF LetThrough
<1>3. /\ Len(granted) \in Nat /\ DOMAIN granted = 1 .. Len(granted)
      /\ DOMAIN granted' = 1 .. Len(granted) + 1
  BY <1>1, <1>2, LenProperties
<1> QED
  BY <1>2, <1>3

\* It counts on its own day, and within the window of its own client.
LEMMA GrantCounts ==
    ASSUME TypeOK, NEW c \in Clients, LetThrough(c)
    PROVE  LET last == Len(granted) + 1
           IN /\ \A d : GrantedOn(d)' = IF d = DayOf(now) THEN GrantedOn(d) \cup {last}
                                        ELSE GrantedOn(d)
              /\ Cardinality(GrantedOn(DayOf(now)) \cup {last})
                   = Cardinality(GrantedOn(DayOf(now))) + 1
              /\ \A d, t : GrantedWithin(d, t)' =
                             IF d = c /\ t - now < Window THEN GrantedWithin(d, t) \cup {last}
                             ELSE GrantedWithin(d, t)
              /\ \A d, t : Cardinality(GrantedWithin(d, t) \cup {last})
                             = Cardinality(GrantedWithin(d, t)) + 1
<1> DEFINE last == Len(granted) + 1
<1>1. /\ last \notin DOMAIN granted /\ DOMAIN granted' = DOMAIN granted \cup {last}
      /\ granted'[last].client = c /\ granted'[last].at = now
      /\ \A j \in DOMAIN granted : granted'[j] = granted[j]
  BY GrantAppends
<1> HIDE DEF last
<1>2. ASSUME NEW d PROVE GrantedOn(d)' = IF d = DayOf(now) THEN GrantedOn(d) \cup {last}
                                         ELSE GrantedOn(d)
  BY <1>1 DEF GrantedOn, DayOf
<1>3. ASSUME NEW d, NEW t
      PROVE  GrantedWithin(d, t)' = IF d = c /\ t - now < Window
                                    THEN GrantedWithin(d, t) \cup {last}
                                    ELSE GrantedWithin(d, t)
  BY <1>1 DEF GrantedWithin
<1>4. ASSUME NEW d PROVE last \notin GrantedOn(d) /\ IsFiniteSet(GrantedOn(d))
  BY <1>1, GrantsAreFinite DEF GrantedOn
<1>5. ASSUME NEW d, NEW t PROVE last \notin GrantedWithin(d, t) /\ IsFiniteSet(GrantedWithin(d, t))
  <2>1. last \notin GrantedWithin(d, t)
    BY <1>1 DEF GrantedWithin
  <2> QED
    BY <2>1, GrantsAreFinite
<1>6. Cardinality(GrantedOn(DayOf(now)) \cup {last}) = Cardinality(GrantedOn(DayOf(now))) + 1
  BY <1>4, FS_AddElement
<1>7. \A d, t : Cardinality(GrantedWithin(d, t) \cup {last}) = Cardinality(GrantedWithin(d, t)) + 1
  BY <1>5, FS_AddElement
<1> QED
  BY <1>2, <1>3, <1>6, <1>7 DEF last

\* Its entry at the end of the deque is inside the window as long as it is.
LEMMA AppendedWithin ==
    ASSUME NEW q \in Seq(Nat), NEW s \in Nat, NEW t \in Nat
    PROVE  /\ Append(q, s) \in Seq(Nat)
           /\ Cardinality(Within(Append(q, s), t)) =
                Cardinality(Within(q, t)) + (IF t - s < Window THEN 1 ELSE 0)
<1> DEFINE r == Append(q, s)
           last == Len(q) + 1
<1>1. /\ r \in Seq(Nat) /\ Len(r) = last /\ r[last] = s
      /\ \A i \in 1 .. Len(q) : r[i] = q[i]
  BY AppendProperties
<1>2. Len(q) \in Nat /\ 1 .. last = 1 .. Len(q) \cup {last} /\ last \notin 1 .. Len(q)
  BY LenProperties
<1> HIDE DEF r, last
<1>3. Within(r, t) = IF t - s < Window THEN Within(q, t) \cup {last} ELSE Within(q, t)
  BY <1>1, <1>2 DEF Within
<1>4. last \notin Within(q, t) /\ IsFiniteSet(Within(q, t)) /\ Cardinality(Within(q, t)) \in Nat
  BY <1>2, WithinLength DEF Within
<1>5. Cardinality(Within(q, t) \cup {last}) = Cardinality(Within(q, t)) + 1
  BY <1>4, FS_AddElement
<1> QED
  BY <1>1, <1>3, <1>4, <1>5 DEF r

\* The limiter still fits when the request is in the deque and counted.
LEMMA GrantKeeps ==
    ASSUME TypeOK, NEW l, LimiterFits(l), NEW c \in l.known, c \in Clients, LetThrough(c),
           limiter' = Counted(Appended(l, c, now)), UNCHANGED now
    PROVE  DayInv' /\ WindowInv' /\ limiter' \in Limiter
<1> DEFINE last == Len(granted) + 1
<1>1. l \in Limiter /\ now \in Nat /\ l.recent[c] \in Seq(Nat) /\ l.count \in Nat
  BY DEF LimiterFits, TypeOK, Limiter
<1>2. Append(l.recent[c], now) \in Seq(Nat)
  BY <1>1, AppendedWithin
<1>3. /\ limiter' \in Limiter /\ limiter'.day = l.day /\ limiter'.count = l.count + 1
      /\ limiter'.known = l.known
      /\ limiter'.recent = [l.recent EXCEPT ![c] = Append(l.recent[c], now)]
  <2> DEFINE a == Appended(l, c, now)
  <2>1. /\ a \in Limiter /\ a.day = l.day /\ a.count = l.count /\ a.known = l.known
        /\ a.recent = [l.recent EXCEPT ![c] = Append(l.recent[c], now)]
    BY <1>1, <1>2 DEF Appended, Limiter
  <2>2. limiter' = Counted(a)
    OBVIOUS
  <2> HIDE DEF a
  <2>3. /\ Counted(a) \in Limiter /\ Counted(a).day = a.day /\ Counted(a).count = a.count + 1
        /\ Counted(a).known = a.known /\ Counted(a).recent = a.recent
    <3>1. a.count \in Nat /\ a.count + 1 \in Nat
      BY <2>1 DEF Limiter
    <3> QED
      BY <2>1, <3>1 DEF Counted, Limiter
  <2> QED
    BY <2>1, <2>2, <2>3
<1>4. DayOf(now) \in Int /\ DayOf(now) <= DayOf(now) /\ DayOf(now)' = DayOf(now)
  BY <1>1, DayMonotonic DEF DayOf
<1>5. DayInv'
  <2>1. l.day = DayOf(now) /\ Cardinality(GrantedOn(l.day)) = l.count
    BY DEF LimiterFits
  <2>2. (GrantedOn(limiter.day))' = GrantedOn(DayOf(now)) \cup {last}
    <3>1. \A d : GrantedOn(d)' = IF d = DayOf(now) THEN GrantedOn(d) \cup {last} ELSE GrantedOn(d)
      BY GrantCounts
    <3>2. GrantedOn(DayOf(now))' = GrantedOn(DayOf(now)) \cup {last}
      BY <3>1, <1>4 DEF GrantedOn
    <3> QED
      BY <1>3, <2>1, <3>2, <1>4 DEF GrantedOn
  <2>3. Cardinality((GrantedOn(limiter.day))') = limiter'.count
    BY <1>3, <2>1, <2>2, GrantCounts
  <2>4. \A j \in DOMAIN granted' : DayOf(granted[j].at)' <= limiter'.day
    BY <1>3, <1>4, <2>1, GrantAppends DEF LimiterFits, DayOf
  <2> QED
    BY <1>3, <1>4, <2>1, <2>3, <2>4 DEF DayInv
<1>6. KnownHold(limiter')
  <2>1. \A d \in Clients : d # c => limiter'.recent[d] = l.recent[d]
    BY <1>1, <1>3 DEF Limiter
  <2> QED
    BY <1>3, <2>1 DEF KnownHold, LimiterFits
<1>7. ASSUME NEW d \in Clients, NEW t \in Nat, t >= now
      PROVE  Cardinality(GrantedWithin(d, t)') <= Cardinality(Within(limiter'.recent[d], t))
  <2>1. Cardinality(GrantedWithin(d, t)) <= Cardinality(Within(l.recent[d], t))
    BY <1>7 DEF LimiterFits
  <2>2. CASE d # c
    <3>1. limiter'.recent[d] = l.recent[d]
      BY <1>1, <1>3, <2>2 DEF Limiter
    <3> QED
      BY <2>1, <2>2, <3>1, GrantCounts
  <2>3. CASE d = c
    <3>1. /\ limiter'.recent[d] = Append(l.recent[c], now)
          /\ Cardinality(Within(limiter'.recent[d], t)) =
               Cardinality(Within(l.recent[c], t)) + (IF t - now < Window THEN 1 ELSE 0)
      BY <1>1, <1>3, <2>3, AppendedWithin DEF Limiter
    <3>2. /\ Cardinality(GrantedWithin(d, t)) \in Nat
          /\ Cardinality(Within(l.recent[c], t)) \in Nat
      BY <1>1, GrantsAreFinite, WithinLength
    <3>3. Cardinality(GrantedWithin(d, t)') =
            Cardinality(GrantedWithin(d, t)) + (IF t - now < Window THEN 1 ELSE 0)
      BY <2>3, <3>2, GrantCounts
    <3> QED
      BY <2>1, <2>3, <3>1, <3>2, <3>3
  <2> QED
    BY <2>2, <2>3
<1>8. WindowInv'
  BY <1>6, <1>7 DEF WindowInv, KnownHold
<1> QED
  BY <1>3, <1>5, <1>8

\* And the budgets are kept: neither the day nor the client had used its own up.
LEMMA GrantInBudget ==
    ASSUME TypeOK, BudgetsHold, NEW l, LimiterFits(l), NEW c \in Clients, LetThrough(c),
           ~DayExhausted(l), ~ClientExhausted(l, c)
    PROVE  BudgetsHold'
<1> DEFINE last == Len(granted) + 1
           Before(i) == {j \in 1 .. i : /\ granted[j].client = granted[i].client
                                        /\ granted[i].at - granted[j].at < Window}
<1>1. l \in Limiter /\ now \in Nat /\ l.recent[c] \in Seq(Nat) /\ l.count \in Nat
  BY DEF LimiterFits, TypeOK, Limiter
<1>2. /\ last \notin DOMAIN granted /\ DOMAIN granted' = DOMAIN granted \cup {last}
      /\ granted'[last].client = c /\ granted'[last].at = now
      /\ \A j \in DOMAIN granted : granted'[j] = granted[j]
      /\ Len(granted) \in Nat /\ DOMAIN granted = 1 .. Len(granted)
  BY GrantAppends, GrantsAreFinite
<1>4. ASSUME NEW i \in DOMAIN granted', NEW d, d = DayOf(granted'[i].at)
      PROVE  Cardinality(GrantedOn(d)') <= ReportsPerDay
  <2>1. CASE d = DayOf(now)
    <3>1. Cardinality(GrantedOn(DayOf(now))) = l.count /\ l.count < ReportsPerDay
      BY <1>1 DEF LimiterFits, DayExhausted
    <3>2. GrantedOn(d)' = GrantedOn(DayOf(now)) \cup {last}
      BY <2>1, GrantCounts
    <3>3. Cardinality(GrantedOn(d)') = l.count + 1
      BY <3>1, <3>2, GrantCounts
    <3> QED
      BY <1>1, <3>1, <3>3
  <2>2. CASE d # DayOf(now)
    <3>1. i \in DOMAIN granted /\ granted'[i] = granted[i]
      BY <1>2, <1>4, <2>2
    <3>2. Cardinality(GrantedOn(d)) <= ReportsPerDay
      BY <1>4, <3>1 DEF BudgetsHold, GrantedOn
    <3> QED
      BY <2>2, <3>2, GrantCounts
  <2> QED
    BY <2>1, <2>2
<1>5. ASSUME NEW i \in DOMAIN granted'
      PROVE  Cardinality(Before(i)') <= ReportsPerClient
  <2>1. CASE i \in DOMAIN granted
    <3>1. 1 .. i \subseteq DOMAIN granted /\ i \in 1 .. i
      BY <1>2, <2>1
    <3>2. Before(i)' = Before(i)
      BY <1>2, <3>1
    <3> QED
      BY <2>1, <3>2 DEF BudgetsHold
  <2>2. CASE i = last
    <3>1. Before(i)' \subseteq GrantedWithin(c, now) \cup {last}
      <4>1. ASSUME NEW j \in Before(i)', j # last PROVE j \in GrantedWithin(c, now)
        <5>1. j \in 1 .. i /\ granted'[j].client = c /\ now - granted'[j].at < Window
          BY <1>2, <2>2
        <5>2. j \in DOMAIN granted
          BY <1>2, <2>2, <4>1, <5>1
        <5> QED
          BY <1>2, <5>1, <5>2 DEF GrantedWithin
      <4> QED
        BY <4>1
    <3>2. /\ IsFiniteSet(GrantedWithin(c, now) \cup {last})
          /\ Cardinality(GrantedWithin(c, now) \cup {last}) = Cardinality(GrantedWithin(c, now)) + 1
          /\ Cardinality(GrantedWithin(c, now)) \in Nat
      BY GrantsAreFinite, GrantCounts, FS_AddElement
    <3>3. /\ Cardinality(Before(i)') <= Cardinality(GrantedWithin(c, now)) + 1
          /\ Cardinality(Before(i)') \in Nat
      BY <3>1, <3>2, FS_Subset, FS_CardinalityType
    <3>4. /\ Cardinality(GrantedWithin(c, now)) <= Cardinality(Within(l.recent[c], now))
          /\ Cardinality(Within(l.recent[c], now)) <= Len(l.recent[c])
          /\ Cardinality(Within(l.recent[c], now)) \in Nat
      BY <1>1, WithinLength DEF LimiterFits
    <3>5. Len(l.recent[c]) < ReportsPerClient /\ Len(l.recent[c]) \in Nat
      BY <1>1, LenProperties DEF ClientExhausted
    <3> QED
      BY <3>2, <3>3, <3>4, <3>5
  <2> QED
    BY <1>2, <2>1, <2>2
<1>6. ASSUME NEW i \in DOMAIN granted'
      PROVE  Cardinality({j \in DOMAIN granted' : DayOf(granted'[j].at) = DayOf(granted'[i].at)})
               <= ReportsPerDay
  <2>1. PICK d : d = DayOf(granted'[i].at)
    OBVIOUS
  <2>2. GrantedOn(d)' = {j \in DOMAIN granted' : DayOf(granted'[j].at) = d}
    BY DEF GrantedOn, DayOf
  <2> QED
    BY <1>4, <2>1, <2>2
<1> QED
  BY <1>5, <1>6 DEF BudgetsHold, DayOf

\* A report that arrives leaves the limiter with all it has let through.
LEMMA ArriveBudget ==
    ASSUME IntakeIInv, NEW p \in Reports, Arrive(p)
    PROVE  TypeOK' /\ BudgetsHold' /\ DayInv' /\ WindowInv'
<1>1. TypeOK /\ BudgetsHold
  BY DEF IntakeIInv, IntakeInv
<1>2. PICK c \in Clients, upload \in Uploads :
        LET rolled == RollDay(limiter, now)
            taken == Taken(rolled, c, now)
        IN \/ /\ DayExhausted(rolled)
              /\ limiter' = rolled
              /\ Goto(p, "limited")
              /\ UNCHANGED granted
           \/ /\ ~DayExhausted(rolled) /\ ClientExhausted(taken, c)
              /\ limiter' = taken
              /\ Goto(p, "limited")
              /\ UNCHANGED granted
           \/ /\ ~DayExhausted(rolled) /\ ~ClientExhausted(taken, c)
              /\ limiter' = Counted(Appended(taken, c, now))
              /\ granted' = Append(granted, [client |-> c, at |-> now])
              /\ task' = [task EXCEPT ![p] = [at |-> FirstUpload, upload |-> upload,
                                              photo |-> 0]]
  BY DEF Arrive
<1>3. UNCHANGED <<files, cases, now>>
  BY DEF Arrive
<1> DEFINE rolled == RollDay(limiter, now)
           taken == Taken(rolled, c, now)
<1>4. LimiterFits(rolled)
  BY RolledFits
<1> HIDE DEF rolled
<1>5. LimiterFits(taken) /\ taken.count = rolled.count /\ c \in taken.known
  BY <1>1, <1>4, TakenFits
<1> HIDE DEF taken
<1>6. CASE /\ limiter' = rolled \/ limiter' = taken
           /\ Goto(p, "limited") /\ UNCHANGED granted
  <2>1. DayInv' /\ WindowInv' /\ limiter' \in Limiter
    BY <1>1, <1>3, <1>4, <1>5, <1>6, FitsKeeps
  <2>2. /\ task' \in [Reports -> Task]
        /\ \A q \in Reports : task'[q].at \in Uploading \cup {"accepted"}
             => task'[q].upload \in Uploads
    BY <1>1, <1>6, Moves DEF Uploading, Waiting, Holding, Answered
  <2>3. TypeOK'
    BY <1>1, <1>3, <1>6, <2>1, <2>2 DEF TypeOK
  <2>4. BudgetsHold'
    BY <1>1, <1>6 DEF BudgetsHold, DayOf
  <2> QED
    BY <2>1, <2>3, <2>4
<1>7. CASE /\ ~DayExhausted(rolled) /\ ~ClientExhausted(taken, c)
           /\ limiter' = Counted(Appended(taken, c, now))
           /\ granted' = Append(granted, [client |-> c, at |-> now])
           /\ task' = [task EXCEPT ![p] = [at |-> FirstUpload, upload |-> upload, photo |-> 0]]
  <2>1. LetThrough(c) /\ ~DayExhausted(taken)
    BY <1>5, <1>7 DEF LetThrough, DayExhausted
  <2>2. DayInv' /\ WindowInv' /\ limiter' \in Limiter
    BY <1>1, <1>3, <1>5, <1>7, <2>1, GrantKeeps
  <2>3. BudgetsHold'
    BY <1>1, <1>5, <1>7, <2>1, GrantInBudget
  <2>4. /\ task' \in [Reports -> Task]
        /\ \A q \in Reports : task'[q].at \in Uploading \cup {"accepted"}
             => task'[q].upload \in Uploads
    BY <1>1, <1>7, Starts
  <2>5. granted' \in Seq([client : Clients, at : 0 .. MaxTime])
    BY <1>1, <2>1, GrantAppends
  <2>6. TypeOK'
    BY <1>1, <1>3, <2>2, <2>4, <2>5 DEF TypeOK
  <2> QED
    BY <2>2, <2>3, <2>6
<1> QED
  BY <1>2, <1>6, <1>7 DEF rolled, taken

\* A restart forgets what was counted together with who it was counted for.
LEMMA RestartBudget ==
    ASSUME IntakeIInv, Restart
    PROVE  TypeOK' /\ BudgetsHold' /\ DayInv' /\ WindowInv'
<1>1. TypeOK
  BY DEF IntakeIInv, IntakeInv
<1>2. /\ limiter' = Fresh /\ granted' = <<>> /\ UNCHANGED <<files, cases, now>>
      /\ \A p \in Reports : task'[p] = IF task[p].at \in Uploading
                                       THEN [task[p] EXCEPT !.at = "lost"] ELSE task[p]
      /\ DOMAIN task' = Reports
  BY DEF Restart
<1>3. /\ Fresh \in Limiter /\ Fresh.day = None /\ Fresh.known = {}
      /\ \A c \in Clients : Fresh.recent[c] = <<>>
  BY EmptySeq DEF Fresh, Limiter
<1>4. /\ granted' \in Seq([client : Clients, at : 0 .. MaxTime])
      /\ DOMAIN granted' = {}
  BY <1>2, EmptySeq
<1>5. ASSUME NEW p \in Reports
      PROVE  /\ task'[p] \in Task
             /\ task'[p].at \in Uploading \cup {"accepted"} => task'[p].upload \in Uploads
  <2>1. task[p] \in Task /\ (task[p].at \in Uploading \cup {"accepted"} => task[p].upload \in Uploads)
    BY <1>1 DEF TypeOK
  <2>2. CASE task[p].at \in Uploading
    <3>1. [task[p] EXCEPT !.at = "lost"] \in Task /\ task'[p].at = "lost"
      BY <1>2, <2>1, <2>2 DEF Task
    <3> QED
      BY <1>2, <2>2, <3>1 DEF Uploading, Waiting, Holding
  <2>3. CASE task[p].at \notin Uploading
    BY <1>2, <2>1, <2>3
  <2> QED
    BY <2>2, <2>3
<1>6. task' \in [Reports -> Task]
  BY <1>5 DEF Restart
<1>7. TypeOK'
  BY <1>1, <1>2, <1>3, <1>4, <1>5, <1>6 DEF TypeOK
<1>8. BudgetsHold'
  BY <1>4 DEF BudgetsHold
<1>9. DayInv'
  BY <1>2, <1>3 DEF DayInv
<1>10. WindowInv'
  <2>1. ASSUME NEW c, NEW t PROVE GrantedWithin(c, t)' = {}
    BY <1>4 DEF GrantedWithin
  <2>2. ASSUME NEW c \in Clients, NEW t \in Nat
        PROVE  Cardinality(GrantedWithin(c, t)') <= Cardinality(Within(limiter'.recent[c], t))
    <3>1. Cardinality(GrantedWithin(c, t)') = 0
      BY <2>1, FS_EmptySet
    <3>2. limiter'.recent[c] \in Seq(Nat)
      BY <1>2, <1>3, EmptySeq
    <3> QED
      BY <3>1, <3>2, WithinLength
  <2>3. KnownHold(limiter')
    BY <1>2, <1>3 DEF KnownHold
  <2> QED
    BY <2>2, <2>3 DEF WindowInv, KnownHold
<1> QED
  BY <1>7, <1>8, <1>9, <1>10

\* A tick moves every window on, and may begin a day.
LEMMA TickBudget ==
    ASSUME IntakeIInv, Tick
    PROVE  TypeOK' /\ BudgetsHold' /\ DayInv' /\ WindowInv'
<1>1. /\ TypeOK /\ BudgetsHold /\ DayInv /\ WindowInv /\ now \in Nat
      /\ limiter.day \in Int \cup {None}
  BY DEF IntakeIInv, IntakeInv, TypeOK, Limiter
<1>2. /\ now' = now + 1 /\ now' \in 0 .. MaxTime
      /\ UNCHANGED <<limiter, task, files, cases, granted>>
  BY <1>1 DEF Tick
<1>3. TypeOK'
  BY <1>1, <1>2 DEF TypeOK
<1>4. BudgetsHold'
  BY <1>1, <1>2 DEF BudgetsHold, DayOf
<1>5. DayOf(now)' \in Int /\ DayOf(now) \in Int /\ DayOf(now) <= DayOf(now)'
  <2>1. DayOf(now)' = DayOf(now')
    BY DEF DayOf
  <2> QED
    BY <1>1, <1>2, <2>1, DayMonotonic
<1>6. DayInv'
  <2>1. limiter.day # None => limiter.day <= DayOf(now)'
    BY <1>1, <1>5 DEF DayInv
  <2>2. (GrantedOn(limiter.day))' = GrantedOn(limiter.day)
    BY <1>2 DEF GrantedOn, DayOf
  <2>3. \A j \in DOMAIN granted' : DayOf(granted[j].at)' = DayOf(granted[j].at)
    BY <1>2 DEF DayOf
  <2> QED
    BY <1>1, <1>2, <2>1, <2>2, <2>3 DEF DayInv
<1>7. WindowInv'
  <2>1. \A t \in Nat : t >= now' => t >= now
    BY <1>1, <1>2
  <2> QED
    BY <1>1, <1>2, <2>1 DEF WindowInv, GrantedWithin
<1> QED
  BY <1>3, <1>4, <1>6, <1>7

-----------------------------------------------------------------------------
(* The theorems. *)

\* The process starts with nothing counted and nothing on disk.
LEMMA IntakeInitially == Init => IntakeIInv
<1> SUFFICES ASSUME Init PROVE IntakeIInv
  OBVIOUS
<1>1. /\ limiter = Fresh /\ files = {} /\ cases = {} /\ granted = <<>> /\ now = 0
      /\ task \in [Reports -> Task] /\ \A p \in Reports : task[p] = Idle
  BY DEF Init, Idle, Task
<1>2. /\ Fresh \in Limiter /\ Fresh.day = None /\ Fresh.known = {}
      /\ \A c \in Clients : Fresh.recent[c] = <<>>
  BY EmptySeq DEF Fresh, Limiter
<1>3. granted \in Seq([client : Clients, at : 0 .. MaxTime]) /\ DOMAIN granted = {}
  BY <1>1, EmptySeq
<1>4. TypeOK
  BY <1>1, <1>2, <1>3 DEF TypeOK, Idle, Uploading, Waiting, Holding
<1>5. BudgetsHold
  BY <1>3 DEF BudgetsHold
<1>6. UploadsInv
  BY <1>1 DEF UploadsInv, FilesInv, Idle, PastVoice, PastPhotos, PastNote
<1>7. DayInv
  BY <1>1, <1>2 DEF DayInv
<1>8. WindowInv
  <2>1. ASSUME NEW c \in Clients, NEW t \in Nat
        PROVE  Cardinality(GrantedWithin(c, t)) <= Cardinality(Within(limiter.recent[c], t))
    <3>1. GrantedWithin(c, t) = {}
      BY <1>3 DEF GrantedWithin
    <3>2. limiter.recent[c] \in Seq(Nat)
      BY <1>1, <1>2, EmptySeq
    <3> QED
      BY <3>1, <3>2, FS_EmptySet, WithinLength
  <2> QED
    BY <1>1, <1>2, <2>1 DEF WindowInv, KnownHold
<1> QED
  BY <1>4, <1>5, <1>6, <1>7, <1>8 DEF IntakeIInv, IntakeInv

\* Every step of the intake keeps the budgets and the account of the disk.
LEMMA IntakeStep == IntakeIInv /\ [Next]_vars => IntakeIInv'
<1> SUFFICES ASSUME IntakeIInv, [Next]_vars PROVE IntakeIInv'
  OBVIOUS
<1>1. TypeOK /\ BudgetsHold /\ UploadsInv /\ DayInv /\ WindowInv
  BY DEF IntakeIInv, IntakeInv
<1>2. ASSUME NEW p \in Reports, TurnAway(p) PROVE IntakeIInv'
  <2>1. UploadsInv'
    BY <1>1, <1>2, ArriveUploads
  <2>2. UNCHANGED <<limiter, files, cases, granted, now>> /\ Goto(p, "refused")
    BY <1>2 DEF TurnAway
  <2>3. /\ task' \in [Reports -> Task]
        /\ \A q \in Reports : task'[q].at \in Uploading \cup {"accepted"}
             => task'[q].upload \in Uploads
    BY <1>1, <2>2, Moves DEF Uploading, Waiting, Holding, Answered
  <2>4. TypeOK'
    BY <1>1, <2>2, <2>3 DEF TypeOK
  <2>5. BudgetsHold' /\ DayInv' /\ WindowInv'
    BY <1>1, <2>2 DEF BudgetsHold, DayInv, WindowInv, GrantedOn, GrantedWithin, DayOf
  <2> QED
    BY <2>1, <2>4, <2>5 DEF IntakeIInv, IntakeInv
<1>3. ASSUME NEW p \in Reports, Arrive(p) PROVE IntakeIInv'
  BY <1>1, <1>3, ArriveUploads, ArriveBudget DEF IntakeIInv, IntakeInv
<1>4. ASSUME NEW p \in Reports, Step(p) PROVE IntakeIInv'
  <2>1. UNCHANGED <<limiter, granted, now>>
    BY <1>4 DEF Step, ReadVoice, ReadPhoto, StoreVoice, SaveCase
  <2>2. BudgetsHold' /\ DayInv' /\ WindowInv'
    BY <1>1, <2>1 DEF BudgetsHold, DayInv, WindowInv, GrantedOn, GrantedWithin, DayOf
  <2> QED
    BY <1>1, <1>4, <2>2, StepType, StepUploads DEF IntakeIInv, IntakeInv
<1>5. CASE Restart
  BY <1>1, <1>5, RestartUploads, RestartBudget DEF IntakeIInv, IntakeInv
<1>6. CASE Tick
  <2>1. UploadsInv'
    BY <1>1, <1>6 DEF Tick, UploadsInv, FilesInv
  <2> QED
    BY <1>6, <2>1, TickBudget DEF IntakeIInv, IntakeInv
<1>7. CASE UNCHANGED vars
  <2>1. UNCHANGED <<limiter, task, files, cases, granted, now>>
    BY <1>7 DEF vars
  <2>2. TypeOK'
    BY <1>1, <2>1 DEF TypeOK
  <2>3. UploadsInv'
    BY <1>1, <2>1 DEF UploadsInv, FilesInv
  <2>4. BudgetsHold' /\ DayInv' /\ WindowInv'
    BY <1>1, <2>1 DEF BudgetsHold, DayInv, WindowInv, GrantedOn, GrantedWithin, DayOf
  <2> QED
    BY <2>2, <2>3, <2>4 DEF IntakeIInv, IntakeInv
<1> QED
  BY <1>2, <1>3, <1>4, <1>5, <1>6, <1>7 DEF Next

\* enforce and submit_report: whatever is uploaded, and whenever the process is
\* started again, the counters and the disk agree with what was let through.
THEOREM IntakeInductive == Spec => []IntakeIInv
<1>1. Init => IntakeIInv
  BY IntakeInitially
<1>2. IntakeIInv /\ [Next]_vars => IntakeIInv'
  BY IntakeStep
<1> QED
  BY <1>1, <1>2, PTL DEF Spec

\* RateLimiter.enforce: no more reports in a UTC day than the instance may accept,
\* and no more from one client inside a window than it may send, days or no days.
THEOREM BudgetsAreKept == Spec => []IntakeInv
<1>1. IntakeIInv => IntakeInv
  BY DEF IntakeIInv
<1> QED
  BY <1>1, IntakeInductive, PTL

\* submit_report: a stored case has every file of its report, and a refused voice
\* note has left none.
THEOREM DiskIsAccountedFor == Spec => []UploadsAccountedFor
<1>1. IntakeIInv => UploadsAccountedFor
  <2> SUFFICES ASSUME IntakeIInv PROVE UploadsAccountedFor
    OBVIOUS
  <2>1. TypeOK /\ UploadsInv
    BY DEF IntakeIInv, IntakeInv
  <2>2. ASSUME NEW p \in cases
        PROVE  /\ \A i \in DOMAIN task[p].upload.photos : <<p, i>> \in files
               /\ task[p].upload.voice # "none" => <<p, 0>> \in files
    <3>1. p \in Reports /\ FilesInv(p)
      BY <2>1 DEF UploadsInv, TypeOK
    <3>2. task[p].at = "accepted" /\ task[p].upload \in Uploads /\ task[p].photo \in Nat
      BY <2>1, <3>1 DEF FilesInv, TypeOK, Task
    <3>3. task[p].upload.photos \in Seq({"good", "bad"})
      BY <3>2
    <3>4. /\ DOMAIN task[p].upload.photos = 1 .. Len(task[p].upload.photos)
          /\ Len(task[p].upload.photos) \in Nat
      BY <3>3, LenProperties
    <3> QED
      BY <3>1, <3>2, <3>4 DEF FilesInv, PastVoice, PastPhotos, PastNote
  <2>3. ASSUME NEW f \in files PROVE task[f[1]].upload.voice # "bad"
    <3>1. f \in Reports \X Nat
      BY <2>1 DEF TypeOK
    <3>2. PICK p \in Reports, i \in Nat : f = <<p, i>>
      BY <3>1
    <3> QED
      BY <2>1, <3>2 DEF UploadsInv, FilesInv
  <2> QED
    BY <2>2, <2>3 DEF UploadsAccountedFor, CaseHasItsFiles, RefusedVoiceLeavesNothing
<1> QED
  BY <1>1, IntakeInductive, PTL
=============================================================================
