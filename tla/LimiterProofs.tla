--------------------------- MODULE LimiterProofs ---------------------------
(***************************************************************************)
(* The budget of the server's threads, for every number of pool threads,   *)
(* every cap and window, and every length of a day: LimiterInv is          *)
(* inductive, and with it the day's cap is exceeded by at most one request *)
(* for each pool thread, and nobody is refused for the day too early.      *)
(***************************************************************************)
EXTENDS LimiterService, FiniteSetTheorems, SequenceTheorems, TLAPS

USE CapsAssumption, TimeAssumption, NoneAssumption, CallersAssumption, MaxTimeAssumption

-----------------------------------------------------------------------------
(* The calendar, and the limiter's own operations. *)

\* Later times have no earlier days.
LEMMA DayMonotonic ==
    ASSUME NEW s \in Nat, NEW t \in Nat, s <= t
    PROVE  DayOf(s) \in Nat /\ DayOf(t) \in Nat /\ DayOf(s) <= DayOf(t)
BY DEF DayOf

\* The days that occur are the days the model counts.
LEMMA DayCounted ==
    ASSUME NEW t \in 0 .. MaxTime
    PROVE  DayOf(t) \in Days /\ DayOf(t) \in Nat
BY DayMonotonic DEF Days

\* Pruning a deque leaves a deque.
LEMMA PrunedType ==
    ASSUME NEW q \in Seq(Nat), NEW t \in Nat
    PROVE  Pruned(q, t) \in Seq(Nat)
<1> DEFINE expired == {i \in 1 .. Len(q) : \A j \in 1 .. i : t - q[j] >= Window}
<1>1. Len(q) \in Nat
  BY LenProperties
<1>2. IsFiniteSet(1 .. Len(q))
  BY <1>1, FS_Interval
<1>3. Cardinality(expired) \in Nat
  BY <1>2, FS_Subset, FS_CardinalityType
<1>4. \A i \in Cardinality(expired) + 1 .. Len(q) : q[i] \in Nat
  BY <1>1, <1>3, ElementOfSeq
<1>5. SubSeq(q, Cardinality(expired) + 1, Len(q)) \in Seq(Nat)
  <2> HIDE DEF expired
  <2>1. Cardinality(expired) + 1 \in Int /\ Len(q) \in Int
    BY <1>1, <1>3
  <2> QED
    BY <2>1, <1>4, SubSeqProperties
<1> QED
  BY <1>5 DEF Pruned

\* What each piece of the limiter leaves of its day and of its count.
LEMMA LimiterOps ==
    ASSUME NEW l \in Limiter, NEW c \in Clients, NEW t \in Nat
    PROVE  /\ Rolled(l, t) \in Limiter
           /\ Rolled(l, t).day = DayOf(t) /\ Rolled(l, t).count = 0
           /\ Rebuilt(l) \in Limiter
           /\ Rebuilt(l).day = l.day /\ Rebuilt(l).count = l.count
           /\ Taken(l, c, t) \in Limiter
           /\ Taken(l, c, t).day = l.day /\ Taken(l, c, t).count = l.count
           /\ Appended(l, c, t) \in Limiter
           /\ Appended(l, c, t).day = l.day /\ Appended(l, c, t).count = l.count
           /\ Counted(l) \in Limiter
           /\ Counted(l).day = l.day /\ Counted(l).count = l.count + 1
<1>1. DayOf(t) \in Int
  BY DayMonotonic
<1>2. Pruned(l.recent[c], t) \in Seq(Nat)
  BY PrunedType DEF Limiter
<1>3. Append(l.recent[c], t) \in Seq(Nat)
  BY AppendProperties DEF Limiter
<1>4. <<>> \in Seq(Nat)
  BY EmptySeq
<1>5. Kept(l) \subseteq Clients
  BY DEF Kept, Limiter
<1>6. /\ Rolled(l, t) \in Limiter
      /\ Rolled(l, t).day = DayOf(t) /\ Rolled(l, t).count = 0
  BY <1>1 DEF Rolled, Limiter
<1>7. /\ Rebuilt(l) \in Limiter
      /\ Rebuilt(l).day = l.day /\ Rebuilt(l).count = l.count
  BY <1>4, <1>5 DEF Rebuilt, Limiter
<1>8. /\ Taken(l, c, t) \in Limiter
      /\ Taken(l, c, t).day = l.day /\ Taken(l, c, t).count = l.count
  BY <1>2 DEF Taken, Limiter
<1>9. /\ Appended(l, c, t) \in Limiter
      /\ Appended(l, c, t).day = l.day /\ Appended(l, c, t).count = l.count
  BY <1>3 DEF Appended, Limiter
<1>10. /\ Counted(l) \in Limiter
       /\ Counted(l).day = l.day /\ Counted(l).count = l.count + 1
  <2>1. l.count \in Nat /\ l.count + 1 \in Nat
    BY DEF Limiter
  <2>2. Counted(l) = [l EXCEPT !.count = l.count + 1]
    BY DEF Counted
  <2> QED
    BY <2>1, <2>2, Zenon DEF Limiter
<1> QED
  BY <1>6, <1>7, <1>8, <1>9, <1>10

\* A limiter nobody has asked yet.
LEMMA FreshType == Fresh \in Limiter /\ Fresh.day = None /\ Fresh.count = 0
BY EmptySeq DEF Fresh, Limiter

-----------------------------------------------------------------------------
(* Type correctness. *)

\* Every reachable state is well typed.
THEOREM TypeCorrect == Spec => []TypeOK
<1>1. Init => TypeOK
  <2>1. Idle \in Task /\ Idle.at \notin Checking
    BY DEF Idle, Task, Checking
  <2> SUFFICES ASSUME Init PROVE TypeOK
    OBVIOUS
  <2>2. limiter \in Limiter /\ task \in [Callers -> Task]
    BY <2>1, FreshType DEF Init
  <2>3. \A p \in Callers : task[p].at \notin Checking
    BY <2>1 DEF Init
  <2>4. granted \in [Days -> Nat] /\ now \in 0 .. MaxTime
    BY DEF Init
  <2>5. mixed \in BOOLEAN
    BY Zenon DEF Init
  <2> QED
    BY <2>2, <2>3, <2>4, <2>5 DEF TypeOK
<1>2. TypeOK /\ [Next]_vars => TypeOK'
  <2> SUFFICES ASSUME TypeOK, [Next]_vars PROVE TypeOK'
    OBVIOUS
  <2> USE DEF TypeOK
  <2>1. ASSUME NEW p \in Callers, Arrive(p) PROVE TypeOK'
    <3>1. PICK c \in Clients, op \in {"check", "health"} :
            task' = [task EXCEPT ![p] = [Idle EXCEPT !.at = "roll", !.op = op, !.client = c,
                                                     !.clock = now]]
      BY <2>1 DEF Arrive
    <3>2. [Idle EXCEPT !.at = "roll", !.op = op, !.client = c, !.clock = now] \in Task
      BY DEF Idle, Task, Checking
    <3> QED
      BY <2>1, <3>1, <3>2 DEF Arrive, Idle
  <2>2. ASSUME NEW p \in Callers, Step(p) PROVE TypeOK'
    <3>1. /\ Idle \in Task /\ Idle.at \notin Checking
          /\ task[p] \in Task
          /\ \A stage \in Checking : [task[p] EXCEPT !.at = stage] \in Task
      BY DEF Idle, Task, Checking
    <3>2. \A q \in Callers, b \in BOOLEAN :
            /\ [task[q] EXCEPT !.grown = b] \in Task
            /\ [task[q] EXCEPT !.orphan = b] \in Task
      BY DEF Task
    <3>3. task[p].at \in Checking /\ task[p].client \in Clients /\ task[p].clock \in 0 .. MaxTime
      BY <2>2 DEF Step, Roll, Rebuild, RebuildRaises, CheckDay, CheckClient, Admit, Increment,
                  Checking, Task
    <3>4. task[p].clock \in Nat /\ DayOf(task[p].clock) \in Days
      BY <3>3, DayCounted
    <3>5. CASE Roll(p)
      <4>1. Rolled(limiter, task[p].clock) \in Limiter
        BY <3>3, <3>4, LimiterOps
      <4>2. AfterRoll(task[p]) \in Task /\ (AfterRoll(task[p]).at \in Checking =>
                                             AfterRoll(task[p]).client \in Clients)
        BY <3>1, <3>3 DEF AfterRoll, Idle, Checking, Task
      <4> QED
        <5>1. task' \in [Callers -> Task]
          BY <3>1, <3>5, <4>2 DEF Roll, Checking
        <5>2. \A q \in Callers : task'[q].at \in Checking => task'[q].client \in Clients
          BY <3>1, <3>3, <3>5, <4>2 DEF Roll, Task
        <5>3. mixed' \in BOOLEAN
          BY <3>5, Zenon DEF Roll
        <5>4. limiter' \in Limiter /\ UNCHANGED <<granted, now>>
          BY <3>5, <4>1 DEF Roll
        <5> QED
          BY <5>1, <5>2, <5>3, <5>4
    <3>6. CASE Rebuild(p)
      <4>1. Rebuilt(limiter) \in Limiter
        BY <3>3, <3>4, LimiterOps
      <4>2. AfterRoll([task[p] EXCEPT !.grown = FALSE]) \in Task
        <5> DEFINE r == [task[p] EXCEPT !.grown = FALSE]
        <5>1. r \in Task
          BY <3>1, <3>2 DEF Task
        <5> HIDE DEF r
        <5>2. Idle \in Task /\ [r EXCEPT !.at = "count"] \in Task
          BY <5>1 DEF Idle, Checking, Task
        <5>3. AfterRoll(r) \in Task
          BY <5>2 DEF AfterRoll
        <5> QED
          BY <5>3 DEF r
      <4>3. AfterRoll([task[p] EXCEPT !.grown = FALSE]).at \in Checking =>
              AfterRoll([task[p] EXCEPT !.grown = FALSE]).client \in Clients
        BY <3>1, <3>3 DEF AfterRoll, Idle, Checking, Task
      <4>4. /\ task' \in [Callers -> Task]
            /\ \A q \in Callers : task'[q].at \in Checking => task'[q].client \in Clients
        <5>1. \A q \in Callers : task'[q] = IF q = p
                                            THEN AfterRoll([task[p] EXCEPT !.grown = FALSE])
                                            ELSE IF /\ task[q].at = "append"
                                                    /\ task[q].client \in limiter.known \ Kept(limiter)
                                            THEN [task[q] EXCEPT !.orphan = TRUE]
                                            ELSE task[q]
          BY <3>6 DEF Rebuild
        <5>2. \A q \in Callers : /\ [task[q] EXCEPT !.orphan = TRUE].at = task[q].at
                                 /\ [task[q] EXCEPT !.orphan = TRUE].client = task[q].client
          BY DEF Task
        <5>3. \A q \in Callers : /\ task'[q] \in Task
                                 /\ task'[q].at \in Checking => task'[q].client \in Clients
          BY <3>2, <4>2, <4>3, <5>1, <5>2
        <5>4. task' = [q \in Callers |-> task'[q]]
          BY <3>6 DEF Rebuild
        <5> QED
          BY <5>3, <5>4
      <4> QED
        BY <3>6, <4>1, <4>4 DEF Rebuild
    <3>7. CASE RebuildRaises(p) \/ CheckDay(p)
      BY <3>1, <3>3, <3>7 DEF RebuildRaises, CheckDay, Done, Goto, Checking, Task
    <3>8. CASE CheckClient(p)
      <4>1. Taken(limiter, task[p].client, task[p].clock) \in Limiter
        BY <3>3, <3>4, LimiterOps
      <4>2. [task[p] EXCEPT !.at = "append"] \in Task
        BY <3>1 DEF Checking
      <4>4. /\ task' \in [Callers -> Task]
            /\ \A q \in Callers : task'[q].at \in Checking => task'[q].client \in Clients
        <5> DEFINE c == task[p].client
                   taken == Taken(limiter, c, task[p].clock)
                   grows(q) == task[q].at = "rebuild" /\ c \notin limiter.known
        <5>1. \A q \in Callers : task'[q] = IF q = p
                                            THEN IF ClientExhausted(taken, c) THEN Idle
                                                 ELSE [task[p] EXCEPT !.at = "append"]
                                            ELSE [task[q] EXCEPT !.grown = task[q].grown \/ grows(q)]
          BY <3>8 DEF CheckClient
        <5>2. \A q \in Callers, b \in BOOLEAN : /\ [task[q] EXCEPT !.grown = b].at = task[q].at
                                                /\ [task[q] EXCEPT !.grown = b].client = task[q].client
          BY DEF Task
        <5>3. \A q \in Callers : (task[q].grown \/ grows(q)) \in BOOLEAN
          BY DEF Task
        <5>4. [task[p] EXCEPT !.at = "append"].client = task[p].client
          BY DEF Task
        <5>5. \A q \in Callers : /\ task'[q] \in Task
                                 /\ task'[q].at \in Checking => task'[q].client \in Clients
          <6> HIDE DEF c, taken, grows
          <6>1. task'[p] \in Task /\ (task'[p].at \in Checking => task'[p].client \in Clients)
            BY <3>1, <3>3, <4>2, <5>1, <5>4
          <6>2. ASSUME NEW q \in Callers, q # p
                PROVE  task'[q] \in Task /\ (task'[q].at \in Checking => task'[q].client \in Clients)
            BY <3>2, <5>1, <5>2, <5>3, <6>2
          <6> QED
            BY <6>1, <6>2
        <5>6. task' = [q \in Callers |-> task'[q]]
          BY <3>8 DEF CheckClient
        <5> QED
          BY <5>5, <5>6
      <4> QED
        BY <3>8, <4>1, <4>4 DEF CheckClient
    <3>9. CASE Admit(p)
      <4>1. Appended(limiter, task[p].client, task[p].clock) \in Limiter
        BY <3>3, <3>4, LimiterOps
      <4>2. granted' \in [Days -> Nat]
        BY <3>4, <3>9 DEF Admit
      <4> QED
        BY <3>1, <3>3, <3>9, <4>1, <4>2 DEF Admit, Goto, Checking, Task
    <3>10. CASE Increment(p)
      <4>1. Counted(limiter) \in Limiter
        BY <3>3, <3>4, LimiterOps
      <4> QED
        BY <3>1, <3>10, <4>1 DEF Increment, Done
    <3> QED
      BY <2>2, <3>5, <3>6, <3>7, <3>8, <3>9, <3>10 DEF Step
  <2>3. CASE Restart
    <3>1. Idle \in Task /\ Idle.at \notin Checking
      BY DEF Idle, Task, Checking
    <3> QED
      BY <2>3, <3>1, FreshType DEF Restart
  <2>4. CASE Tick
    BY <2>4 DEF Tick
  <2>5. CASE UNCHANGED vars
    BY <2>5 DEF vars
  <2> QED
    BY <2>1, <2>2, <2>3, <2>4, <2>5 DEF Next
<1> QED
  BY <1>1, <1>2, PTL DEF Spec

-----------------------------------------------------------------------------
(* The inductive invariant, for the states in which no two days are mixed. *)

OneDayBooks == OfOneDay /\ CountLags /\ WithinReach

\* The checks counted below are finitely many, and one that is in neither of
\* the two groups leaves room for the pool's threads alone.
LEMMA Counts ==
    ASSUME TypeOK
    PROVE  /\ IsFiniteSet(Counting) /\ Cardinality(Counting) \in Nat
           /\ IsFiniteSet(Admitting) /\ Cardinality(Admitting) \in Nat
           /\ Cardinality(Workers) \in Nat
           /\ \A p \in Callers \ (Counting \cup Admitting) :
                 Cardinality(Counting) + Cardinality(Admitting) <= Cardinality(Workers)
<1>1. IsFiniteSet(Callers) /\ Cardinality(Callers) = Cardinality(Workers) + 1
  <2>1. Callers = Workers \cup {Loop}
    BY DEF Callers
  <2> QED
    BY <2>1, FS_AddElement
<1>2. Cardinality(Workers) \in Nat
  BY FS_CardinalityType
<1>3. Counting \subseteq Callers /\ Admitting \subseteq Callers
  BY DEF Counting, Admitting
<1>4. Counting \cap Admitting = {}
  BY DEF Counting, Admitting
<1>5. /\ IsFiniteSet(Counting) /\ Cardinality(Counting) \in Nat
      /\ IsFiniteSet(Admitting) /\ Cardinality(Admitting) \in Nat
  BY <1>1, <1>3, FS_Subset, FS_CardinalityType
<1>6. ASSUME NEW p \in Callers \ (Counting \cup Admitting)
      PROVE  Cardinality(Counting) + Cardinality(Admitting) <= Cardinality(Workers)
  <2>1. IsFiniteSet(Callers \ {p}) /\ Cardinality(Callers \ {p}) = Cardinality(Workers)
    <3>1. p \in Callers
      OBVIOUS
    <3>2. IsFiniteSet(Callers \ {p}) /\ Cardinality(Callers \ {p}) = Cardinality(Callers) - 1
      BY <1>1, <3>1, FS_RemoveElement
    <3> QED
      BY <1>1, <1>2, <3>2
  <2>2. Cardinality(Counting \cup Admitting) = Cardinality(Counting) + Cardinality(Admitting)
    <3>1. Cardinality(Counting \cap Admitting) = 0
      BY <1>4, FS_EmptySet
    <3>2. Cardinality(Counting \cup Admitting)
            = Cardinality(Counting) + Cardinality(Admitting) - Cardinality(Counting \cap Admitting)
      BY <1>5, FS_Union
    <3> QED
      BY <1>5, <3>1, <3>2
  <2>3. Counting \cup Admitting \in SUBSET (Callers \ {p})
    BY <1>3, <1>6
  <2> QED
    BY <2>1, <2>2, <2>3, FS_Subset
<1> QED
  BY <1>2, <1>5, <1>6

\* A step that grants nothing and counts nothing keeps the books.
LEMMA SameBooks ==
    ASSUME TypeOK, TypeOK', CountLags, WithinReach,
           limiter'.day = limiter.day, limiter'.count = limiter.count,
           granted' = granted, Counting' = Counting,
           Admitting' \subseteq Admitting
    PROVE  CountLags' /\ WithinReach'
<1>1. CountLags'
  BY DEF CountLags
<1>2. Cardinality(Admitting') <= Cardinality(Admitting)
  BY Counts, FS_Subset
<1>3. Cardinality(Admitting') \in Nat /\ Cardinality(Admitting) \in Nat
      /\ Cardinality(Workers) \in Nat
  BY Counts, <1>2, FS_Subset, FS_CardinalityType
<1>4. WithinReach'
  BY <1>2, <1>3 DEF WithinReach, TypeOK
<1> QED
  BY <1>1, <1>4

\* A request arrives with the time of day it reads.
LEMMA ArriveInv ==
    ASSUME TypeOK, TypeOK', OneDayBooks, NEW p \in Callers, Arrive(p)
    PROVE  OneDayBooks'
<1>1. /\ task'[p].at = "roll" /\ task'[p].clock = now /\ task[p].at = "idle"
      /\ \A q \in Callers \ {p} : task'[q] = task[q]
      /\ UNCHANGED <<limiter, granted, now>>
  BY DEF Arrive, Idle, TypeOK
<1>2. Counting' = Counting /\ Admitting' = Admitting
  BY <1>1 DEF Counting, Admitting
<1>3. OfOneDay'
  BY <1>1 DEF OneDayBooks, OfOneDay, Checking, TypeOK
<1> QED
  BY <1>1, <1>2, <1>3, SameBooks DEF OneDayBooks

\* A roll to a day nothing was given out of, when no check of another is on.
LEMMA RollInv ==
    ASSUME TypeOK, TypeOK', OneDayBooks, NEW p \in Callers, Roll(p), ~mixed'
    PROVE  OneDayBooks'
<1> DEFINE day == DayOf(task[p].clock)
<1>1. /\ task[p].at = "roll" /\ task[p].clock \in Nat
      /\ day \in Nat /\ day \in Days
      /\ \A q \in Callers \ {p} : task'[q] = task[q]
      /\ task'[p].clock = task[p].clock \/ task'[p].at = "idle"
      /\ UNCHANGED <<granted, now>>
  BY DayCounted DEF Roll, AfterRoll, Idle, TypeOK, Task
<1>2. CASE MustRoll(limiter, task[p].clock)
  <2>1. /\ limiter'.day = day /\ limiter'.count = 0
        /\ task'[p].at = "rebuild" /\ task'[p].clock = task[p].clock
        /\ \A q \in Callers : task[q].at \in Checking => DayOf(task[q].clock) = day
    <3>1. limiter' = Rolled(limiter, task[p].clock)
          /\ task' = [task EXCEPT ![p].at = "rebuild"]
          /\ ~ \E q \in Callers : /\ task[q].at \in Checking
                                 /\ DayOf(task[q].clock) # day
      BY <1>2 DEF Roll
    <3>2. limiter'.day = day /\ limiter'.count = 0
      <4>1. limiter \in Limiter /\ task[p].client \in Clients
        BY <1>1 DEF TypeOK, Checking
      <4> QED
        BY <1>1, <3>1, <4>1, LimiterOps
    <3> QED
      BY <3>1, <3>2 DEF TypeOK, Task
  <2>2. limiter.day # day /\ (limiter.day # None => limiter.day < day)
    BY <1>1, <1>2 DEF MustRoll, OneDayBooks, OfOneDay, TypeOK, Limiter, Days
  <2>3. \A q \in Callers : task[q].at \notin Checking \ {"roll"}
    BY <2>1, <2>2 DEF OneDayBooks, OfOneDay
  <2>4. Counting' = {} /\ Admitting' = {}
    BY <1>1, <2>1, <2>3 DEF Counting, Admitting, Checking
  <2>5. Cardinality(Counting') = 0 /\ Cardinality(Admitting') = 0
    BY <2>4, FS_EmptySet
  <2>6. granted[day] = 0 /\ \A d \in Days : day < d => granted[d] = 0
    BY <1>1, <2>2 DEF OneDayBooks, CountLags, Days, TypeOK, Limiter, OfOneDay
  <2>7. OfOneDay'
    <3>1. day <= DayOf(now)
      BY <1>1, DayMonotonic DEF OneDayBooks, OfOneDay, TypeOK, Checking
    <3> QED
      BY <1>1, <2>1, <2>3, <3>1 DEF OneDayBooks, OfOneDay, Checking
  <2>8. CountLags'
    BY <1>1, <2>1, <2>5, <2>6 DEF CountLags
  <2>9. WithinReach'
    BY <1>1, <2>5, Counts DEF OneDayBooks, WithinReach, TypeOK
  <2> QED
    BY <2>7, <2>8, <2>9 DEF OneDayBooks
<1>3. CASE ~MustRoll(limiter, task[p].clock)
  <2>1. limiter' = limiter /\ limiter.day = day /\ task'[p].at \in {"idle", "count"}
    BY <1>1, <1>3 DEF Roll, MustRoll, AfterRoll, Idle, TypeOK, Task
  <2>2. Counting' = Counting /\ Admitting' = Admitting
    BY <1>1, <2>1 DEF Counting, Admitting
  <2>3. OfOneDay'
    BY <1>1, <2>1 DEF OneDayBooks, OfOneDay, Checking
  <2> QED
    BY <1>1, <2>1, <2>2, <2>3, SameBooks DEF OneDayBooks
<1> QED
  BY <1>2, <1>3

\* The dictionary is rebuilt, or is not: the day and the count stay.
LEMMA RebuildInv ==
    ASSUME TypeOK, TypeOK', OneDayBooks, NEW p \in Callers, Rebuild(p)
    PROVE  OneDayBooks'
<1>1. /\ limiter'.day = limiter.day /\ limiter'.count = limiter.count
      /\ UNCHANGED <<granted, now>>
      /\ task[p].at = "rebuild"
  BY LimiterOps DEF Rebuild, TypeOK, Task, Checking
<1>2. \A q \in Callers \ {p} : task'[q].at = task[q].at /\ task'[q].clock = task[q].clock
  BY DEF Rebuild, TypeOK, Task
<1>3. \/ task'[p].at = "idle"
      \/ task'[p].at = "count" /\ task'[p].clock = task[p].clock
  BY DEF Rebuild, AfterRoll, Idle, TypeOK, Task
<1>4. Counting' = Counting /\ Admitting' = Admitting
  BY <1>1, <1>2, <1>3 DEF Counting, Admitting
<1>5. OfOneDay'
  BY <1>1, <1>2, <1>3 DEF OneDayBooks, OfOneDay, Checking
<1> QED
  BY <1>1, <1>4, <1>5, SameBooks DEF OneDayBooks

\* A check ends, having raised while rebuilding or found no budget.
LEMMA EndInv ==
    ASSUME TypeOK, TypeOK', OneDayBooks, NEW p \in Callers,
           Done(p), task[p].at \in {"rebuild", "count"},
           UNCHANGED <<limiter, granted, now>>
    PROVE  OneDayBooks'
<1>1. task'[p].at = "idle" /\ \A q \in Callers \ {p} : task'[q] = task[q]
  BY DEF Done, Idle, TypeOK
<1>2. Counting' = Counting /\ Admitting' = Admitting
  BY <1>1 DEF Counting, Admitting
<1>3. OfOneDay'
  BY <1>1 DEF OneDayBooks, OfOneDay, Checking
<1> QED
  BY <1>2, <1>3, SameBooks DEF OneDayBooks

\* The comparison with the cap: what has been granted is what was counted and
\* what is about to be, and everyone else is at most one for each pool thread.
LEMMA CheckDayInv ==
    ASSUME TypeOK, TypeOK', OneDayBooks, NEW p \in Callers, CheckDay(p)
    PROVE  OneDayBooks'
<1>1. CASE DayExhausted(limiter)
  BY <1>1, EndInv DEF CheckDay
<1>2. CASE ~DayExhausted(limiter)
  <2>1. /\ task[p].at = "count" /\ task'[p].at = "take" /\ task'[p].clock = task[p].clock
        /\ \A q \in Callers \ {p} : task'[q] = task[q]
        /\ UNCHANGED <<limiter, granted, now>>
    BY <1>2 DEF CheckDay, Goto, TypeOK, Task
  <2>2. Counting' = Counting /\ Admitting' = Admitting \cup {p}
        /\ p \notin Counting \cup Admitting
    BY <2>1 DEF Counting, Admitting
  <2>3. Cardinality(Admitting') = Cardinality(Admitting) + 1
    BY <2>2, Counts, FS_AddElement
  <2>4. OfOneDay'
    BY <2>1 DEF OneDayBooks, OfOneDay, Checking
  <2>5. CountLags'
    BY <2>1, <2>2 DEF OneDayBooks, CountLags
  <2>6. limiter.day = DayOf(task[p].clock) /\ limiter.day # None
    BY <2>1, DayCounted DEF OneDayBooks, OfOneDay, Checking, TypeOK, Task
  <2>7. granted[limiter.day] + Cardinality(Admitting) + 1 <= ReportsPerDay + Cardinality(Workers)
    <3>1. limiter.count + Cardinality(Counting) = granted[limiter.day]
      BY <2>6 DEF OneDayBooks, CountLags
    <3>2. Cardinality(Counting) + Cardinality(Admitting) <= Cardinality(Workers)
      BY <2>2, Counts
    <3>3. limiter.count \in Nat /\ limiter.count < ReportsPerDay
      BY <1>2 DEF DayExhausted, TypeOK, Limiter
    <3> QED
      BY <3>1, <3>2, <3>3, Counts
  <2>8. WithinReach'
    <3>1. Cardinality(Admitting) \in Nat /\ Cardinality(Workers) \in Nat
      BY Counts
    <3> QED
      BY <2>1, <2>3, <2>7, <3>1 DEF OneDayBooks, WithinReach, TypeOK
  <2> QED
    BY <2>4, <2>5, <2>8 DEF OneDayBooks
<1> QED
  BY <1>1, <1>2

\* The client's window: refused, or on the way to be granted.
LEMMA CheckClientInv ==
    ASSUME TypeOK, TypeOK', OneDayBooks, NEW p \in Callers, CheckClient(p)
    PROVE  OneDayBooks'
<1>1. /\ task[p].at = "take" /\ task[p].client \in Clients /\ task[p].clock \in Nat
      /\ UNCHANGED <<granted, now>>
  BY DEF CheckClient, TypeOK, Task, Checking
<1>2. limiter'.day = limiter.day /\ limiter'.count = limiter.count
  BY <1>1, LimiterOps DEF CheckClient, TypeOK
<1>3. \A q \in Callers \ {p} : task'[q].at = task[q].at /\ task'[q].clock = task[q].clock
  BY DEF CheckClient, TypeOK, Task
<1>4. task'[p].at = "idle" \/ (task'[p].at = "append" /\ task'[p].clock = task[p].clock)
  BY DEF CheckClient, Idle, TypeOK, Task
<1>5. Counting' = Counting /\ Admitting' \subseteq Admitting
  BY <1>1, <1>3, <1>4 DEF Counting, Admitting
<1>6. OfOneDay'
  BY <1>1, <1>2, <1>3, <1>4 DEF OneDayBooks, OfOneDay, Checking
<1> QED
  BY <1>1, <1>2, <1>5, <1>6, SameBooks DEF OneDayBooks

\* A request is granted: one fewer on the way, one more to count.
LEMMA AdmitInv ==
    ASSUME TypeOK, TypeOK', OneDayBooks, NEW p \in Callers, Admit(p)
    PROVE  OneDayBooks'
<1> DEFINE day == DayOf(task[p].clock)
<1>1. /\ task[p].at = "append" /\ task[p].client \in Clients
      /\ task[p].clock \in 0 .. MaxTime /\ task[p].clock \in Nat
      /\ task'[p].at = "increment" /\ task'[p].clock = task[p].clock
      /\ \A q \in Callers \ {p} : task'[q] = task[q]
      /\ now' = now
  BY DEF Admit, Goto, TypeOK, Task, Checking
<1>2. limiter'.day = limiter.day /\ limiter'.count = limiter.count
  BY <1>1, LimiterOps DEF Admit, TypeOK
<1>3. limiter.day = day /\ day \in Days /\ day # None
  BY <1>1, DayCounted DEF OneDayBooks, OfOneDay, Checking
<1>4. granted' = [granted EXCEPT ![day] = granted[day] + 1]
  BY DEF Admit
<1>5. /\ Counting' = Counting \cup {p} /\ p \notin Counting
      /\ Admitting' = Admitting \ {p} /\ p \in Admitting
  BY <1>1 DEF Counting, Admitting
<1>6. /\ Cardinality(Counting') = Cardinality(Counting) + 1
      /\ Cardinality(Admitting') = Cardinality(Admitting) - 1
  BY <1>5, Counts, FS_AddElement, FS_RemoveElement
<1>7. OfOneDay'
  BY <1>1, <1>2 DEF OneDayBooks, OfOneDay, Checking
<1>8. CountLags'
  <2>1. limiter.count + Cardinality(Counting) = granted[day]
    BY <1>3 DEF OneDayBooks, CountLags
  <2>2. limiter.count + (Cardinality(Counting) + 1) = granted'[day]
    BY <1>3, <1>4, <2>1, Counts DEF TypeOK, Limiter
  <2> QED
    BY <1>2, <1>3, <1>4, <1>6, <2>2 DEF OneDayBooks, CountLags, TypeOK, Days
<1>9. WithinReach'
  <2>1. Cardinality(Admitting) \in Nat /\ Cardinality(Workers) \in Nat
    BY Counts
  <2> QED
    BY <1>2, <1>3, <1>4, <1>6, <2>1 DEF OneDayBooks, WithinReach, TypeOK
<1> QED
  BY <1>7, <1>8, <1>9 DEF OneDayBooks

\* A grant is counted.
LEMMA IncrementInv ==
    ASSUME TypeOK, TypeOK', OneDayBooks, NEW p \in Callers, Increment(p)
    PROVE  OneDayBooks'
<1>1. /\ task[p].at = "increment" /\ task[p].client \in Clients /\ task[p].clock \in Nat
      /\ task'[p].at = "idle"
      /\ \A q \in Callers \ {p} : task'[q] = task[q]
      /\ UNCHANGED <<granted, now>>
  BY DEF Increment, Done, Idle, TypeOK, Task, Checking
<1>2. limiter'.day = limiter.day /\ limiter'.count = limiter.count + 1
  BY <1>1, LimiterOps DEF Increment, TypeOK
<1>3. /\ Counting' = Counting \ {p} /\ p \in Counting
      /\ Admitting' = Admitting
  BY <1>1 DEF Counting, Admitting
<1>4. Cardinality(Counting') = Cardinality(Counting) - 1
  BY <1>3, Counts, FS_RemoveElement
<1>5. OfOneDay'
  BY <1>1, <1>2 DEF OneDayBooks, OfOneDay, Checking
<1>6. CountLags'
  <2>1. limiter.count \in Nat /\ Cardinality(Counting) \in Nat
    BY Counts DEF TypeOK, Limiter
  <2> QED
    BY <1>1, <1>2, <1>4, <2>1 DEF OneDayBooks, CountLags
<1>7. WithinReach'
  BY <1>1, <1>2, <1>3 DEF OneDayBooks, WithinReach
<1> QED
  BY <1>5, <1>6, <1>7 DEF OneDayBooks

\* The process is started again, with an empty limiter and nothing granted.
LEMMA RestartInv ==
    ASSUME TypeOK, TypeOK', Restart
    PROVE  OneDayBooks'
<1>1. /\ limiter'.day = None
      /\ \A p \in Callers : task'[p].at = "idle"
      /\ \A d \in Days : granted'[d] = 0
  BY FreshType DEF Restart, Idle
<1>2. Cardinality(Admitting') = 0
  <2>1. Admitting' = {}
    BY <1>1 DEF Admitting
  <2> QED
    BY <2>1, FS_EmptySet
<1>3. None \notin Days
  BY DayCounted DEF Days
<1> QED
  BY <1>1, <1>2, <1>3, Counts DEF OneDayBooks, OfOneDay, CountLags, WithinReach, Checking

\* Another day cannot make a check's own day later.
LEMMA TickInv ==
    ASSUME TypeOK, TypeOK', OneDayBooks, Tick
    PROVE  OneDayBooks'
<1>1. UNCHANGED <<limiter, task, granted>> /\ now \in Nat /\ now' \in Nat /\ now <= now'
  BY DEF Tick, TypeOK
<1>2. DayOf(now) \in Nat /\ DayOf(now') \in Nat /\ DayOf(now) <= DayOf(now')
  BY <1>1, DayMonotonic
<1>3. Counting' = Counting /\ Admitting' = Admitting
  BY <1>1 DEF Counting, Admitting
<1>4. OfOneDay'
  BY <1>1, <1>2 DEF OneDayBooks, OfOneDay, Days, TypeOK, Task
<1> QED
  BY <1>1, <1>3, <1>4, SameBooks DEF OneDayBooks

-----------------------------------------------------------------------------
(* The theorems. *)

\* LimiterInv holds in every reachable state.
THEOREM Inductive == Spec => []LimiterInv
<1>1. Init /\ TypeOK => LimiterInv
  <2> SUFFICES ASSUME Init, TypeOK PROVE OneDayBooks
    BY DEF LimiterInv, OneDayBooks
  <2>1. /\ limiter.day = None
        /\ \A p \in Callers : task[p].at = "idle"
        /\ \A d \in Days : granted[d] = 0
    BY FreshType DEF Init, Idle
  <2>2. Cardinality(Admitting) = 0
    <3>1. Admitting = {}
      BY <2>1 DEF Admitting
    <3> QED
      BY <3>1, FS_EmptySet
  <2> QED
    BY <2>1, <2>2, Counts DEF OneDayBooks, OfOneDay, CountLags, WithinReach, Checking
<1>2. LimiterInv /\ TypeOK' /\ [Next]_vars => LimiterInv'
  <2> SUFFICES ASSUME LimiterInv, TypeOK', [Next]_vars, ~mixed' PROVE OneDayBooks'
    BY DEF LimiterInv, OneDayBooks
  <2>1. TypeOK /\ (mixed \/ OneDayBooks)
    BY DEF LimiterInv, OneDayBooks
  <2>2. ASSUME NEW p \in Callers, Arrive(p) PROVE OneDayBooks'
    BY <2>1, <2>2, ArriveInv DEF Arrive
  <2>3. ASSUME NEW p \in Callers, Step(p) PROVE OneDayBooks'
    <3>1. ~mixed
      BY <2>3 DEF Step, Roll, Rebuild, RebuildRaises, CheckDay, CheckClient, Admit, Increment
    <3>2. CASE Roll(p)
      BY <2>1, <3>1, <3>2, RollInv
    <3>3. CASE Rebuild(p)
      BY <2>1, <3>1, <3>3, RebuildInv
    <3>4. CASE RebuildRaises(p)
      BY <2>1, <3>1, <3>4, EndInv DEF RebuildRaises
    <3>5. CASE CheckDay(p)
      BY <2>1, <3>1, <3>5, CheckDayInv
    <3>6. CASE CheckClient(p)
      BY <2>1, <3>1, <3>6, CheckClientInv
    <3>7. CASE Admit(p)
      BY <2>1, <3>1, <3>7, AdmitInv
    <3>8. CASE Increment(p)
      BY <2>1, <3>1, <3>8, IncrementInv
    <3> QED
      BY <2>3, <3>2, <3>3, <3>4, <3>5, <3>6, <3>7, <3>8 DEF Step
  <2>4. CASE Restart
    BY <2>1, <2>4, RestartInv
  <2>5. CASE Tick
    BY <2>1, <2>5, TickInv DEF Tick
  <2>6. CASE UNCHANGED vars
    <3>1. OneDayBooks
      BY <2>1, <2>6 DEF vars
    <3> QED
      BY <3>1, <2>6 DEF vars, OneDayBooks, OfOneDay, CountLags, WithinReach, Counting, Admitting
  <2> QED
    BY <2>2, <2>3, <2>4, <2>5, <2>6 DEF Next
<1> QED
  BY <1>1, <1>2, TypeCorrect, PTL DEF Spec

\* The day's cap is exceeded by at most one request for each pool thread,
\* whatever the cap, and however often checks race each other.
THEOREM CapOvershoot == Spec => []DailyBudget
<1>1. LimiterInv => DailyBudget
  <2> SUFFICES ASSUME LimiterInv, ~mixed, NEW d \in Days
               PROVE  granted[d] <= ReportsPerDay + Cardinality(Workers)
    BY DEF DailyBudget
  <2>1. TypeOK /\ WithinReach
    BY DEF LimiterInv
  <2> QED
    BY <2>1, Counts DEF WithinReach, TypeOK
<1> QED
  BY <1>1, Inductive, PTL

\* A check that is refused for the day finds the day's cap really given out.
THEOREM NoEarlyRefusal == Spec => []RefusalIsDue
<1>1. LimiterInv => RefusalIsDue
  <2> SUFFICES ASSUME LimiterInv, ~mixed, NEW p \in Callers,
                      task[p].at = "count", DayExhausted(limiter)
               PROVE  granted[DayOf(task[p].clock)] >= ReportsPerDay
    BY DEF RefusalIsDue
  <2>1. TypeOK /\ OfOneDay /\ CountLags
    BY DEF LimiterInv
  <2>2. limiter.day = DayOf(task[p].clock) /\ limiter.day \in Nat
    BY <2>1, DayCounted DEF OfOneDay, TypeOK, Task, Checking
  <2>3. limiter.count + Cardinality(Counting) = granted[limiter.day]
    BY <2>1, <2>2 DEF CountLags
  <2>4. limiter.count \in Nat /\ limiter.count >= ReportsPerDay
    BY <2>1 DEF DayExhausted, TypeOK, Limiter
  <2> QED
    BY <2>1, <2>2, <2>3, <2>4, Counts
<1> QED
  BY <1>1, Inductive, PTL
=============================================================================
