---------------------------- MODULE HotspotProofs ----------------------------
(***************************************************************************)
(* The map of hotspots and the alerts that are drafted from it.            *)
(*                                                                         *)
(* Observations.  Every signal the map may use is in exactly one hotspot,  *)
(* for every record of cases, every set of stations, fires and readings    *)
(* and every radius and window: lemmas about each operator of Grouping,    *)
(* Hotspots and Clusters, from the folds they are written with up to       *)
(* Detect and Patterns, and an inductive invariant for what the passes of  *)
(* the scan collect and store.                                             *)
(*                                                                         *)
(* HotspotAlerts.  The safety properties of the alerts for every number of *)
(* requests, alerts, passes and pictures, from one inductive invariant.    *)
(***************************************************************************)
EXTENDS Observations, HotspotAlerts, FiniteSetTheorems, SequenceTheorems,
        WellFoundedInduction, TLAPS

-----------------------------------------------------------------------------
(* Folds.  A fold over n items goes through n steps, one for each item in    *)
(* turn, and a set that its steps never leave holds its result.              *)

\* A set of naturals that is not empty has a least member.
LEMMA LeastOfNaturals ==
    ASSUME NEW T, T \subseteq Nat, T # {}
    PROVE  \E x \in T : \A y \in T : x <= y
<1>1. PICK x \in T : \A y \in T : ~ (<<y, x>> \in OpToRel(<, Nat))
  BY NatLessThanWellFounded, WFMin
<1>2. x \in Nat /\ \A y \in T : ~(y < x)
  BY <1>1 DEF OpToRel
<1> QED
  BY <1>2

\* What holds of 0 and passes from one step to the next holds of every step up
\* to n.
LEMMA StepByStep ==
    ASSUME NEW n \in Nat, NEW P, 0 \in P, \A k \in 0 .. n - 1 : k \in P => k + 1 \in P
    PROVE  \A k \in 0 .. n : k \in P
<1> DEFINE T == {k \in 0 .. n : k \notin P}
<1> SUFFICES ASSUME T # {}
             PROVE  FALSE
  OBVIOUS
<1>0. T \subseteq Nat
  OBVIOUS
<1>1. PICK x \in T : \A y \in T : x <= y
  <2> HIDE DEF T
  <2> QED
    BY <1>0, LeastOfNaturals
<1>2. x \in 1 .. n
  OBVIOUS
<1>3. x - 1 \in 0 .. n - 1 /\ x - 1 \notin T
  BY <1>1, <1>2
<1> QED
  BY <1>2, <1>3

\* The greatest of 1 .. n is n.
LEMMA MaxOfInitial ==
    ASSUME NEW k \in Nat, NEW s \in SUBSET (1 .. k + 1)
    PROVE  /\ k + 1 \in s => Max(s) = k + 1 /\ s \ {Max(s)} \in SUBSET (1 .. k)
           /\ k + 1 \notin s => s \in SUBSET (1 .. k)
<1>1. ASSUME k + 1 \in s
      PROVE  Max(s) = k + 1
  <2>1. \A y \in s : y \in Int /\ y <= k + 1
    OBVIOUS
  <2>2. \A x \in s : (\A y \in s : y <= x) => x = k + 1
    BY <1>1, <2>1
  <2>3. k + 1 \in s /\ \A y \in s : k + 1 >= y
    BY <1>1, <2>1
  <2> QED
    BY <2>2, <2>3 DEF Max
<1>2. s \ {k + 1} \in SUBSET (1 .. k)
  OBVIOUS
<1> QED
  BY <1>1, <1>2

\* A set of places that is not empty has a greatest place, which is one of
\* them.
LEMMA MaxOfPart ==
    ASSUME NEW n \in Nat, NEW s \in SUBSET (1 .. n), s # {}
    PROVE  Max(s) \in s /\ \A y \in s : y <= Max(s)
<1> DEFINE T == {n - x : x \in s}
<1>1. T \subseteq Nat /\ T # {}
  <2>1. \A x \in s : x \in 1 .. n
    OBVIOUS
  <2>2. \A t \in T : t \in Nat
    BY <2>1
  <2>3. PICK x \in s : TRUE
    OBVIOUS
  <2>4. n - x \in T
    OBVIOUS
  <2> QED
    BY <2>2, <2>4
<1>2. PICK t \in T : \A u \in T : t <= u
  <2> HIDE DEF T
  <2> QED
    BY <1>1, LeastOfNaturals
<1>3. PICK x \in s : t = n - x
  BY <1>2
<1>4. ASSUME NEW y \in s
      PROVE  y <= x
  <2>1. n - y \in T
    OBVIOUS
  <2>2. n - x <= n - y
    BY <1>2, <1>3, <2>1
  <2>3. x \in Int /\ y \in Int
    OBVIOUS
  <2> HIDE DEF T
  <2> QED
    BY <2>2, <2>3
<1> QED
  BY <1>4 DEF Max

\* f is what a fold of n steps computes, of the part of the steps it is given.
FoldOf(f, n, V, base, step) ==
    /\ f \in [SUBSET (1 .. n) -> V]
    /\ \A s \in SUBSET (1 .. n) : f[s] = IF s = {} THEN base ELSE step[Max(s)][f[s \ {Max(s)}]]

\* The same, so long as f stays in V.
FoldIn(f, n, V, base, step) ==
    /\ f[{}] = base
    /\ \A s \in SUBSET (1 .. n) : s # {} /\ f[s \ {Max(s)}] \in V =>
         f[s] = step[Max(s)][f[s \ {Max(s)}]]

\* g goes through the steps one by one, to a result.
StepsOf(g, n, V, base, step, result) ==
    /\ g \in [0 .. n -> V]
    /\ g[0] = base
    /\ \A i \in 1 .. n : g[i] = step[i][g[i - 1]]
    /\ g[n] = result

\* A fold over the parts of 1 .. n exists: it is a well-founded recursion on
\* their greatest place.
LEMMA FoldExists ==
    ASSUME NEW n \in Nat, NEW V, NEW base \in V, NEW step \in [1 .. n -> [V -> V]]
    PROVE  \E f : FoldOf(f, n, V, base, step)
<1> DEFINE Good(f, k) == \A s \in SUBSET (1 .. k) :
                           f[s] = IF s = {} THEN base ELSE step[Max(s)][f[s \ {Max(s)}]]
           P == {k \in 0 .. n : \E f \in [SUBSET (1 .. k) -> V] : Good(f, k)}
<1>1. 0 \in P
  <2> DEFINE f == [s \in SUBSET (1 .. 0) |-> base]
  <2>1. \A s \in SUBSET (1 .. 0) : s = {}
    OBVIOUS
  <2>2. f \in [SUBSET (1 .. 0) -> V] /\ Good(f, 0)
    BY <2>1
  <2>3. 0 \in 0 .. n
    OBVIOUS
  <2> HIDE DEF f, Good
  <2> QED
    BY <2>2, <2>3
<1>2. ASSUME NEW k \in 0 .. n - 1, k \in P
      PROVE  k + 1 \in P
  <2>1. PICK f \in [SUBSET (1 .. k) -> V] : Good(f, k)
    BY <1>2
  <2> DEFINE e == [s \in SUBSET (1 .. k + 1) |->
                     IF k + 1 \in s THEN step[k + 1][f[s \ {k + 1}]] ELSE f[s]]
  <2>0. k \in Nat /\ k + 1 \in 1 .. n
    OBVIOUS
  <2>2. ASSUME NEW s \in SUBSET (1 .. k + 1)
        PROVE  e[s] \in V /\ e[s] = IF s = {} THEN base ELSE step[Max(s)][e[s \ {Max(s)}]]
    <3>1. CASE k + 1 \in s
      <4>1. Max(s) = k + 1 /\ s \ {k + 1} \in SUBSET (1 .. k) /\ s # {}
        BY <2>0, <3>1, MaxOfInitial
      <4>2. e[s \ {k + 1}] = f[s \ {k + 1}] /\ f[s \ {k + 1}] \in V
        BY <4>1
      <4>3. e[s] = step[k + 1][f[s \ {k + 1}]]
        BY <3>1
      <4>4. step[k + 1] \in [V -> V]
        BY <2>0
      <4> QED
        BY <4>1, <4>2, <4>3, <4>4
    <3>2. CASE k + 1 \notin s
      <4>1. s \in SUBSET (1 .. k) /\ e[s] = f[s] /\ f[s] \in V
        BY <2>0, <3>2, MaxOfInitial
      <4>2. f[s] = IF s = {} THEN base ELSE step[Max(s)][f[s \ {Max(s)}]]
        BY <2>1, <4>1
      <4>3. s \ {Max(s)} \in SUBSET (1 .. k) /\ k + 1 \notin s \ {Max(s)}
        BY <3>2, <4>1
      <4>4. e[s \ {Max(s)}] = f[s \ {Max(s)}]
        BY <4>3
      <4> QED
        BY <4>1, <4>2, <4>4
    <3> QED
      BY <3>1, <3>2
  <2>3. e \in [SUBSET (1 .. k + 1) -> V]
    BY <2>2
  <2> HIDE DEF e
  <2>4. Good(e, k + 1)
    BY <2>2
  <2>5. k + 1 \in 0 .. n
    BY <2>0
  <2> QED
    BY <2>3, <2>4, <2>5
<1> HIDE DEF P
<1>3. \A k \in 0 .. n : k \in P
  BY <1>1, <1>2, StepByStep
<1>4. n \in P
  BY <1>3
<1> QED
  BY <1>4 DEF P, FoldOf

\* What a fold computes, step by step.
LEMMA FoldIsSteps ==
    ASSUME NEW n \in Nat, NEW V, NEW base \in V, NEW step \in [1 .. n -> [V -> V]], NEW f,
           FoldIn(f, n, V, base, step)
    PROVE  \E g : StepsOf(g, n, V, base, step, f[1 .. n])
<1> DEFINE g == [i \in 0 .. n |-> f[1 .. i]]
           P == {i \in 0 .. n : f[1 .. i] \in V}
<1>1. 1 .. 0 = {}
  OBVIOUS
<1>2. ASSUME NEW k \in 0 .. n - 1, f[1 .. k] \in V
      PROVE  f[1 .. k + 1] = step[k + 1][f[1 .. k]] /\ f[1 .. k + 1] \in V
  <2> DEFINE s == 1 .. k + 1
  <2>1. s \in SUBSET (1 .. n) /\ k + 1 \in s /\ k \in Nat /\ k + 1 \in 1 .. n
    OBVIOUS
  <2>2. Max(s) = k + 1
    BY <2>1, MaxOfInitial
  <2>3. s \ {k + 1} = 1 .. k
    OBVIOUS
  <2> HIDE DEF s
  <2>4. f[s] = step[k + 1][f[1 .. k]]
    BY <1>2, <2>1, <2>2, <2>3 DEF FoldIn
  <2>5. step[k + 1] \in [V -> V]
    BY <2>1
  <2> QED
    BY <1>2, <2>4, <2>5 DEF s
<1>3. 0 \in P
  BY <1>1 DEF FoldIn
<1>4. \A k \in 0 .. n - 1 : k \in P => k + 1 \in P
  BY <1>2
<1>5. \A k \in 0 .. n : k \in P
  <2> HIDE DEF P
  <2> QED
    BY <1>3, <1>4, StepByStep
<1>6. g \in [0 .. n -> V] /\ g[0] = base /\ g[n] = f[1 .. n]
  BY <1>1, <1>5 DEF FoldIn
<1>7. ASSUME NEW i \in 1 .. n
      PROVE  g[i] = step[i][g[i - 1]]
  <2>1. i - 1 \in 0 .. n - 1 /\ i - 1 \in P /\ (i - 1) + 1 = i /\ i \in 0 .. n /\ i - 1 \in 0 .. n
    BY <1>5
  <2> QED
    BY <1>2, <2>1
<1> HIDE DEF g
<1> QED
  BY <1>6, <1>7 DEF StepsOf

-----------------------------------------------------------------------------
\* The sum of a group's places, that its centre divides, is taken item by
\* item.
LEMMA SumSteps ==
    ASSUME NEW I, NEW items \in Seq(I), \A i \in I : i.place \in Int
    PROVE  \E g \in [0 .. Len(items) -> Int] :
             /\ g[0] = 0
             /\ \A i \in 1 .. Len(items) : g[i] = g[i - 1] + items[i].place
             /\ Centroid(items).sum = g[Len(items)]
<1> DEFINE n == Len(items)
           D == SUBSET (1 .. n)
           step == [i \in 1 .. n |-> [sum \in Int |-> sum + items[i].place]]
           Fold(f) == [s \in D |-> IF s = {} THEN 0 ELSE f[s \ {Max(s)}] + items[Max(s)].place]
           c == CHOOSE f : f = Fold(f)
<1>1. n \in Nat /\ 0 \in Int /\ DOMAIN items = 1 .. n /\ \A i \in 1 .. n : items[i].place \in Int
  OBVIOUS
<1>2. step \in [1 .. n -> [Int -> Int]]
  BY <1>1
<1>3. ASSUME NEW s \in D, s # {}
      PROVE  Max(s) \in 1 .. n /\ s \ {Max(s)} \in D
  BY <1>1, <1>3, MaxOfPart
<1>4. PICK f : FoldOf(f, n, Int, 0, step)
  <2> HIDE DEF step, n
  <2> QED
    BY <1>1, <1>2, FoldExists, Zenon
<1>5. f = Fold(f)
  <2>1. ASSUME NEW s \in D, s # {}
        PROVE  f[s] = f[s \ {Max(s)}] + items[Max(s)].place
    BY <1>3, <1>4, <2>1 DEF FoldOf
  <2> QED
    BY <1>4, <2>1 DEF FoldOf
<1>6. c = Fold(c)
  <2> HIDE DEF Fold
  <2> QED
    BY <1>5
<1>7. Centroid(items).sum = c[1 .. n]
  <2>1. Centroid(items).sum = FoldLeft(LAMBDA sum, item : sum + item.place, 0, items)
    BY DEF Centroid
  <2> HIDE DEF n
  <2> QED
    BY <1>1, <2>1, Zenon DEF FoldLeft, MapThenFoldSet
<1> HIDE DEF c
<1>8. FoldIn(c, n, Int, 0, step)
  BY <1>3, <1>6 DEF FoldIn
<1> HIDE DEF step, n
<1>9. PICK g : StepsOf(g, n, Int, 0, step, c[1 .. n])
  BY <1>1, <1>2, <1>8, FoldIsSteps, Zenon
<1>10. ASSUME NEW i \in 1 .. n
       PROVE  g[i] = g[i - 1] + items[i].place
  <2>1. i - 1 \in 0 .. n
    BY <1>1
  <2>2. step[i][g[i - 1]] = g[i - 1] + items[i].place
    BY <1>9, <2>1 DEF step, StepsOf
  <2> QED
    BY <1>9, <2>2 DEF StepsOf
<1> QED
  BY <1>7, <1>9, <1>10 DEF n, StepsOf

-----------------------------------------------------------------------------
(* A sequence that has every element of a set once, and nothing else.        *)

\* q has every element of S once, and nothing else.
Lists(q, S) ==
    /\ q \in Seq(S)
    /\ \A s \in S : \E i \in 1 .. Len(q) : q[i] = s
    /\ \A i, j \in 1 .. Len(q) : q[i] = q[j] => i = j

\* The empty list lists nothing.
LEMMA ListsNothing == Lists(<<>>, {})
BY DEF Lists

\* A list is a function from its places.
LEMMA ListsAsFunction ==
    ASSUME NEW S, NEW q, Lists(q, S)
    PROVE  /\ Len(q) \in Nat /\ DOMAIN q = 1 .. Len(q)
           /\ q \in [1 .. Len(q) -> S]
BY DEF Lists

\* Appending an element that is not there lists one more.
LEMMA ListsOneMore ==
    ASSUME NEW S, NEW q, Lists(q, S), NEW e, e \notin S
    PROVE  Lists(Append(q, e), S \cup {e})
<1> DEFINE T == S \cup {e}
<1>1. q \in Seq(T) /\ e \in T
  BY DEF Lists
<1>2. /\ Append(q, e) \in Seq(T)
      /\ Len(Append(q, e)) = Len(q) + 1 /\ Len(q) \in Nat
      /\ \A i \in 1 .. Len(q) : Append(q, e)[i] = q[i] /\ q[i] \in S
      /\ Append(q, e)[Len(q) + 1] = e
  BY <1>1 DEF Lists
<1>3. ASSUME NEW s \in T
      PROVE  \E i \in 1 .. Len(Append(q, e)) : Append(q, e)[i] = s
  <2>1. CASE s \in S
    <3>1. PICK i \in 1 .. Len(q) : q[i] = s
      BY <2>1 DEF Lists
    <3>2. i \in 1 .. Len(q) + 1
      BY <1>2
    <3> QED
      BY <1>2, <3>1, <3>2
  <2>2. CASE s = e
    <3>1. Len(q) + 1 \in 1 .. Len(q) + 1
      BY <1>2
    <3> QED
      BY <1>2, <2>2, <3>1
  <2> QED
    BY <2>1, <2>2
<1>4. ASSUME NEW i \in 1 .. Len(q) + 1, NEW j \in 1 .. Len(q) + 1, Append(q, e)[i] = Append(q, e)[j]
      PROVE  i = j
  <2>1. \A k \in 1 .. Len(q) + 1 : k \in 1 .. Len(q) \/ k = Len(q) + 1
    BY <1>2
  <2>2. \A k \in 1 .. Len(q) : q[k] # e
    BY DEF Lists
  <2>3. CASE i = Len(q) + 1 \/ j = Len(q) + 1
    BY <1>2, <1>4, <2>1, <2>2, <2>3
  <2>4. CASE i \in 1 .. Len(q) /\ j \in 1 .. Len(q)
    <3>1. q[i] = q[j]
      BY <1>2, <1>4, <2>4
    <3> QED
      BY <2>4, <3>1 DEF Lists
  <2> QED
    BY <2>1, <2>3, <2>4
<1> QED
  BY <1>2, <1>3, <1>4 DEF Lists

\* Two lists that share nothing, one after the other, list both.
LEMMA ListsConcatenated ==
    ASSUME NEW S, NEW p, Lists(p, S), NEW T, NEW q, Lists(q, T), S \cap T = {}
    PROVE  Lists(p \o q, S \cup T)
<1> DEFINE U == S \cup T
           m == Len(p)
           n == Len(q)
<1>1. p \in Seq(U) /\ q \in Seq(U)
  BY SeqMonotonic DEF Lists
<1>2. /\ p \o q \in Seq(U) /\ Len(p \o q) = m + n /\ m \in Nat /\ n \in Nat
      /\ \A i \in 1 .. m : (p \o q)[i] = p[i] /\ p[i] \in S
      /\ \A i \in 1 .. n : (p \o q)[m + i] = q[i] /\ q[i] \in T
  <2>1. m \in Nat /\ n \in Nat /\ (\A i \in 1 .. m : p[i] \in S) /\ \A i \in 1 .. n : q[i] \in T
    BY DEF Lists
  <2>2. p \o q \in Seq(U) /\ Len(p \o q) = m + n
    BY <1>1
  <2>3. \A i \in 1 .. m + n : (p \o q)[i] = IF i <= m THEN p[i] ELSE q[i - m]
    BY <1>1, ConcatProperties
  <2> HIDE DEF m, n, U
  <2>4. ASSUME NEW i \in 1 .. n
        PROVE  (p \o q)[m + i] = q[i]
    <3>1. m + i \in 1 .. m + n /\ ~(m + i <= m) /\ (m + i) - m = i
      BY <2>1
    <3> QED
      BY <2>3, <3>1
  <2>5. ASSUME NEW i \in 1 .. m
        PROVE  (p \o q)[i] = p[i]
    <3>1. i \in 1 .. m + n /\ i <= m
      BY <2>1
    <3> QED
      BY <2>3, <3>1
  <2> QED
    BY <2>1, <2>2, <2>4, <2>5
<1> HIDE DEF m, n
<1>3. \A i \in 1 .. m + n : i \in 1 .. m \/ \E k \in 1 .. n : i = m + k
  <2>1. \A i \in 1 .. m + n : i \in 1 .. m \/ (i - m \in 1 .. n /\ i = m + (i - m))
    BY <1>2
  <2> QED
    BY <2>1
<1>4. ASSUME NEW s \in U
      PROVE  \E i \in 1 .. m + n : (p \o q)[i] = s
  <2>1. CASE s \in S
    <3>1. PICK i \in 1 .. m : p[i] = s
      BY <2>1 DEF Lists, m
    <3>2. i \in 1 .. m + n
      BY <1>2
    <3> QED
      BY <1>2, <3>1, <3>2
  <2>2. CASE s \in T
    <3>1. PICK i \in 1 .. n : q[i] = s
      BY <2>2 DEF Lists, n
    <3>2. m + i \in 1 .. m + n
      BY <1>2
    <3> QED
      BY <1>2, <3>1, <3>2
  <2> QED
    BY <2>1, <2>2
<1>5. ASSUME NEW i \in 1 .. m + n, NEW j \in 1 .. m + n, (p \o q)[i] = (p \o q)[j]
      PROVE  i = j
  <2>1. CASE i \in 1 .. m /\ j \in 1 .. m
    BY <1>2, <1>5, <2>1 DEF Lists, m
  <2>2. CASE \E k \in 1 .. n : i = m + k
    <3>1. PICK k \in 1 .. n : i = m + k
      BY <2>2
    <3>2. CASE \E l \in 1 .. n : j = m + l
      <4>1. PICK l \in 1 .. n : j = m + l
        BY <3>2
      <4>2. q[k] = q[l]
        BY <1>2, <1>5, <3>1, <4>1
      <4> QED
        BY <3>1, <4>1, <4>2 DEF Lists, n
    <3>3. CASE j \in 1 .. m
      BY <1>2, <1>5, <3>1, <3>3
    <3> QED
      BY <1>3, <3>2, <3>3
  <2>3. CASE i \in 1 .. m /\ \E l \in 1 .. n : j = m + l
    <3>1. PICK l \in 1 .. n : j = m + l
      BY <2>3
    <3> QED
      BY <1>2, <1>5, <2>3, <3>1
  <2> QED
    BY <1>3, <2>1, <2>2, <2>3
<1> QED
  BY <1>2, <1>4, <1>5 DEF Lists

\* The items of a sequence from one place to another.
Part(q, a, b) == {q[i] : i \in a .. b}

\* Two parts of a list.
LEMMA ListsSplit ==
    ASSUME NEW S, NEW q, Lists(q, S), NEW k \in 0 .. Len(q)
    PROVE  /\ Lists(SubSeq(q, 1, k), Part(q, 1, k))
           /\ Lists(SubSeq(q, k + 1, Len(q)), Part(q, k + 1, Len(q)))
           /\ Part(q, 1, k) \cap Part(q, k + 1, Len(q)) = {}
           /\ Part(q, 1, k) \cup Part(q, k + 1, Len(q)) = S
<1> DEFINE n == Len(q)
           A == {q[i] : i \in 1 .. k}
           B == {q[i] : i \in k + 1 .. n}
<1>1. n \in Nat /\ k \in Nat /\ k <= n /\ \A i \in 1 .. n : q[i] \in S
  BY DEF Lists
<1>2. Lists(SubSeq(q, 1, k), A)
  <2>1. \A i \in 1 .. k : q[i] \in A
    OBVIOUS
  <2>2. /\ SubSeq(q, 1, k) \in Seq(A)
        /\ Len(SubSeq(q, 1, k)) = IF 1 <= k THEN k - 1 + 1 ELSE 0
        /\ \A i \in 1 .. k - 1 + 1 : SubSeq(q, 1, k)[i] = q[1 + i - 1]
    <3> HIDE DEF A
    <3> QED
      BY <1>1, <2>1, SubSeqProperties
  <2>3. Len(SubSeq(q, 1, k)) = k /\ \A i \in 1 .. k : SubSeq(q, 1, k)[i] = q[i]
    BY <1>1, <2>2
  <2>4. \A i \in 1 .. k : i \in 1 .. n
    BY <1>1
  <2>5. \A i, j \in 1 .. k : q[i] = q[j] => i = j
    BY <2>4 DEF Lists
  <2>6. \A s \in A : \E i \in 1 .. k : q[i] = s
    OBVIOUS
  <2> HIDE DEF A
  <2> QED
    BY <2>2, <2>3, <2>5, <2>6 DEF Lists
<1>3. Lists(SubSeq(q, k + 1, n), B)
  <2>1. \A i \in k + 1 .. n : q[i] \in B
    OBVIOUS
  <2>2. /\ SubSeq(q, k + 1, n) \in Seq(B)
        /\ Len(SubSeq(q, k + 1, n)) = IF k + 1 <= n THEN n - (k + 1) + 1 ELSE 0
        /\ \A i \in 1 .. n - (k + 1) + 1 : SubSeq(q, k + 1, n)[i] = q[(k + 1) + i - 1]
    <3>1. k + 1 \in Int /\ n \in Int
      BY <1>1
    <3> HIDE DEF B, n
    <3> QED
      BY <2>1, <3>1, SubSeqProperties
  <2> HIDE DEF n
  <2>3. Len(SubSeq(q, k + 1, n)) = n - k /\ \A i \in 1 .. n - k : SubSeq(q, k + 1, n)[i] = q[k + i]
    BY <1>1, <2>2
  <2>4. \A i \in 1 .. n - k : k + i \in 1 .. n /\ k + i \in k + 1 .. n
    BY <1>1
  <2>5. \A i \in k + 1 .. n : i - k \in 1 .. n - k /\ k + (i - k) = i
    BY <1>1
  <2>6. \A s \in B : \E i \in 1 .. n - k : SubSeq(q, k + 1, n)[i] = s
    <3> SUFFICES ASSUME NEW i \in k + 1 .. n
                 PROVE  \E j \in 1 .. n - k : SubSeq(q, k + 1, n)[j] = q[i]
      OBVIOUS
    <3> QED
      BY <2>3, <2>5
  <2>7. ASSUME NEW i \in 1 .. n - k, NEW j \in 1 .. n - k, q[k + i] = q[k + j]
        PROVE  i = j
    <3>1. k + i = k + j
      BY <2>4, <2>7 DEF Lists, n
    <3> QED
      BY <1>1, <3>1
  <2> HIDE DEF B
  <2> QED
    BY <2>2, <2>3, <2>6, <2>7 DEF Lists
<1>4. A \cap B = {}
  <2>1. \A i \in 1 .. k, j \in k + 1 .. n : i \in 1 .. n /\ j \in 1 .. n /\ i # j
    BY <1>1
  <2>2. \A i \in 1 .. k, j \in k + 1 .. n : q[i] # q[j]
    BY <2>1 DEF Lists
  <2> QED
    BY <2>2
<1>5. A \cup B = S
  <2>1. \A i \in 1 .. n : i \in 1 .. k \/ i \in k + 1 .. n
    BY <1>1
  <2>2. \A i \in 1 .. k : i \in 1 .. n
    BY <1>1
  <2>3. \A i \in k + 1 .. n : i \in 1 .. n
    BY <1>1
  <2>4. A \subseteq S /\ B \subseteq S
    BY <1>1, <2>2, <2>3
  <2>5. ASSUME NEW s \in S
        PROVE  s \in A \cup B
    <3>1. PICK i \in 1 .. n : q[i] = s
      BY DEF Lists
    <3> QED
      BY <2>1, <3>1
  <2> HIDE DEF A, B
  <2> QED
    BY <2>4, <2>5
<1> QED
  BY <1>2, <1>3, <1>4, <1>5 DEF Part

\* The list of one element.
LEMMA ListsOne == ASSUME NEW e PROVE Lists(<<e>>, {e})
BY DEF Lists

\* An item put anywhere in a list.
LEMMA ListsInserted ==
    ASSUME NEW S, NEW q, Lists(q, S), NEW e, e \notin S, NEW k \in 0 .. Len(q)
    PROVE  Lists(InsertAt(q, k + 1, e), S \cup {e})
<1> DEFINE A == Part(q, 1, k)
           B == Part(q, k + 1, Len(q))
           p == SubSeq(q, 1, k)
           r == SubSeq(q, k + 1, Len(q))
<1>1. Lists(p, A) /\ Lists(r, B) /\ A \cap B = {} /\ A \cup B = S
  BY ListsSplit, Zenon
<1>2. InsertAt(q, k + 1, e) = (p \o <<e>>) \o r
  <2>1. (k + 1) - 1 = k
    OBVIOUS
  <2> QED
    BY <2>1 DEF InsertAt
<1> HIDE DEF A, B, p, r
<1>3. Lists(p \o <<e>>, A \cup {e})
  <2>1. Lists(<<e>>, {e}) /\ A \cap {e} = {}
    BY <1>1, ListsOne
  <2> QED
    BY <1>1, <2>1, ListsConcatenated, Zenon
<1>4. (A \cup {e}) \cap B = {} /\ (A \cup {e}) \cup B = S \cup {e}
  BY <1>1
<1>5. Lists((p \o <<e>>) \o r, (A \cup {e}) \cup B)
  BY <1>1, <1>3, <1>4, ListsConcatenated, Zenon
<1> QED
  BY <1>2, <1>4, <1>5

\* A place found for an item among the items of a sequence.
LEMMA LastPlace ==
    ASSUME NEW n \in Nat, NEW I \in SUBSET (1 .. n)
    PROVE  (IF I # {} THEN Max(I) ELSE 0) \in 0 .. n
<1>1. CASE I = {}
  BY <1>1
<1>2. CASE I # {}
  <2>1. Max(I) \in I
    BY <1>2, MaxOfPart
  <2>2. Max(I) \in 1 .. n
    BY <2>1
  <2>3. Max(I) \in 0 .. n
    BY <2>2
  <2> QED
    BY <1>2, <2>3, Zenon
<1> QED
  BY <1>1, <1>2

\* Inserting at a place makes a sequence of the same elements and one more.
LEMMA InsertedIsASequence ==
    ASSUME NEW I, NEW q \in Seq(I), NEW e \in I, NEW k \in 0 .. Len(q)
    PROVE  InsertAt(q, k + 1, e) \in Seq(I)
<1> DEFINE p == SubSeq(q, 1, k)
           r == SubSeq(q, k + 1, Len(q))
<1>1. Len(q) \in Nat /\ k \in Nat /\ k <= Len(q) /\ \A i \in 1 .. Len(q) : q[i] \in I
  OBVIOUS
<1>2. p \in Seq(I)
  <2>1. 1 \in Int /\ k \in Int /\ \A i \in 1 .. k : q[i] \in I
    BY <1>1
  <2> QED
    BY <2>1, SubSeqProperties
<1>3. r \in Seq(I)
  <2>1. k + 1 \in Int /\ Len(q) \in Int /\ \A i \in k + 1 .. Len(q) : q[i] \in I
    BY <1>1
  <2> QED
    BY <2>1, SubSeqProperties
<1>4. InsertAt(q, k + 1, e) = (p \o <<e>>) \o r
  <2>1. (k + 1) - 1 = k
    OBVIOUS
  <2> QED
    BY <2>1 DEF InsertAt
<1> HIDE DEF p, r
<1>5. <<e>> \in Seq(I)
  OBVIOUS
<1>6. p \o <<e>> \in Seq(I)
  BY <1>2, <1>5, ConcatProperties
<1>7. (p \o <<e>>) \o r \in Seq(I)
  BY <1>3, <1>6, ConcatProperties
<1> QED
  BY <1>4, <1>7

-----------------------------------------------------------------------------
\* InsertByTime makes a sequence of a sequence.
LEMMA ByTimeIsASequence ==
    ASSUME NEW I, NEW q \in Seq(I), NEW e \in I
    PROVE  InsertByTime(q, e) \in Seq(I)
<1> DEFINE J == {i \in 1 .. Len(q) : q[i].at <= e.at}
           k == IF J # {} THEN Max(J) ELSE 0
<1>1. Len(q) \in Nat /\ J \in SUBSET (1 .. Len(q))
  OBVIOUS
<1>2. InsertByTime(q, e) = InsertAt(q, k + 1, e)
  BY Zenon DEF InsertByTime, SelectLastInSeq
<1>3. k \in 0 .. Len(q)
  <2> HIDE DEF J
  <2> QED
    BY <1>1, LastPlace
<1> HIDE DEF k
<1> QED
  BY <1>2, <1>3, InsertedIsASequence

\* InsertByTime lists one more.
LEMMA ListsByTime ==
    ASSUME NEW S, NEW q, Lists(q, S), NEW e, e \notin S
    PROVE  Lists(InsertByTime(q, e), S \cup {e})
<1> DEFINE J == {i \in 1 .. Len(q) : q[i].at <= e.at}
           k == IF J # {} THEN Max(J) ELSE 0
<1>1. Len(q) \in Nat /\ J \in SUBSET (1 .. Len(q))
  BY DEF Lists
<1>2. InsertByTime(q, e) = InsertAt(q, k + 1, e)
  BY Zenon DEF InsertByTime, SelectLastInSeq
<1>3. k \in 0 .. Len(q)
  <2> HIDE DEF J
  <2> QED
    BY <1>1, LastPlace
<1> HIDE DEF k
<1> QED
  BY <1>2, <1>3, ListsInserted

\* Sorting by time, item by item.
LEMMA InTimeOrderSteps ==
    ASSUME NEW I, NEW items \in Seq(I)
    PROVE  \E g \in [0 .. Len(items) -> Seq(I)] :
             /\ g[0] = <<>>
             /\ \A i \in 1 .. Len(items) : g[i] = InsertByTime(g[i - 1], items[i])
             /\ InTimeOrder(items) = g[Len(items)]
<1> DEFINE n == Len(items)
           D == SUBSET (1 .. n)
           step == [i \in 1 .. n |-> [v \in Seq(I) |-> InsertByTime(v, items[i])]]
           Fold(f) == [s \in D |-> IF s = {} THEN <<>>
                                   ELSE InsertByTime(f[s \ {Max(s)}], items[Max(s)])]
           c == CHOOSE f : f = Fold(f)
<1>0. <<>> \in Seq(I)
  OBVIOUS
<1>1. n \in Nat /\ DOMAIN items = 1 .. n
  OBVIOUS
<1>2. ASSUME NEW i \in 1 .. n, NEW v \in Seq(I)
      PROVE  InsertByTime(v, items[i]) \in Seq(I)
  BY ByTimeIsASequence
<1>3. step \in [1 .. n -> [Seq(I) -> Seq(I)]]
  BY <1>2
<1>4. ASSUME NEW s \in D, s # {}
      PROVE  Max(s) \in 1 .. n /\ s \ {Max(s)} \in D
  BY <1>1, <1>4, MaxOfPart
<1>5. PICK f : FoldOf(f, n, Seq(I), <<>>, step)
  <2> HIDE DEF step, n
  <2> QED
    BY <1>0, <1>1, <1>3, FoldExists, Zenon
<1>6. f = Fold(f)
  <2>1. ASSUME NEW s \in D, s # {}
        PROVE  f[s] = InsertByTime(f[s \ {Max(s)}], items[Max(s)])
    BY <1>4, <1>5, <2>1 DEF FoldOf
  <2> QED
    BY <1>5, <2>1 DEF FoldOf
<1>7. c = Fold(c)
  <2> HIDE DEF Fold
  <2> QED
    BY <1>6
<1>8. InTimeOrder(items) = c[1 .. n]
  <2>1. InTimeOrder(items) = FoldLeft(InsertByTime, <<>>, items)
    BY DEF InTimeOrder
  <2> HIDE DEF n
  <2> QED
    BY <1>1, <2>1, Zenon DEF FoldLeft, MapThenFoldSet
<1> HIDE DEF c
<1>9. FoldIn(c, n, Seq(I), <<>>, step)
  BY <1>4, <1>7 DEF FoldIn
<1> HIDE DEF step, n
<1>10. PICK g : StepsOf(g, n, Seq(I), <<>>, step, c[1 .. n])
  BY <1>0, <1>1, <1>3, <1>9, FoldIsSteps, Zenon
<1>11. ASSUME NEW i \in 1 .. n
       PROVE  g[i] = InsertByTime(g[i - 1], items[i])
  <2>1. i - 1 \in 0 .. n
    BY <1>1
  <2>2. step[i][g[i - 1]] = InsertByTime(g[i - 1], items[i])
    BY <1>10, <2>1 DEF step, StepsOf
  <2> QED
    BY <1>10, <2>2 DEF StepsOf
<1> QED
  BY <1>8, <1>10, <1>11 DEF n, StepsOf

\* The step of Only: an item is kept if it is in S.
Keep(kept, item, S) == IF item \in S THEN Append(kept, item) ELSE kept

\* Keeping only some items, item by item.
LEMMA OnlySteps ==
    ASSUME NEW I, NEW items \in Seq(I), NEW S
    PROVE  \E g \in [0 .. Len(items) -> Seq(I)] :
             /\ g[0] = <<>>
             /\ \A i \in 1 .. Len(items) : g[i] = Keep(g[i - 1], items[i], S)
             /\ Only(items, S) = g[Len(items)]
<1> DEFINE n == Len(items)
           D == SUBSET (1 .. n)
           step == [i \in 1 .. n |-> [v \in Seq(I) |-> Keep(v, items[i], S)]]
           Fold(f) == [s \in D |-> IF s = {} THEN <<>>
                                   ELSE Keep(f[s \ {Max(s)}], items[Max(s)], S)]
           c == CHOOSE f : f = Fold(f)
<1>0. <<>> \in Seq(I)
  OBVIOUS
<1>1. n \in Nat /\ DOMAIN items = 1 .. n
  OBVIOUS
<1>2. ASSUME NEW i \in 1 .. n, NEW v \in Seq(I)
      PROVE  Keep(v, items[i], S) \in Seq(I)
  BY DEF Keep
<1>3. step \in [1 .. n -> [Seq(I) -> Seq(I)]]
  BY <1>2
<1>4. ASSUME NEW s \in D, s # {}
      PROVE  Max(s) \in 1 .. n /\ s \ {Max(s)} \in D
  BY <1>1, <1>4, MaxOfPart
<1>5. PICK f : FoldOf(f, n, Seq(I), <<>>, step)
  <2> HIDE DEF step, n
  <2> QED
    BY <1>0, <1>1, <1>3, FoldExists, Zenon
<1>6. f = Fold(f)
  <2>1. ASSUME NEW s \in D, s # {}
        PROVE  f[s] = Keep(f[s \ {Max(s)}], items[Max(s)], S)
    BY <1>4, <1>5, <2>1 DEF FoldOf
  <2> QED
    BY <1>5, <2>1 DEF FoldOf
<1>7. c = Fold(c)
  <2> HIDE DEF Fold
  <2> QED
    BY <1>6
<1>8. Only(items, S) = c[1 .. n]
  <2>1. Only(items, S) = FoldLeft(LAMBDA kept, item : IF item \in S THEN Append(kept, item) ELSE kept, <<>>, items)
    BY DEF Only
  <2> HIDE DEF n
  <2> QED
    BY <1>1, <2>1, Zenon DEF FoldLeft, MapThenFoldSet, Keep
<1> HIDE DEF c
<1>9. FoldIn(c, n, Seq(I), <<>>, step)
  BY <1>4, <1>7 DEF FoldIn
<1> HIDE DEF step, n
<1>10. PICK g : StepsOf(g, n, Seq(I), <<>>, step, c[1 .. n])
  BY <1>0, <1>1, <1>3, <1>9, FoldIsSteps, Zenon
<1>11. ASSUME NEW i \in 1 .. n
       PROVE  g[i] = Keep(g[i - 1], items[i], S)
  <2>1. i - 1 \in 0 .. n
    BY <1>1
  <2>2. step[i][g[i - 1]] = Keep(g[i - 1], items[i], S)
    BY <1>10, <2>1 DEF step, StepsOf
  <2> QED
    BY <1>10, <2>2 DEF StepsOf
<1> QED
  BY <1>8, <1>10, <1>11 DEF n, StepsOf

-----------------------------------------------------------------------------
\* A longer part of a list has one element more, which is not in the shorter.
LEMMA PartsGrow ==
    ASSUME NEW S, NEW q, Lists(q, S)
    PROVE  /\ Len(q) \in Nat
           /\ Part(q, 1, 0) = {}
           /\ Part(q, 1, Len(q)) = S
           /\ \A k \in 0 .. Len(q) - 1 :
                /\ Part(q, 1, k + 1) = Part(q, 1, k) \cup {q[k + 1]}
                /\ q[k + 1] \notin Part(q, 1, k)
                /\ q[k + 1] \in S
                /\ k + 1 \in 1 .. Len(q)
<1>1. Len(q) \in Nat
  BY DEF Lists
<1>2. Part(q, 1, Len(q)) = S
  BY DEF Lists, Part
<1>3. Part(q, 1, 0) = {}
  BY DEF Part
<1>4. ASSUME NEW k \in 0 .. Len(q) - 1
      PROVE  /\ Part(q, 1, k + 1) = Part(q, 1, k) \cup {q[k + 1]}
             /\ q[k + 1] \notin Part(q, 1, k)
             /\ q[k + 1] \in S
             /\ k + 1 \in 1 .. Len(q)
  <2>1. k + 1 \in 1 .. Len(q) /\ k \in Nat
    BY <1>1
  <2>2. 1 .. k + 1 = (1 .. k) \cup {k + 1}
    BY <2>1
  <2>3. Part(q, 1, k + 1) = Part(q, 1, k) \cup {q[k + 1]}
    BY <2>2, Zenon DEF Part
  <2>4. \A i \in 1 .. k : i \in 1 .. Len(q) /\ i # k + 1
    BY <1>1, <2>1
  <2>5. q[k + 1] \notin Part(q, 1, k)
    BY <2>1, <2>4 DEF Lists, Part
  <2> QED
    BY <2>1, <2>3, <2>5 DEF Lists
<1> QED
  BY <1>1, <1>2, <1>3, <1>4

\* Sorting by time loses nothing and adds nothing.
LEMMA InTimeOrderLists ==
    ASSUME NEW S, NEW items, Lists(items, S)
    PROVE  Lists(InTimeOrder(items), S)
<1> DEFINE n == Len(items)
<1>1. items \in Seq(S) /\ n \in Nat
  BY DEF Lists
<1>2. PICK g \in [0 .. n -> Seq(S)] :
           /\ g[0] = <<>>
           /\ \A i \in 1 .. n : g[i] = InsertByTime(g[i - 1], items[i])
           /\ InTimeOrder(items) = g[n]
  BY <1>1, InTimeOrderSteps, Zenon
<1> DEFINE P == {k \in 0 .. n : Lists(g[k], Part(items, 1, k))}
<1>3. 0 \in P
  <2>1. Part(items, 1, 0) = {} /\ Lists(<<>>, {})
    BY PartsGrow, ListsNothing
  <2>2. 0 \in 0 .. n
    BY <1>1
  <2> QED
    BY <1>2, <2>1, <2>2
<1>4. ASSUME NEW k \in 0 .. n - 1, k \in P
      PROVE  k + 1 \in P
  <2>1. /\ Part(items, 1, k + 1) = Part(items, 1, k) \cup {items[k + 1]}
        /\ items[k + 1] \notin Part(items, 1, k)
        /\ k + 1 \in 1 .. n /\ k + 1 \in 0 .. n /\ (k + 1) - 1 = k
    BY PartsGrow
  <2>2. g[k + 1] = InsertByTime(g[k], items[k + 1])
    BY <1>2, <2>1
  <2>3. Lists(g[k], Part(items, 1, k))
    BY <1>4
  <2>4. Lists(InsertByTime(g[k], items[k + 1]), Part(items, 1, k) \cup {items[k + 1]})
    BY <2>1, <2>3, ListsByTime, Zenon
  <2> QED
    BY <2>1, <2>2, <2>4
<1>5. \A k \in 0 .. n : k \in P
  <2> HIDE DEF P, n
  <2> QED
    BY <1>1, <1>3, <1>4, StepByStep, Zenon
<1>6. n \in 0 .. n
  BY <1>1
<1> QED
  BY <1>2, <1>5, <1>6, PartsGrow

\* Keeping what is in a set keeps all of that.
LEMMA OnlyLists ==
    ASSUME NEW S, NEW items, Lists(items, S), NEW T
    PROVE  Lists(Only(items, T), S \cap T)
<1> DEFINE n == Len(items)
<1>1. items \in Seq(S) /\ n \in Nat
  BY DEF Lists
<1>2. PICK g \in [0 .. n -> Seq(S)] :
           /\ g[0] = <<>>
           /\ \A i \in 1 .. n : g[i] = Keep(g[i - 1], items[i], T)
           /\ Only(items, T) = g[n]
  BY <1>1, OnlySteps, ZenonT(60)
<1> DEFINE P == {k \in 0 .. n : Lists(g[k], Part(items, 1, k) \cap T)}
<1>3. 0 \in P
  <2>1. Part(items, 1, 0) \cap T = {} /\ Lists(<<>>, {})
    BY PartsGrow, ListsNothing
  <2>2. 0 \in 0 .. n
    BY <1>1
  <2> QED
    BY <1>2, <2>1, <2>2
<1>4. ASSUME NEW k \in 0 .. n - 1, k \in P
      PROVE  k + 1 \in P
  <2>1. /\ Part(items, 1, k + 1) = Part(items, 1, k) \cup {items[k + 1]}
        /\ items[k + 1] \notin Part(items, 1, k)
        /\ k + 1 \in 1 .. n /\ k + 1 \in 0 .. n /\ (k + 1) - 1 = k
    BY PartsGrow
  <2>2. g[k + 1] = Keep(g[k], items[k + 1], T)
    BY <1>2, <2>1
  <2>3. Lists(g[k], Part(items, 1, k) \cap T)
    BY <1>4
  <2>4. CASE items[k + 1] \in T
    <3>1. items[k + 1] \notin Part(items, 1, k) \cap T
      BY <2>1
    <3>2. Lists(Append(g[k], items[k + 1]), (Part(items, 1, k) \cap T) \cup {items[k + 1]})
      BY <2>3, <3>1, ListsOneMore, Zenon
    <3>3. (Part(items, 1, k) \cap T) \cup {items[k + 1]} = Part(items, 1, k + 1) \cap T
      BY <2>1, <2>4
    <3> QED
      BY <2>1, <2>2, <2>4, <3>2, <3>3 DEF Keep
  <2>5. CASE items[k + 1] \notin T
    <3>1. Part(items, 1, k) \cap T = Part(items, 1, k + 1) \cap T
      BY <2>1, <2>5
    <3> QED
      BY <2>1, <2>2, <2>3, <2>5, <3>1 DEF Keep
  <2> QED
    BY <2>4, <2>5
<1>5. \A k \in 0 .. n : k \in P
  <2> HIDE DEF P, n
  <2> QED
    BY <1>1, <1>3, <1>4, StepByStep, Zenon
<1>6. n \in 0 .. n
  BY <1>1
<1> QED
  BY <1>2, <1>5, <1>6, PartsGrow

-----------------------------------------------------------------------------
(* The nearest of some groups.                                               *)

\* A centre: a sum of places over the number of them.
Fraction == [num : Int, den : Nat \ {0}]

\* Multiplying by a positive number keeps an order.
LEMMA TimesKeepsOrder ==
    ASSUME NEW x \in Int, NEW y \in Int, NEW z \in Nat \ {0}
    PROVE  x * z <= y * z <=> x <= y
<1>1. (y - x) * z = y * z - x * z
  OBVIOUS
<1>2. ASSUME NEW d \in Int
      PROVE  d * z >= 0 <=> d >= 0
  OBVIOUS
<1>3. y - x \in Int /\ x * z \in Int /\ y * z \in Int
  OBVIOUS
<1>4. (y - x) * z >= 0 <=> y - x >= 0
  BY <1>2, <1>3
<1> QED
  BY <1>1, <1>3, <1>4

\* Of three centres, if the first is nearer than the second and that nearer
\* than the third, the first is nearer than the third: the comparison of
\* fractions is transitive.
LEMMA NearerIsAnOrder ==
    ASSUME NEW a \in Fraction, NEW b \in Fraction, NEW c \in Fraction
    PROVE  /\ ~Nearer(b, a) /\ ~Nearer(c, b) => ~Nearer(c, a)
           /\ Nearer(a, b) => ~Nearer(b, a)
           /\ ~Nearer(a, a)
<1>0. /\ a.num \in Int /\ b.num \in Int /\ c.num \in Int
      /\ a.den \in Nat \ {0} /\ b.den \in Nat \ {0} /\ c.den \in Nat \ {0}
  BY DEF Fraction
<1>1. ASSUME NEW an \in Int, NEW bn \in Int, NEW cn \in Int,
             NEW ad \in Nat \ {0}, NEW bd \in Nat \ {0}, NEW cd \in Nat \ {0},
             an * bd <= bn * ad, bn * cd <= cn * bd
      PROVE  an * cd <= cn * ad
  <2>1. an * bd \in Int /\ bn * ad \in Int /\ bn * cd \in Int /\ cn * bd \in Int /\ an * cd \in Int /\ cn * ad \in Int
    OBVIOUS
  <2>2. (an * bd) * cd <= (bn * ad) * cd
    BY <1>1, <2>1, TimesKeepsOrder
  <2>3. (bn * cd) * ad <= (cn * bd) * ad
    BY <1>1, <2>1, TimesKeepsOrder
  <2>4. (bn * ad) * cd = (bn * cd) * ad /\ (an * bd) * cd = (an * cd) * bd /\ (cn * bd) * ad = (cn * ad) * bd
    OBVIOUS
  <2>5. (an * cd) * bd <= (cn * ad) * bd
    <3>1. (an * bd) * cd \in Int /\ (bn * ad) * cd \in Int /\ (cn * bd) * ad \in Int
      BY <2>1
    <3> HIDE <2>1
    <3> QED
      BY <2>2, <2>3, <2>4, <3>1
  <2> QED
    BY <2>1, <2>5, TimesKeepsOrder
<1>2. ASSUME ~Nearer(b, a), ~Nearer(c, b)
      PROVE  ~Nearer(c, a)
  <2>1. a.num * b.den <= b.num * a.den /\ b.num * c.den <= c.num * b.den
    BY <1>0, <1>2 DEF Nearer
  <2>2. a.num * c.den <= c.num * a.den
    BY <1>0, <1>1, <2>1
  <2> QED
    BY <1>0, <2>2 DEF Nearer
<1>3. Nearer(a, b) => ~Nearer(b, a)
  BY <1>0 DEF Nearer
<1>4. ~Nearer(a, a)
  BY <1>0 DEF Nearer
<1> QED
  BY <1>2, <1>3, <1>4

\* Some group is as near as any.
LEMMA SomeIsNearest ==
    ASSUME NEW n \in Nat, NEW near \in SUBSET (1 .. n), near # {}, NEW km \in [near -> Fraction]
    PROVE  \E g \in near : \A h \in near : ~Nearer(km[h], km[g])
<1> DEFINE Ok(k) == \A j \in near : j <= k => \E g \in near : \A h \in near : h <= k => ~Nearer(km[h], km[g])
           P == {k \in 0 .. n : Ok(k)}
<1>0. \A g \in near : g \in 1 .. n /\ g \in Nat
  OBVIOUS
<1>1. 0 \in P
  BY <1>0
<1>2. ASSUME NEW k \in 0 .. n - 1, k \in P
      PROVE  k + 1 \in P
  <2> DEFINE e == k + 1
  <2>0. k \in Nat /\ e \in 0 .. n /\ Ok(k)
    BY <1>2
  <2>1. \A h \in near : h <= e => h <= k \/ h = e
    BY <1>0, <2>0
  <2>2. SUFFICES ASSUME NEW j \in near, j <= e
                 PROVE  \E g \in near : \A h \in near : h <= e => ~Nearer(km[h], km[g])
    BY <2>0
  <2> HIDE DEF e
  <2>3. CASE e \notin near
    <3>1. j <= k
      BY <2>1, <2>2, <2>3
    <3>2. PICK g \in near : \A h \in near : h <= k => ~Nearer(km[h], km[g])
      BY <2>0, <3>1
    <3> QED
      BY <2>1, <2>3, <3>2
  <2>4. CASE e \in near /\ ~\E i \in near : i <= k
    <3>1. \A h \in near : h <= e => h = e
      BY <2>1, <2>4
    <3>2. ~Nearer(km[e], km[e])
      BY <2>4, NearerIsAnOrder
    <3> QED
      BY <2>4, <3>1, <3>2
  <2>5. CASE e \in near /\ \E i \in near : i <= k
    <3>1. PICK g \in near : \A h \in near : h <= k => ~Nearer(km[h], km[g])
      BY <2>0, <2>5
    <3>2. CASE Nearer(km[e], km[g])
      <4>1. ~Nearer(km[g], km[e]) /\ ~Nearer(km[e], km[e])
        BY <2>5, <3>2, NearerIsAnOrder
      <4>2. \A h \in near : h <= e => ~Nearer(km[h], km[e])
        BY <2>1, <2>5, <3>1, <4>1, NearerIsAnOrder
      <4> QED
        BY <2>5, <4>2
    <3>3. CASE ~Nearer(km[e], km[g])
      BY <2>1, <3>1, <3>3
    <3> QED
      BY <3>2, <3>3
  <2> QED
    BY <2>3, <2>4, <2>5
<1>3. \A k \in 0 .. n : k \in P
  <2> HIDE DEF P
  <2> QED
    BY <1>1, <1>2, StepByStep, Zenon
<1>4. Ok(n)
  <2>1. n \in 0 .. n
    OBVIOUS
  <2>2. n \in P
    BY <1>3, <2>1
  <2> QED
    BY <2>2
<1>5. PICK j \in near : TRUE
  OBVIOUS
<1>6. \A h \in near : h <= n
  BY <1>0
<1> QED
  BY <1>4, <1>5, <1>6

\* Of those as near as any, a first and a last one.
LEMMA NearestExists ==
    ASSUME NEW n \in Nat, NEW near \in SUBSET (1 .. n), near # {}, NEW km \in [near -> Fraction]
    PROVE  /\ \E g \in near : \A h \in near : ~Nearer(km[h], km[g]) /\ (h < g => Nearer(km[g], km[h]))
           /\ \E g \in near : \A h \in near : ~Nearer(km[h], km[g]) /\ (h > g => Nearer(km[g], km[h]))
<1> DEFINE E == {g \in near : \A h \in near : ~Nearer(km[h], km[g])}
<1>0. \A g \in near : g \in 1 .. n /\ g \in Nat
  OBVIOUS
<1>1. E # {} /\ E \subseteq Nat /\ E \in SUBSET (1 .. n)
  BY <1>0, SomeIsNearest
<1>2. ASSUME NEW g \in E, NEW h \in near, h \notin E
      PROVE  Nearer(km[g], km[h])
  <2>1. PICK k \in near : Nearer(km[k], km[h])
    BY <1>2
  <2>2. ~Nearer(km[k], km[g])
    OBVIOUS
  <2>3. ~Nearer(km[g], km[h]) => ~Nearer(km[k], km[h])
    <3>1. km[g] \in Fraction /\ km[h] \in Fraction /\ km[k] \in Fraction
      OBVIOUS
    <3> QED
      BY <2>2, <3>1, NearerIsAnOrder
  <2> QED
    BY <2>1, <2>3
<1>3. \E g \in near : \A h \in near : ~Nearer(km[h], km[g]) /\ (h < g => Nearer(km[g], km[h]))
  <2>1. PICK g \in E : \A h \in E : g <= h
    <3> HIDE DEF E
    <3> QED
      BY <1>1, LeastOfNaturals
  <2>2. \A h \in near : h < g => h \notin E
    BY <1>0, <2>1
  <2> QED
    BY <1>2, <2>1, <2>2
<1>4. \E g \in near : \A h \in near : ~Nearer(km[h], km[g]) /\ (h > g => Nearer(km[g], km[h]))
  <2>1. PICK g \in E : \A h \in E : h <= g
    <3> HIDE DEF E
    <3> QED
      BY <1>1, MaxOfPart
  <2>2. \A h \in near : h > g => h \notin E
    BY <1>0, <2>1
  <2> QED
    BY <1>2, <2>1, <2>2
<1> QED
  BY <1>3, <1>4

-----------------------------------------------------------------------------
(* Groups that have every element of a set once between them.                *)

\* The groups, none of them empty, list the elements of S between them, every
\* element in one group.
Grouped(groups, S) ==
    /\ groups \in Seq(Seq(S))
    /\ \A g \in 1 .. Len(groups) : Len(groups[g]) >= 1 /\ Lists(groups[g], ToSet(groups[g]))
    /\ \A s \in S : \E g \in 1 .. Len(groups) : s \in ToSet(groups[g])
    /\ \A g, h \in 1 .. Len(groups) : g # h => ToSet(groups[g]) \cap ToSet(groups[h]) = {}

\* A list lists the set of its items.
LEMMA ListsItsItems ==
    ASSUME NEW S, NEW q, Lists(q, S)
    PROVE  ToSet(q) = S
BY DEF Lists, ToSet

\* No groups group nothing.
LEMMA GroupedNothing == Grouped(<<>>, {})
BY DEF Grouped

\* The group of one item lists it.
LEMMA OneItem == ASSUME NEW e PROVE Lists(<<e>>, ToSet(<<e>>)) /\ ToSet(<<e>>) = {e} /\ Len(<<e>>) >= 1
<1>1. Lists(<<e>>, {e})
  BY ListsOne
<1>2. Len(<<e>>) >= 1
  OBVIOUS
<1> QED
  BY <1>1, <1>2, ListsItsItems

\* A group that an item joins lists one more.
LEMMA GroupOneMore ==
    ASSUME NEW q, Lists(q, ToSet(q)), Len(q) >= 1, NEW e, e \notin ToSet(q)
    PROVE  /\ ToSet(Append(q, e)) = ToSet(q) \cup {e}
           /\ Lists(Append(q, e), ToSet(Append(q, e)))
           /\ Len(Append(q, e)) >= 1
<1>1. Lists(Append(q, e), ToSet(q) \cup {e})
  BY ListsOneMore, Zenon
<1>2. Len(Append(q, e)) = Len(q) + 1 /\ Len(q) \in Nat
  BY DEF Lists
<1> QED
  BY <1>1, <1>2, ListsItsItems

\* An item begins a group.
LEMMA GroupsBegin ==
    ASSUME NEW S, NEW groups, Grouped(groups, S), NEW e, e \notin S
    PROVE  Grouped(Append(groups, <<e>>), S \cup {e})
<1> DEFINE T == S \cup {e}
           n == Len(groups)
           new == Append(groups, <<e>>)
<1>1. groups \in Seq(Seq(T)) /\ <<e>> \in Seq(T) /\ n \in Nat
  <2>1. \A q \in Seq(S) : q \in Seq(T)
    BY SeqMonotonic
  <2>2. Seq(S) \subseteq Seq(T) /\ groups \in Seq(Seq(S))
    BY <2>1 DEF Grouped
  <2>3. groups \in Seq(Seq(T))
    BY <2>2, SeqMonotonic
  <2> QED
    BY <2>2, <2>3
<1>2. /\ new \in Seq(Seq(T)) /\ Len(new) = n + 1
      /\ \A g \in 1 .. n : new[g] = groups[g]
      /\ new[n + 1] = <<e>>
  BY <1>1
<1>3. ToSet(<<e>>) = {e} /\ Lists(<<e>>, ToSet(<<e>>)) /\ Len(<<e>>) >= 1
  BY OneItem
<1>4. \A g \in 1 .. n : e \notin ToSet(groups[g])
  <2>1. \A g \in 1 .. n : groups[g] \in Seq(S)
    BY DEF Grouped
  <2> QED
    BY <2>1 DEF ToSet
<1>5. \A g \in 1 .. n + 1 : g \in 1 .. n \/ g = n + 1
  BY <1>1
<1>6. n + 1 \in 1 .. n + 1 /\ \A g \in 1 .. n : g \in 1 .. n + 1
  BY <1>1
<1> HIDE DEF new
<1>7. \A g \in 1 .. n + 1 : Len(new[g]) >= 1 /\ Lists(new[g], ToSet(new[g]))
  BY <1>2, <1>3, <1>5 DEF Grouped
<1>8. ASSUME NEW s \in T
      PROVE  \E g \in 1 .. n + 1 : s \in ToSet(new[g])
  <2>1. CASE s \in S
    BY <1>2, <1>6, <2>1 DEF Grouped
  <2>2. CASE s = e
    BY <1>2, <1>3, <1>6, <2>2
  <2> QED
    BY <2>1, <2>2
<1>9. \A g, h \in 1 .. n + 1 : g # h => ToSet(new[g]) \cap ToSet(new[h]) = {}
  <2>1. \A g \in 1 .. n : ToSet(new[g]) = ToSet(groups[g]) /\ e \notin ToSet(new[g])
    BY <1>2, <1>4
  <2>2. ToSet(new[n + 1]) = {e}
    BY <1>2, <1>3
  <2>3. \A g, h \in 1 .. n : g # h => ToSet(new[g]) \cap ToSet(new[h]) = {}
    BY <2>1 DEF Grouped
  <2>4. \A g \in 1 .. n : ToSet(new[g]) \cap ToSet(new[n + 1]) = {} /\ ToSet(new[n + 1]) \cap ToSet(new[g]) = {}
    BY <2>1, <2>2
  <2> QED
    BY <1>5, <2>3, <2>4
<1> HIDE DEF n, T
<1>10. Grouped(new, T)
  BY <1>2, <1>7, <1>8, <1>9 DEF Grouped
<1> QED
  BY <1>10 DEF new, T

\* An item joins a group.
LEMMA GroupsExtend ==
    ASSUME NEW S, NEW groups, Grouped(groups, S), NEW e, e \notin S, NEW b \in 1 .. Len(groups)
    PROVE  Grouped([groups EXCEPT ![b] = Append(@, e)], S \cup {e})
<1> DEFINE T == S \cup {e}
           n == Len(groups)
           new == [groups EXCEPT ![b] = Append(@, e)]
<1>1. groups \in Seq(Seq(T)) /\ n \in Nat
  <2>1. \A q \in Seq(S) : q \in Seq(T)
    BY SeqMonotonic
  <2>2. Seq(S) \subseteq Seq(T) /\ groups \in Seq(Seq(S))
    BY <2>1 DEF Grouped
  <2>3. groups \in Seq(Seq(T))
    BY <2>2, SeqMonotonic
  <2> QED
    BY <2>3
<1>2. /\ new \in Seq(Seq(T)) /\ Len(new) = n
      /\ \A g \in 1 .. n : g # b => new[g] = groups[g]
      /\ new[b] = Append(groups[b], e)
  <2>1. groups[b] \in Seq(T) /\ e \in T
    BY <1>1
  <2>2. Append(groups[b], e) \in Seq(T)
    BY <2>1
  <2>3. new = [groups EXCEPT ![b] = Append(groups[b], e)]
    OBVIOUS
  <2> HIDE DEF T
  <2> QED
    BY <1>1, <2>2, <2>3, ExceptSeq
<1>3. \A g \in 1 .. n : e \notin ToSet(groups[g])
  <2>1. \A g \in 1 .. n : groups[g] \in Seq(S)
    BY DEF Grouped
  <2> QED
    BY <2>1 DEF ToSet
<1>4. ToSet(new[b]) = ToSet(groups[b]) \cup {e} /\ Lists(new[b], ToSet(new[b])) /\ Len(new[b]) >= 1
  <2>1. Lists(groups[b], ToSet(groups[b])) /\ Len(groups[b]) >= 1 /\ e \notin ToSet(groups[b])
    BY <1>3 DEF Grouped
  <2> QED
    BY <1>2, <2>1, GroupOneMore
<1> HIDE DEF new
<1>5. \A g \in 1 .. n : Len(new[g]) >= 1 /\ Lists(new[g], ToSet(new[g]))
  BY <1>2, <1>4 DEF Grouped
<1>6. ASSUME NEW s \in T
      PROVE  \E g \in 1 .. n : s \in ToSet(new[g])
  <2>1. CASE s \in S
    <3>1. PICK g \in 1 .. n : s \in ToSet(groups[g])
      BY <2>1 DEF Grouped
    <3> QED
      BY <1>2, <1>4, <3>1
  <2>2. CASE s = e
    BY <1>4, <2>2
  <2> QED
    BY <2>1, <2>2
<1>7. \A g \in 1 .. n : ToSet(new[g]) = IF g = b THEN ToSet(groups[g]) \cup {e} ELSE ToSet(groups[g])
  BY <1>2, <1>4
<1>8. ASSUME NEW g \in 1 .. n, NEW h \in 1 .. n, g # h
      PROVE  ToSet(new[g]) \cap ToSet(new[h]) = {}
  <2>1. ToSet(groups[g]) \cap ToSet(groups[h]) = {}
    BY <1>8 DEF Grouped
  <2>2. CASE g = b
    <3>1. ToSet(new[g]) = ToSet(groups[g]) \cup {e} /\ ToSet(new[h]) = ToSet(groups[h])
      BY <1>7, <1>8, <2>2
    <3> QED
      BY <1>3, <2>1, <3>1
  <2>3. CASE h = b
    <3>1. ToSet(new[h]) = ToSet(groups[h]) \cup {e} /\ ToSet(new[g]) = ToSet(groups[g])
      BY <1>7, <1>8, <2>3
    <3> QED
      BY <1>3, <2>1, <3>1
  <2>4. CASE g # b /\ h # b
    BY <1>7, <2>1, <2>4
  <2> QED
    BY <2>2, <2>3, <2>4
<1> HIDE DEF n, T
<1>9. Grouped(new, T)
  BY <1>2, <1>5, <1>6, <1>8 DEF Grouped
<1> QED
  BY <1>9 DEF new, T

\* Every group is one of two sequences of groups.
FromEither(groups, p, q) ==
    \A g \in 1 .. Len(groups) : \/ \E h \in 1 .. Len(p) : groups[g] = p[h]
                               \/ \E h \in 1 .. Len(q) : groups[g] = q[h]

\* Groups of two sets that share nothing, one after the other, group both.
LEMMA GroupsConcatenated ==
    ASSUME NEW S, NEW p, Grouped(p, S), NEW T, NEW q, Grouped(q, T), S \cap T = {}
    PROVE  Grouped(p \o q, S \cup T) /\ FromEither(p \o q, p, q)
<1> DEFINE U == S \cup T
           m == Len(p)
           n == Len(q)
           new == p \o q
<1>1. p \in Seq(Seq(U)) /\ q \in Seq(Seq(U)) /\ m \in Nat /\ n \in Nat
  <2>1. (\A x \in Seq(S) : x \in Seq(U)) /\ \A x \in Seq(T) : x \in Seq(U)
    BY SeqMonotonic
  <2>2. Seq(S) \subseteq Seq(U) /\ Seq(T) \subseteq Seq(U) /\ p \in Seq(Seq(S)) /\ q \in Seq(Seq(T))
    BY <2>1 DEF Grouped
  <2>3. p \in Seq(Seq(U)) /\ q \in Seq(Seq(U))
    BY <2>2, SeqMonotonic
  <2> QED
    BY <2>3
<1>2. /\ new \in Seq(Seq(U)) /\ Len(new) = m + n
      /\ \A i \in 1 .. m + n : new[i] = IF i <= m THEN p[i] ELSE q[i - m]
  BY <1>1, ConcatProperties
<1> HIDE DEF new
<1>3. ASSUME NEW g \in 1 .. m + n
      PROVE  \/ g \in 1 .. m /\ new[g] = p[g]
             \/ g \notin 1 .. m /\ g - m \in 1 .. n /\ new[g] = q[g - m]
  BY <1>1, <1>2
<1>4. /\ \A g \in 1 .. m : g \in 1 .. m + n /\ new[g] = p[g]
      /\ \A g \in 1 .. n : m + g \in 1 .. m + n /\ new[m + g] = q[g]
  <2>1. ASSUME NEW g \in 1 .. n
        PROVE  m + g \in 1 .. m + n /\ ~(m + g <= m) /\ (m + g) - m = g
    BY <1>1
  <2>2. \A g \in 1 .. m : g \in 1 .. m + n /\ g <= m
    BY <1>1
  <2> QED
    BY <1>2, <2>1, <2>2
<1>5. /\ \A g \in 1 .. m : ToSet(p[g]) \subseteq S
      /\ \A g \in 1 .. n : ToSet(q[g]) \subseteq T
  <2>1. (\A g \in 1 .. m : p[g] \in Seq(S)) /\ \A g \in 1 .. n : q[g] \in Seq(T)
    BY DEF Grouped
  <2> QED
    BY <2>1 DEF ToSet
<1>6. \A g \in 1 .. m + n : Len(new[g]) >= 1 /\ Lists(new[g], ToSet(new[g]))
  BY <1>3 DEF Grouped
<1>7. ASSUME NEW s \in U
      PROVE  \E g \in 1 .. m + n : s \in ToSet(new[g])
  <2>1. CASE s \in S
    <3>1. PICK g \in 1 .. m : s \in ToSet(p[g])
      BY <2>1 DEF Grouped
    <3> QED
      BY <1>4, <3>1
  <2>2. CASE s \in T
    <3>1. PICK g \in 1 .. n : s \in ToSet(q[g])
      BY <2>2 DEF Grouped
    <3> QED
      BY <1>4, <3>1
  <2> QED
    BY <2>1, <2>2
<1>8. ASSUME NEW g \in 1 .. m + n, NEW h \in 1 .. m + n, g # h
      PROVE  ToSet(new[g]) \cap ToSet(new[h]) = {}
  <2>1. CASE g \in 1 .. m /\ h \in 1 .. m
    BY <1>3, <1>8, <2>1 DEF Grouped
  <2>2. CASE g \notin 1 .. m /\ h \notin 1 .. m
    <3>1. g - m \in 1 .. n /\ h - m \in 1 .. n /\ new[g] = q[g - m] /\ new[h] = q[h - m]
      BY <1>3, <2>2
    <3>2. g - m # h - m
      BY <1>1, <1>8
    <3> QED
      BY <3>1, <3>2 DEF Grouped
  <2>3. \A k \in 1 .. m + n : (k \in 1 .. m => ToSet(new[k]) \subseteq S)
                              /\ (k \notin 1 .. m => ToSet(new[k]) \subseteq T)
    BY <1>3, <1>5
  <2>4. CASE g \in 1 .. m /\ h \notin 1 .. m
    <3>1. ToSet(new[g]) \subseteq S /\ ToSet(new[h]) \subseteq T
      BY <2>3, <2>4
    <3>2. \A x : x \in S => x \notin T
      OBVIOUS
    <3> QED
      BY <3>1, <3>2, Zenon
  <2>5. CASE g \notin 1 .. m /\ h \in 1 .. m
    <3>1. ToSet(new[h]) \subseteq S /\ ToSet(new[g]) \subseteq T
      BY <2>3, <2>5
    <3>2. \A x : x \in S => x \notin T
      OBVIOUS
    <3> QED
      BY <3>1, <3>2, Zenon
  <2> QED
    BY <2>1, <2>2, <2>4, <2>5
<1>9. Grouped(new, U)
  <2> HIDE DEF m, n, U
  <2> QED
    BY <1>2, <1>6, <1>7, <1>8 DEF Grouped
<1>10. \A g \in 1 .. Len(new) : (\E h \in 1 .. m : new[g] = p[h]) \/ (\E h \in 1 .. n : new[g] = q[h])
  BY <1>2, <1>3
<1> QED
  BY <1>9, <1>10 DEF new, FromEither

-----------------------------------------------------------------------------
(* Linking.                                                                  *)

\* The centre of a group is a fraction with a denominator that is not 0.
LEMMA CentreIsAFraction ==
    ASSUME NEW I, \A i \in I : i.place \in Int, NEW group \in Seq(I), Len(group) >= 1, NEW p \in Int
    PROVE  Km(p, Centroid(group)) \in Fraction
<1> DEFINE c == Centroid(group)
<1>1. c.of = Len(group) /\ Len(group) \in Nat \ {0}
  <2>1. \E v : c = [sum |-> v, of |-> Len(group)]
    BY Zenon DEF Centroid
  <2> QED
    BY <2>1
<1>2. c.sum \in Int
  <2>1. PICK g \in [0 .. Len(group) -> Int] : c.sum = g[Len(group)]
    BY SumSteps
  <2>2. Len(group) \in 0 .. Len(group)
    BY <1>1
  <2> QED
    BY <2>1, <2>2
<1>3. Km(p, c) = [num |-> Distance(p * c.of, c.sum), den |-> c.of]
  BY DEF Km
<1> HIDE DEF c
<1>4. p * c.of \in Int
  BY <1>1
<1>5. Distance(p * c.of, c.sum) \in Int
  BY <1>2, <1>4 DEF Distance
<1> QED
  BY <1>1, <1>3, <1>5 DEF Fraction, c

\* Join makes a sequence of groups of a sequence of groups.
LEMMA JoinIsASequence ==
    ASSUME NEW I, NEW groups \in Seq(Seq(I)), NEW item \in I, NEW radius, NEW maxGap
    PROVE  Join(groups, item, radius, maxGap) \in Seq(Seq(I))
<1> DEFINE near == {g \in DOMAIN groups : Joins(groups[g], item, radius, maxGap)}
           b == Best(near, [g \in near |-> Km(item.place, Centroid(groups[g]))])
<1>1. Append(groups, <<item>>) \in Seq(Seq(I))
  OBVIOUS
<1>2. [groups EXCEPT ![b] = Append(@, item)] \in Seq(Seq(I))
  <2> HIDE DEF b
  <2>1. CASE b \in 1 .. Len(groups)
    <3>1. Append(groups[b], item) \in Seq(I)
      BY <2>1
    <3>2. [groups EXCEPT ![b] = Append(groups[b], item)] \in Seq(Seq(I))
      BY <2>1, <3>1, ExceptSeq
    <3> QED
      BY <3>2
  <2>2. CASE b \notin 1 .. Len(groups)
    <3>1. [groups EXCEPT ![b] = Append(@, item)] = groups
      BY <2>2
    <3> QED
      BY <3>1
  <2> QED
    BY <2>1, <2>2
<1>3. Join(groups, item, radius, maxGap) = IF near = {} THEN Append(groups, <<item>>)
                                           ELSE [groups EXCEPT ![b] = Append(@, item)]
  BY Zenon DEF Join
<1> HIDE DEF near, b
<1> QED
  BY <1>1, <1>2, <1>3

\* An item that joins finds its place in one group.
LEMMA JoinGroups ==
    ASSUME NEW S, NEW groups, Grouped(groups, S), NEW item, item \notin S,
           \A s \in S \cup {item} : s.place \in Int, NEW radius, NEW maxGap
    PROVE  Grouped(Join(groups, item, radius, maxGap), S \cup {item})
<1> DEFINE n == Len(groups)
           near == {g \in DOMAIN groups : Joins(groups[g], item, radius, maxGap)}
           km == [g \in near |-> Km(item.place, Centroid(groups[g]))]
           b == Best(near, km)
<1>1. n \in Nat /\ near \in SUBSET (1 .. n) /\ \A g \in near : groups[g] \in Seq(S) /\ Len(groups[g]) >= 1
  BY DEF Grouped
<1>2. km \in [near -> Fraction]
  BY <1>1, CentreIsAFraction
<1>3. Join(groups, item, radius, maxGap) = IF near = {} THEN Append(groups, <<item>>)
                                           ELSE [groups EXCEPT ![b] = Append(@, item)]
  BY Zenon DEF Join
<1>4. CASE near = {}
  BY <1>3, <1>4, GroupsBegin
<1>5. CASE near # {}
  <2> HIDE DEF km, near, n
  <2>1. b \in near
    BY <1>1, <1>2, <1>5, NearestExists DEF Best
  <2>2. b \in 1 .. Len(groups)
    BY <1>1, <2>1 DEF n
  <2> HIDE DEF b
  <2> QED
    <3>1. Grouped([groups EXCEPT ![b] = Append(@, item)], S \cup {item})
      BY <2>2, GroupsExtend, Zenon
    <3> QED
      BY <1>3, <1>5, <3>1, Zenon
<1> QED
  BY <1>4, <1>5

\* Linking, item by item.
LinkRun(g, I, items, radius, maxGap) ==
    /\ g \in [0 .. Len(InTimeOrder(items)) -> Seq(Seq(I))]
    /\ g[0] = <<>>
    /\ \A i \in 1 .. Len(InTimeOrder(items)) : g[i] = Join(g[i - 1], InTimeOrder(items)[i], radius, maxGap)
    /\ Link(items, radius, maxGap) = g[Len(InTimeOrder(items))]

\* Link goes through the items one at a time.
LEMMA LinkSteps ==
    ASSUME NEW I, NEW items, InTimeOrder(items) \in Seq(I), NEW radius, NEW maxGap
    PROVE  \E g : LinkRun(g, I, items, radius, maxGap)
<1> DEFINE n == Len(InTimeOrder(items))
           D == SUBSET (1 .. n)
           step == [i \in 1 .. n |-> [v \in Seq(Seq(I)) |-> Join(v, InTimeOrder(items)[i], radius, maxGap)]]
           Fold(f) == [s \in D |-> IF s = {} THEN <<>>
                                   ELSE Join(f[s \ {Max(s)}], InTimeOrder(items)[Max(s)], radius, maxGap)]
           c == CHOOSE f : f = Fold(f)
<1>0. <<>> \in Seq(Seq(I))
  OBVIOUS
<1>1. n \in Nat /\ DOMAIN InTimeOrder(items) = 1 .. n
  OBVIOUS
<1>2. ASSUME NEW i \in 1 .. n, NEW v \in Seq(Seq(I))
      PROVE  Join(v, InTimeOrder(items)[i], radius, maxGap) \in Seq(Seq(I))
  BY JoinIsASequence
<1>3. step \in [1 .. n -> [Seq(Seq(I)) -> Seq(Seq(I))]]
  BY <1>2
<1>4. ASSUME NEW s \in D, s # {}
      PROVE  Max(s) \in 1 .. n /\ s \ {Max(s)} \in D
  BY <1>1, <1>4, MaxOfPart
<1>5. PICK f : FoldOf(f, n, Seq(Seq(I)), <<>>, step)
  <2> HIDE DEF step, n
  <2> QED
    BY <1>0, <1>1, <1>3, FoldExists, Zenon
<1>6. f = Fold(f)
  <2>1. ASSUME NEW s \in D, s # {}
        PROVE  f[s] = Join(f[s \ {Max(s)}], InTimeOrder(items)[Max(s)], radius, maxGap)
    BY <1>4, <1>5, <2>1 DEF FoldOf
  <2> QED
    BY <1>5, <2>1 DEF FoldOf
<1>7. c = Fold(c)
  <2> HIDE DEF Fold
  <2> QED
    BY <1>6
<1>8. Link(items, radius, maxGap) = c[1 .. n]
  <2>1. Link(items, radius, maxGap) = FoldLeft(LAMBDA groups, item : Join(groups, item, radius, maxGap), <<>>, InTimeOrder(items))
    BY DEF Link
  <2> HIDE DEF n
  <2> QED
    BY <1>1, <2>1, Zenon DEF FoldLeft, MapThenFoldSet
<1> HIDE DEF c
<1>9. FoldIn(c, n, Seq(Seq(I)), <<>>, step)
  BY <1>4, <1>7 DEF FoldIn
<1> HIDE DEF step, n
<1>10. PICK g : StepsOf(g, n, Seq(Seq(I)), <<>>, step, c[1 .. n])
  BY <1>0, <1>1, <1>3, <1>9, FoldIsSteps, Zenon
<1>11. ASSUME NEW i \in 1 .. n
       PROVE  g[i] = Join(g[i - 1], InTimeOrder(items)[i], radius, maxGap)
  <2>1. i - 1 \in 0 .. n
    BY <1>1
  <2>2. step[i][g[i - 1]] = Join(g[i - 1], InTimeOrder(items)[i], radius, maxGap)
    BY <1>10, <2>1 DEF step, StepsOf
  <2> QED
    BY <1>10, <2>2 DEF StepsOf
<1> QED
  BY <1>8, <1>10, <1>11 DEF n, StepsOf, LinkRun

\* Linking puts every item into one group.
LEMMA LinkGroups ==
    ASSUME NEW S, NEW items, Lists(items, S), \A s \in S : s.place \in Int, NEW radius, NEW maxGap
    PROVE  Grouped(Link(items, radius, maxGap), S)
<1> DEFINE ordered == InTimeOrder(items)
           n == Len(ordered)
<1>1. Lists(ordered, S) /\ ordered \in Seq(S) /\ n \in Nat
  <2>1. Lists(ordered, S)
    BY InTimeOrderLists
  <2> QED
    BY <2>1 DEF Lists
<1>2. PICK g : LinkRun(g, S, items, radius, maxGap)
  BY <1>1, LinkSteps, Zenon
<1> DEFINE P == {k \in 0 .. n : Grouped(g[k], Part(ordered, 1, k))}
<1> HIDE DEF ordered
<1>3. 0 \in P
  <2>1. Part(ordered, 1, 0) = {} /\ Grouped(<<>>, {})
    BY <1>1, PartsGrow, GroupedNothing
  <2>2. 0 \in 0 .. n
    BY <1>1
  <2> QED
    BY <1>2, <2>1, <2>2 DEF LinkRun
<1>4. ASSUME NEW k \in 0 .. n - 1, k \in P
      PROVE  k + 1 \in P
  <2>1. /\ Part(ordered, 1, k + 1) = Part(ordered, 1, k) \cup {ordered[k + 1]}
        /\ ordered[k + 1] \notin Part(ordered, 1, k)
        /\ k + 1 \in 1 .. n
    BY <1>1, PartsGrow
  <2>2. k + 1 \in 0 .. n /\ (k + 1) - 1 = k
    BY <2>1
  <2>3. g[k + 1] = Join(g[k], ordered[k + 1], radius, maxGap)
    BY <1>2, <2>1, <2>2 DEF LinkRun, ordered
  <2>4. Grouped(g[k], Part(ordered, 1, k))
    BY <1>4
  <2>5. \A s \in Part(ordered, 1, k) \cup {ordered[k + 1]} : s.place \in Int
    <3>1. \A i \in 1 .. k + 1 : i \in 1 .. n
      BY <1>1, <2>1
    <3>2. \A i \in 1 .. n : ordered[i] \in S
      BY <1>1
    <3>3. Part(ordered, 1, k + 1) \subseteq S
      BY <3>1, <3>2 DEF Part
    <3> QED
      BY <2>1, <3>3
  <2>6. Grouped(Join(g[k], ordered[k + 1], radius, maxGap), Part(ordered, 1, k) \cup {ordered[k + 1]})
    BY <2>1, <2>4, <2>5, JoinGroups, Zenon
  <2> QED
    BY <2>1, <2>2, <2>3, <2>6
<1>5. \A k \in 0 .. n : k \in P
  <2> HIDE DEF P, n
  <2> QED
    BY <1>1, <1>3, <1>4, StepByStep, Zenon
<1>6. n \in 0 .. n
  BY <1>1
<1>7. Part(ordered, 1, n) = S
  BY <1>1, PartsGrow
<1> QED
  BY <1>2, <1>5, <1>6, <1>7 DEF LinkRun, ordered

-----------------------------------------------------------------------------
(* Signals grouped by type.                                                  *)

\* InTimeOrder makes a sequence of the same elements.
LEMMA OrderedIsASequence ==
    ASSUME NEW I, NEW items \in Seq(I)
    PROVE  InTimeOrder(items) \in Seq(I)
<1>1. PICK g \in [0 .. Len(items) -> Seq(I)] : InTimeOrder(items) = g[Len(items)]
  BY InTimeOrderSteps
<1>2. Len(items) \in 0 .. Len(items)
  OBVIOUS
<1> QED
  BY <1>1, <1>2

\* Only makes a sequence of the same elements.
LEMMA OnlyIsASequence ==
    ASSUME NEW I, NEW items \in Seq(I), NEW T
    PROVE  Only(items, T) \in Seq(I)
<1>1. PICK g \in [0 .. Len(items) -> Seq(I)] : Only(items, T) = g[Len(items)]
  BY OnlySteps
<1>2. Len(items) \in 0 .. Len(items)
  OBVIOUS
<1> QED
  BY <1>1, <1>2

\* Link makes a sequence of groups.
LEMMA LinkIsASequence ==
    ASSUME NEW I, NEW items \in Seq(I), NEW radius, NEW maxGap
    PROVE  Link(items, radius, maxGap) \in Seq(Seq(I))
<1>1. InTimeOrder(items) \in Seq(I)
  BY OrderedIsASequence
<1>2. PICK g : LinkRun(g, I, items, radius, maxGap)
  BY <1>1, LinkSteps, Zenon
<1>3. Len(InTimeOrder(items)) \in 0 .. Len(InTimeOrder(items))
  BY <1>1
<1> QED
  BY <1>2, <1>3 DEF LinkRun

\* The step of the types: a new one is added behind those met, unclear never.
MeetType(types, s) == IF s.type = "unclear" \/ Contains(types, s.type) THEN types ELSE Append(types, s.type)

\* The types of some signals, signal by signal.
TypesRun(g, I, signals) ==
    /\ g \in [0 .. Len(signals) -> Seq({s.type : s \in I})]
    /\ g[0] = <<>>
    /\ \A i \in 1 .. Len(signals) : g[i] = MeetType(g[i - 1], signals[i])
    /\ Types(signals) = g[Len(signals)]

\* The types of some signals are collected signal by signal.
LEMMA TypesSteps ==
    ASSUME NEW I, NEW signals \in Seq(I)
    PROVE  \E g : TypesRun(g, I, signals)
<1> DEFINE n == Len(signals)
           D == SUBSET (1 .. n)
           step == [i \in 1 .. n |-> [v \in Seq({s.type : s \in I}) |-> MeetType(v, signals[i])]]
           Fold(f) == [s \in D |-> IF s = {} THEN <<>>
                                   ELSE MeetType(f[s \ {Max(s)}], signals[Max(s)])]
           c == CHOOSE f : f = Fold(f)
<1>0. <<>> \in Seq({s.type : s \in I})
  OBVIOUS
<1>1. n \in Nat /\ DOMAIN signals = 1 .. n
  OBVIOUS
<1>2. ASSUME NEW i \in 1 .. n, NEW v \in Seq({s.type : s \in I})
      PROVE  MeetType(v, signals[i]) \in Seq({s.type : s \in I})
  <2>1. signals[i].type \in {s.type : s \in I}
    OBVIOUS
  <2> QED
    BY <2>1 DEF MeetType
<1>3. step \in [1 .. n -> [Seq({s.type : s \in I}) -> Seq({s.type : s \in I})]]
  BY <1>2
<1>4. ASSUME NEW s \in D, s # {}
      PROVE  Max(s) \in 1 .. n /\ s \ {Max(s)} \in D
  BY <1>1, <1>4, MaxOfPart
<1>5. PICK f : FoldOf(f, n, Seq({s.type : s \in I}), <<>>, step)
  <2> HIDE DEF step, n
  <2> QED
    BY <1>0, <1>1, <1>3, FoldExists, Zenon
<1>6. f = Fold(f)
  <2>1. ASSUME NEW s \in D, s # {}
        PROVE  f[s] = MeetType(f[s \ {Max(s)}], signals[Max(s)])
    BY <1>4, <1>5, <2>1 DEF FoldOf
  <2> QED
    BY <1>5, <2>1 DEF FoldOf
<1>7. c = Fold(c)
  <2> HIDE DEF Fold
  <2> QED
    BY <1>6
<1>8. Types(signals) = c[1 .. n]
  <2>1. Types(signals) = FoldLeft(LAMBDA types, s : IF s.type = "unclear" \/ Contains(types, s.type) THEN types
                                   ELSE Append(types, s.type), <<>>, signals)
    BY DEF Types
  <2> HIDE DEF n
  <2> QED
    BY <1>1, <2>1, Zenon DEF FoldLeft, MapThenFoldSet, MeetType
<1> HIDE DEF c
<1>9. FoldIn(c, n, Seq({s.type : s \in I}), <<>>, step)
  BY <1>4, <1>7 DEF FoldIn
<1> HIDE DEF step, n
<1>10. PICK g : StepsOf(g, n, Seq({s.type : s \in I}), <<>>, step, c[1 .. n])
  BY <1>0, <1>1, <1>3, <1>9, FoldIsSteps, Zenon
<1>11. ASSUME NEW i \in 1 .. n
       PROVE  g[i] = MeetType(g[i - 1], signals[i])
  <2>1. i - 1 \in 0 .. n
    BY <1>1
  <2>2. step[i][g[i - 1]] = MeetType(g[i - 1], signals[i])
    BY <1>10, <2>1 DEF step, StepsOf
  <2> QED
    BY <1>10, <2>2 DEF StepsOf
<1> QED
  BY <1>8, <1>10, <1>11 DEF n, StepsOf, TypesRun

\* A longer part of a sequence has the elements of the shorter and one element
\* more.
LEMMA PartsGrowAnyway ==
    ASSUME NEW I, NEW q \in Seq(I)
    PROVE  /\ Len(q) \in Nat
           /\ Part(q, 1, 0) = {}
           /\ Part(q, 1, Len(q)) = ToSet(q)
           /\ \A k \in 0 .. Len(q) - 1 :
                /\ Part(q, 1, k + 1) = Part(q, 1, k) \cup {q[k + 1]}
                /\ q[k + 1] \in I
                /\ k + 1 \in 1 .. Len(q)
<1>1. Len(q) \in Nat /\ Part(q, 1, 0) = {} /\ Part(q, 1, Len(q)) = ToSet(q)
  BY DEF Part, ToSet
<1>2. ASSUME NEW k \in 0 .. Len(q) - 1
      PROVE  /\ Part(q, 1, k + 1) = Part(q, 1, k) \cup {q[k + 1]}
             /\ q[k + 1] \in I
             /\ k + 1 \in 1 .. Len(q)
  <2>1. k + 1 \in 1 .. Len(q) /\ k \in Nat
    BY <1>1
  <2>2. 1 .. k + 1 = (1 .. k) \cup {k + 1}
    BY <2>1
  <2>3. Part(q, 1, k + 1) = Part(q, 1, k) \cup {q[k + 1]}
    BY <2>2, Zenon DEF Part
  <2> QED
    BY <2>1, <2>3
<1> QED
  BY <1>1, <1>2

\* The types a classifier gave among the signals of S.
Typed(S) == {s.type : s \in S} \ {"unclear"}

\* Every type of some signals, once.
LEMMA TypesList ==
    ASSUME NEW I, NEW signals \in Seq(I)
    PROVE  Lists(Types(signals), Typed(ToSet(signals)))
<1> DEFINE n == Len(signals)
<1>0. n \in Nat
  OBVIOUS
<1>1. PICK g : TypesRun(g, I, signals)
  BY TypesSteps, Zenon
<1> DEFINE P == {k \in 0 .. n : Lists(g[k], Typed(Part(signals, 1, k)))}
<1>2. 0 \in P
  <2>1. Typed(Part(signals, 1, 0)) = {} /\ Lists(<<>>, {})
    BY PartsGrowAnyway, ListsNothing DEF Typed
  <2>2. 0 \in 0 .. n
    BY <1>0
  <2> QED
    BY <1>1, <2>1, <2>2 DEF TypesRun
<1>3. ASSUME NEW k \in 0 .. n - 1, k \in P
      PROVE  k + 1 \in P
  <2> DEFINE s == signals[k + 1]
             T == Typed(Part(signals, 1, k))
             U == Typed(Part(signals, 1, k + 1))
             q == g[k]
  <2>1. Part(signals, 1, k + 1) = Part(signals, 1, k) \cup {s} /\ k + 1 \in 1 .. n
    BY PartsGrowAnyway
  <2>2. k + 1 \in 0 .. n /\ (k + 1) - 1 = k
    BY <2>1
  <2>3. g[k + 1] = MeetType(q, s)
    BY <1>1, <2>1, <2>2 DEF TypesRun
  <2>4. Lists(q, T)
    BY <1>3
  <2>5. Contains(q, s.type) <=> s.type \in T
    <3>1. \A i \in 1 .. Len(q) : q[i] \in T
      BY <2>4 DEF Lists
    <3>2. \A x \in T : \E i \in 1 .. Len(q) : q[i] = x
      BY <2>4 DEF Lists
    <3> HIDE DEF s, T, q
    <3> QED
      BY <3>1, <3>2 DEF Contains
  <2>6. U = IF s.type = "unclear" THEN T ELSE T \cup {s.type}
    BY <2>1 DEF Typed
  <2> HIDE DEF s, T, U, q
  <2>7. CASE s.type = "unclear" \/ Contains(q, s.type)
    <3>1. g[k + 1] = q /\ U = T
      BY <2>3, <2>5, <2>6, <2>7 DEF MeetType
    <3> QED
      BY <2>2, <2>4, <3>1 DEF U
  <2>8. CASE ~(s.type = "unclear" \/ Contains(q, s.type))
    <3>1. g[k + 1] = Append(q, s.type) /\ U = T \cup {s.type} /\ s.type \notin T
      BY <2>3, <2>5, <2>6, <2>8 DEF MeetType
    <3>2. Lists(Append(q, s.type), T \cup {s.type})
      BY <2>4, <3>1, ListsOneMore, Zenon
    <3> QED
      BY <2>2, <3>1, <3>2 DEF U
  <2> QED
    BY <2>7, <2>8
<1>4. \A k \in 0 .. n : k \in P
  <2> HIDE DEF P, n
  <2> QED
    BY <1>0, <1>2, <1>3, StepByStep, Zenon
<1>5. n \in 0 .. n /\ Part(signals, 1, n) = ToSet(signals)
  BY <1>0, PartsGrowAnyway
<1> QED
  BY <1>1, <1>4, <1>5 DEF TypesRun

\* OfType lists the signals of that type.
LEMMA OfTypeLists ==
    ASSUME NEW S, NEW signals, Lists(signals, S), NEW type
    PROVE  Lists(OfType(signals, type), {s \in S : s.type = type})
<1>1. ToSet(signals) = S
  BY ListsItsItems
<1>2. S \cap {s \in ToSet(signals) : s.type = type} = {s \in S : s.type = type}
  BY <1>1
<1> QED
  BY <1>2, OnlyLists DEF OfType

\* The groups of one type after the other.
ClassifiedRun(g, I, signals) ==
    /\ g \in [0 .. Len(Types(signals)) -> Seq(Seq(I))]
    /\ g[0] = <<>>
    /\ \A i \in 1 .. Len(Types(signals)) : g[i] = g[i - 1] \o LinkSignals(OfType(signals, Types(signals)[i]))
    /\ Classified(signals) = g[Len(Types(signals))]

\* Classified links one type after the other.
LEMMA ClassifiedSteps ==
    ASSUME NEW I, NEW signals \in Seq(I), Types(signals) \in Seq(Typed(I))
    PROVE  \E g : ClassifiedRun(g, I, signals)
<1> DEFINE n == Len(Types(signals))
           D == SUBSET (1 .. n)
           step == [i \in 1 .. n |-> [v \in Seq(Seq(I)) |-> v \o LinkSignals(OfType(signals, Types(signals)[i]))]]
           Fold(f) == [s \in D |-> IF s = {} THEN <<>>
                                   ELSE f[s \ {Max(s)}] \o LinkSignals(OfType(signals, Types(signals)[Max(s)]))]
           c == CHOOSE f : f = Fold(f)
<1>0. <<>> \in Seq(Seq(I))
  OBVIOUS
<1>1. n \in Nat /\ DOMAIN Types(signals) = 1 .. n
  OBVIOUS
<1>2. ASSUME NEW i \in 1 .. n, NEW v \in Seq(Seq(I))
      PROVE  v \o LinkSignals(OfType(signals, Types(signals)[i])) \in Seq(Seq(I))
  <2>1. OfType(signals, Types(signals)[i]) \in Seq(I)
    BY OnlyIsASequence DEF OfType
  <2>2. LinkSignals(OfType(signals, Types(signals)[i])) \in Seq(Seq(I))
    BY <2>1, LinkIsASequence DEF LinkSignals
  <2> QED
    BY <2>2, ConcatProperties
<1>3. step \in [1 .. n -> [Seq(Seq(I)) -> Seq(Seq(I))]]
  BY <1>2
<1>4. ASSUME NEW s \in D, s # {}
      PROVE  Max(s) \in 1 .. n /\ s \ {Max(s)} \in D
  BY <1>1, <1>4, MaxOfPart
<1>5. PICK f : FoldOf(f, n, Seq(Seq(I)), <<>>, step)
  <2> HIDE DEF step, n
  <2> QED
    BY <1>0, <1>1, <1>3, FoldExists, Zenon
<1>6. f = Fold(f)
  <2>1. ASSUME NEW s \in D, s # {}
        PROVE  f[s] = f[s \ {Max(s)}] \o LinkSignals(OfType(signals, Types(signals)[Max(s)]))
    BY <1>4, <1>5, <2>1 DEF FoldOf
  <2> QED
    BY <1>5, <2>1 DEF FoldOf
<1>7. c = Fold(c)
  <2> HIDE DEF Fold
  <2> QED
    BY <1>6
<1>8. Classified(signals) = c[1 .. n]
  <2>1. Classified(signals) = FoldLeft(LAMBDA groups, type : groups \o LinkSignals(OfType(signals, type)), <<>>, Types(signals))
    BY DEF Classified
  <2> HIDE DEF n
  <2> QED
    BY <1>1, <2>1, Zenon DEF FoldLeft, MapThenFoldSet
<1> HIDE DEF c
<1>9. FoldIn(c, n, Seq(Seq(I)), <<>>, step)
  BY <1>4, <1>7 DEF FoldIn
<1> HIDE DEF step, n
<1>10. PICK g : StepsOf(g, n, Seq(Seq(I)), <<>>, step, c[1 .. n])
  BY <1>0, <1>1, <1>3, <1>9, FoldIsSteps, Zenon
<1>11. ASSUME NEW i \in 1 .. n
       PROVE  g[i] = g[i - 1] \o LinkSignals(OfType(signals, Types(signals)[i]))
  <2>1. i - 1 \in 0 .. n
    BY <1>1
  <2>2. step[i][g[i - 1]] = g[i - 1] \o LinkSignals(OfType(signals, Types(signals)[i]))
    BY <1>10, <2>1 DEF step, StepsOf
  <2> QED
    BY <1>10, <2>2 DEF StepsOf
<1> QED
  BY <1>8, <1>10, <1>11 DEF n, StepsOf, ClassifiedRun

\* No group mixes two types.
Uniform(groups) == \A g \in 1 .. Len(groups) : \E t : \A s \in ToSet(groups[g]) : s.type \in {t, "unclear"}

\* Uniform groups, one after the other, are uniform.
LEMMA UniformConcatenated ==
    ASSUME NEW p, Uniform(p), NEW q, Uniform(q), FromEither(p \o q, p, q)
    PROVE  Uniform(p \o q)
<1> SUFFICES ASSUME NEW g \in 1 .. Len(p \o q)
             PROVE  \E t : \A s \in ToSet((p \o q)[g]) : s.type \in {t, "unclear"}
  BY DEF Uniform
<1>1. CASE \E h \in 1 .. Len(p) : (p \o q)[g] = p[h]
  BY <1>1 DEF Uniform
<1>2. CASE \E h \in 1 .. Len(q) : (p \o q)[g] = q[h]
  BY <1>2 DEF Uniform
<1> QED
  BY <1>1, <1>2 DEF FromEither

\* A group of a sequence of groups is a group of that sequence.
LEMMA GroupsHold ==
    ASSUME NEW S, NEW groups, Grouped(groups, S), NEW g \in 1 .. Len(groups)
    PROVE  ToSet(groups[g]) \subseteq S
<1>1. groups[g] \in Seq(S)
  BY DEF Grouped
<1> QED
  BY <1>1 DEF ToSet

\* Linking some signals groups them.
LEMMA LinkSignalsGroups ==
    ASSUME NEW S, NEW items, Lists(items, S), \A s \in S : s.place \in Int,
           NEW t, \A s \in S : s.type = t
    PROVE  Grouped(LinkSignals(items), S) /\ Uniform(LinkSignals(items))
<1>1. Grouped(LinkSignals(items), S)
  BY LinkGroups DEF LinkSignals
<1>2. \A g \in 1 .. Len(LinkSignals(items)) : ToSet(LinkSignals(items)[g]) \subseteq S
  BY <1>1, GroupsHold
<1>3. \A g \in 1 .. Len(LinkSignals(items)) : \A s \in ToSet(LinkSignals(items)[g]) : s.type = t
  BY <1>2
<1> QED
  BY <1>1, <1>3 DEF Uniform

\* Those that have a type are in groups of their type.
LEMMA ClassifiedGroups ==
    ASSUME NEW S, NEW signals, Lists(signals, S), \A s \in S : s.place \in Int
    PROVE  Grouped(Classified(signals), {s \in S : s.type # "unclear"}) /\ Uniform(Classified(signals))
<1> DEFINE types == Types(signals)
           n == Len(types)
           Of(k) == {s \in S : s.type \in Part(types, 1, k)}
<1>1. ToSet(signals) = S /\ signals \in Seq(S)
  <2>1. signals \in Seq(S)
    BY DEF Lists
  <2> QED
    BY <2>1, ListsItsItems, Zenon
<1>2. Lists(types, Typed(S))
  BY <1>1, TypesList
<1>3. types \in Seq(Typed(S)) /\ n \in Nat
  BY <1>2 DEF Lists
<1>4. PICK g : ClassifiedRun(g, S, signals)
  BY <1>1, <1>3, ClassifiedSteps, Zenon
<1> DEFINE P == {k \in 0 .. n : Grouped(g[k], Of(k)) /\ Uniform(g[k])}
<1>5. 0 \in P
  <2>1. Of(0) = {} /\ Grouped(<<>>, {}) /\ Uniform(<<>>)
    BY <1>2, PartsGrow, GroupedNothing DEF Uniform
  <2>2. 0 \in 0 .. n
    BY <1>3
  <2> QED
    BY <1>4, <2>1, <2>2 DEF ClassifiedRun
<1>6. ASSUME NEW k \in 0 .. n - 1, k \in P
      PROVE  k + 1 \in P
  <2> DEFINE t == types[k + 1]
             T == {s \in S : s.type = t}
             q == LinkSignals(OfType(signals, t))
  <2>1. /\ Part(types, 1, k + 1) = Part(types, 1, k) \cup {t}
        /\ t \notin Part(types, 1, k)
        /\ k + 1 \in 1 .. n
    BY <1>2, PartsGrow
  <2>2. k + 1 \in 0 .. n /\ (k + 1) - 1 = k
    BY <2>1
  <2>3. g[k + 1] = g[k] \o q
    BY <1>4, <2>1, <2>2 DEF ClassifiedRun
  <2>4. Grouped(g[k], Of(k)) /\ Uniform(g[k])
    BY <1>6
  <2>5. Lists(OfType(signals, t), T)
    BY OfTypeLists
  <2>6. Grouped(q, T) /\ Uniform(q)
    BY <2>5, LinkSignalsGroups
  <2>7. Of(k) \cap T = {} /\ Of(k) \cup T = Of(k + 1)
    BY <2>1
  <2> HIDE DEF q, T, Of
  <2>8. Grouped(g[k] \o q, Of(k) \cup T) /\ FromEither(g[k] \o q, g[k], q)
    BY <2>4, <2>6, <2>7, GroupsConcatenated, Zenon
  <2>9. Uniform(g[k] \o q)
    BY <2>4, <2>6, <2>8, UniformConcatenated
  <2> QED
    BY <2>2, <2>3, <2>7, <2>8, <2>9
<1>7. \A k \in 0 .. n : k \in P
  <2> HIDE DEF P, n
  <2> QED
    BY <1>3, <1>5, <1>6, StepByStep, Zenon
<1>8. n \in 0 .. n
  BY <1>3
<1>9. Of(n) = {s \in S : s.type # "unclear"}
  BY <1>2, PartsGrow DEF Typed
<1> QED
  BY <1>4, <1>7, <1>8, <1>9 DEF ClassifiedRun

-----------------------------------------------------------------------------
(* Signals without a type, offered.                                          *)

\* What offering the untyped to the groups goes through: the groups so far,
\* and what none of them took.
Offering(I) == [groups : Seq(Seq(I)), left : Seq(I)]

\* A step of the offer keeps that shape.
LEMMA OfferIsOffering ==
    ASSUME NEW I, NEW state \in Offering(I), NEW signal \in I
    PROVE  Offer(state, signal) \in Offering(I)
<1> DEFINE host == NearestGroup(signal, state.groups)
<1>1. Offer(state, signal) = IF host = 0 THEN [state EXCEPT !.left = Append(@, signal)]
                             ELSE [state EXCEPT !.groups[host] = Append(@, signal)]
  BY Zenon DEF Offer
<1> HIDE DEF host
<1>2. [state EXCEPT !.left = Append(@, signal)] \in Offering(I)
  <2>1. state.left \in Seq(I)
    BY DEF Offering
  <2>2. Append(state.left, signal) \in Seq(I)
    BY <2>1
  <2> QED
    BY <2>2 DEF Offering
<1>3. [state.groups EXCEPT ![host] = Append(@, signal)] \in Seq(Seq(I))
  <2>0. state.groups \in Seq(Seq(I))
    BY DEF Offering
  <2>1. CASE host \in 1 .. Len(state.groups)
    <3>1. Append(state.groups[host], signal) \in Seq(I)
      BY <2>0, <2>1
    <3>2. [state.groups EXCEPT ![host] = Append(state.groups[host], signal)] \in Seq(Seq(I))
      BY <2>0, <2>1, <3>1, ExceptSeq
    <3> QED
      BY <3>2
  <2>2. CASE host \notin 1 .. Len(state.groups)
    <3>1. [state.groups EXCEPT ![host] = Append(@, signal)] = state.groups
      BY <2>0, <2>2
    <3> QED
      BY <2>0, <3>1
  <2> QED
    BY <2>1, <2>2
<1>4. [state EXCEPT !.groups[host] = Append(@, signal)] \in Offering(I)
  BY <1>3 DEF Offering
<1> QED
  BY <1>1, <1>2, <1>4

\* The group that takes an untyped signal is one of the groups.
LEMMA HostIsAGroup ==
    ASSUME NEW S, NEW groups, Grouped(groups, S), NEW signal, signal.place \in Int,
           \A s \in S : s.place \in Int
    PROVE  NearestGroup(signal, groups) = 0 \/ NearestGroup(signal, groups) \in 1 .. Len(groups)
<1> DEFINE n == Len(groups)
           near == {g \in DOMAIN groups : Hosts(signal, groups[g])}
           km == [g \in near |-> Km(signal.place, Centroid(groups[g]))]
           b == CHOOSE g \in near :
                  \A h \in near : ~Nearer(km[h], km[g]) /\ (h > g => Nearer(km[g], km[h]))
<1>1. n \in Nat /\ near \in SUBSET (1 .. n) /\ \A g \in near : groups[g] \in Seq(S) /\ Len(groups[g]) >= 1
  BY DEF Grouped
<1>2. km \in [near -> Fraction]
  BY <1>1, CentreIsAFraction
<1>3. NearestGroup(signal, groups) = IF near = {} THEN 0 ELSE b
  BY Zenon DEF NearestGroup
<1>4. near # {} => b \in near
  <2> HIDE DEF km, near, n
  <2>1. SUFFICES ASSUME near # {}
                 PROVE  b \in near
    OBVIOUS
  <2>2. \E g \in near : \A h \in near : ~Nearer(km[h], km[g]) /\ (h > g => Nearer(km[g], km[h]))
    BY <1>1, <1>2, <2>1, NearestExists
  <2> QED
    BY <2>2, Zenon
<1> HIDE DEF b
<1> QED
  BY <1>1, <1>3, <1>4

\* Offering, signal by signal.
OfferedRun(g, I, signals) ==
    /\ g \in [0 .. Len(OfType(signals, "unclear")) -> Offering(I)]
    /\ g[0] = [groups |-> Classified(signals), left |-> <<>>]
    /\ \A i \in 1 .. Len(OfType(signals, "unclear")) : g[i] = Offer(g[i - 1], OfType(signals, "unclear")[i])
    /\ Offered(signals) = g[Len(OfType(signals, "unclear"))]

\* The untyped signals are offered one at a time.
LEMMA OfferedSteps ==
    ASSUME NEW I, NEW signals, OfType(signals, "unclear") \in Seq(I), Classified(signals) \in Seq(Seq(I))
    PROVE  \E g : OfferedRun(g, I, signals)
<1> DEFINE n == Len(OfType(signals, "unclear"))
           D == SUBSET (1 .. n)
           step == [i \in 1 .. n |-> [v \in Offering(I) |-> Offer(v, OfType(signals, "unclear")[i])]]
           Fold(f) == [s \in D |-> IF s = {} THEN [groups |-> Classified(signals), left |-> <<>>]
                                   ELSE Offer(f[s \ {Max(s)}], OfType(signals, "unclear")[Max(s)])]
           c == CHOOSE f : f = Fold(f)
<1>0. [groups |-> Classified(signals), left |-> <<>>] \in Offering(I)
  BY DEF Offering
<1>1. n \in Nat /\ DOMAIN OfType(signals, "unclear") = 1 .. n
  OBVIOUS
<1>2. ASSUME NEW i \in 1 .. n, NEW v \in Offering(I)
      PROVE  Offer(v, OfType(signals, "unclear")[i]) \in Offering(I)
  BY OfferIsOffering
<1>3. step \in [1 .. n -> [Offering(I) -> Offering(I)]]
  BY <1>2
<1>4. ASSUME NEW s \in D, s # {}
      PROVE  Max(s) \in 1 .. n /\ s \ {Max(s)} \in D
  BY <1>1, <1>4, MaxOfPart
<1>5. PICK f : FoldOf(f, n, Offering(I), [groups |-> Classified(signals), left |-> <<>>], step)
  <2> HIDE DEF step, n
  <2> QED
    BY <1>0, <1>1, <1>3, FoldExists, Zenon
<1>6. f = Fold(f)
  <2>1. ASSUME NEW s \in D, s # {}
        PROVE  f[s] = Offer(f[s \ {Max(s)}], OfType(signals, "unclear")[Max(s)])
    BY <1>4, <1>5, <2>1 DEF FoldOf
  <2> QED
    BY <1>5, <2>1 DEF FoldOf
<1>7. c = Fold(c)
  <2> HIDE DEF Fold
  <2> QED
    BY <1>6
<1>8. Offered(signals) = c[1 .. n]
  <2>1. Offered(signals) = FoldLeft(Offer, [groups |-> Classified(signals), left |-> <<>>], OfType(signals, "unclear"))
    BY DEF Offered
  <2> HIDE DEF n
  <2> QED
    BY <1>1, <2>1, Zenon DEF FoldLeft, MapThenFoldSet
<1> HIDE DEF c
<1>9. FoldIn(c, n, Offering(I), [groups |-> Classified(signals), left |-> <<>>], step)
  BY <1>4, <1>7 DEF FoldIn
<1> HIDE DEF step, n
<1>10. PICK g : StepsOf(g, n, Offering(I), [groups |-> Classified(signals), left |-> <<>>], step, c[1 .. n])
  BY <1>0, <1>1, <1>3, <1>9, FoldIsSteps, Zenon
<1>11. ASSUME NEW i \in 1 .. n
       PROVE  g[i] = Offer(g[i - 1], OfType(signals, "unclear")[i])
  <2>1. i - 1 \in 0 .. n
    BY <1>1
  <2>2. step[i][g[i - 1]] = Offer(g[i - 1], OfType(signals, "unclear")[i])
    BY <1>10, <2>1 DEF step, StepsOf
  <2> QED
    BY <1>10, <2>2 DEF StepsOf
<1> QED
  BY <1>8, <1>10, <1>11 DEF n, StepsOf, OfferedRun

\* What has been offered is in the groups or is left.
Placed(state, C, U) ==
    \E A, B : /\ A \cup B = U /\ A \cap B = {}
             /\ Grouped(state.groups, C \cup A) /\ Uniform(state.groups)
             /\ Lists(state.left, B)

\* A step of the offer places one signal more, in a group or among those left.
LEMMA OfferPlaces ==
    ASSUME NEW I, NEW state \in Offering(I), NEW C, NEW U, Placed(state, C, U),
           NEW signal, signal \notin C \cup U, signal.type = "unclear",
           \A s \in C \cup U \cup {signal} : s.place \in Int
    PROVE  Placed(Offer(state, signal), C, U \cup {signal})
<1> DEFINE host == NearestGroup(signal, state.groups)
<1>1. Offer(state, signal) = IF host = 0 THEN [state EXCEPT !.left = Append(@, signal)]
                             ELSE [state EXCEPT !.groups[host] = Append(@, signal)]
  BY Zenon DEF Offer
<1>2. PICK A, B : /\ A \cup B = U /\ A \cap B = {}
                  /\ Grouped(state.groups, C \cup A) /\ Uniform(state.groups)
                  /\ Lists(state.left, B)
  BY DEF Placed
<1>3. host = 0 \/ host \in 1 .. Len(state.groups)
  <2>1. signal.place \in Int /\ \A s \in C \cup A : s.place \in Int
    BY <1>2
  <2> QED
    BY <1>2, <2>1, HostIsAGroup
<1>4. signal \notin A /\ signal \notin B /\ signal \notin C \cup A
  BY <1>2
<1> HIDE DEF host
<1>5. CASE host = 0
  <2>1. Lists(Append(state.left, signal), B \cup {signal})
    BY <1>2, <1>4, ListsOneMore, Zenon
  <2>2. /\ Offer(state, signal).groups = state.groups
        /\ Offer(state, signal).left = Append(state.left, signal)
    BY <1>1, <1>5 DEF Offering
  <2>3. A \cup (B \cup {signal}) = U \cup {signal} /\ A \cap (B \cup {signal}) = {}
    BY <1>2, <1>4
  <2> QED
    BY <1>2, <2>1, <2>2, <2>3 DEF Placed
<1>6. CASE host # 0
  <2> DEFINE new == [state.groups EXCEPT ![host] = Append(@, signal)]
  <2>0. host \in 1 .. Len(state.groups)
    BY <1>3, <1>6
  <2>1. Grouped(new, (C \cup A) \cup {signal})
    BY <1>2, <1>4, <2>0, GroupsExtend, Zenon
  <2>2. /\ Offer(state, signal).groups = new
        /\ Offer(state, signal).left = state.left
    BY <1>1, <1>6 DEF Offering
  <2>3. (A \cup {signal}) \cup B = U \cup {signal} /\ (A \cup {signal}) \cap B = {}
        /\ (C \cup A) \cup {signal} = C \cup (A \cup {signal})
    BY <1>2, <1>4
  <2>4. Uniform(new)
    <3>1. /\ Len(new) = Len(state.groups)
          /\ \A g \in 1 .. Len(state.groups) : g # host => new[g] = state.groups[g]
          /\ new[host] = Append(state.groups[host], signal)
      BY <2>0 DEF Offering
    <3>2. ToSet(new[host]) = ToSet(state.groups[host]) \cup {signal}
      <4>1. Lists(state.groups[host], ToSet(state.groups[host])) /\ Len(state.groups[host]) >= 1
        BY <1>2, <2>0 DEF Grouped
      <4>2. signal \notin ToSet(state.groups[host])
        BY <1>2, <1>4, <2>0, GroupsHold
      <4> QED
        BY <3>1, <4>1, <4>2, GroupOneMore
    <3> HIDE DEF new
    <3>3. ASSUME NEW g \in 1 .. Len(new)
          PROVE  \E t : \A s \in ToSet(new[g]) : s.type \in {t, "unclear"}
      <4>1. PICK t : \A s \in ToSet(state.groups[g]) : s.type \in {t, "unclear"}
        BY <1>2, <3>1 DEF Uniform
      <4>2. ToSet(new[g]) \subseteq ToSet(state.groups[g]) \cup {signal}
        BY <3>1, <3>2
      <4> QED
        BY <4>1, <4>2
    <3> QED
      BY <3>3 DEF Uniform
  <2> HIDE DEF new
  <2>5. Grouped(new, C \cup (A \cup {signal})) /\ Lists(state.left, B)
    BY <1>2, <2>1, <2>3
  <2> QED
    BY <2>2, <2>3, <2>4, <2>5 DEF Placed
<1> QED
  BY <1>5, <1>6

\* Every signal is in one group, and no group mixes two types.
LEMMA GroupsGroup ==
    ASSUME NEW S, NEW signals, Lists(signals, S), \A s \in S : s.place \in Int
    PROVE  Grouped(Groups(signals), S) /\ Uniform(Groups(signals))
<1> DEFINE C == {s \in S : s.type # "unclear"}
           R == {s \in S : s.type = "unclear"}
           u == OfType(signals, "unclear")
           n == Len(u)
<1>1. Grouped(Classified(signals), C) /\ Uniform(Classified(signals))
  BY ClassifiedGroups
<1>2. Lists(u, R) /\ n \in Nat
  <2>1. Lists(u, R)
    BY OfTypeLists
  <2> QED
    BY <2>1 DEF Lists
<1>3. u \in Seq(S) /\ Classified(signals) \in Seq(Seq(S))
  <2>1. (\A q \in Seq(C) : q \in Seq(S)) /\ u \in Seq(R) /\ R \subseteq S
    BY <1>2, SeqMonotonic DEF Lists
  <2>2. Seq(C) \subseteq Seq(S) /\ Classified(signals) \in Seq(Seq(C))
    BY <1>1, <2>1 DEF Grouped
  <2> HIDE DEF C, R, u
  <2> QED
    BY <2>1, <2>2, SeqMonotonic
<1>4. PICK g : OfferedRun(g, S, signals)
  BY <1>3, OfferedSteps, Zenon
<1> DEFINE P == {k \in 0 .. n : g[k] \in Offering(S) /\ Placed(g[k], C, Part(u, 1, k))}
<1>5. 0 \in P
  <2>1. g[0] = [groups |-> Classified(signals), left |-> <<>>] /\ 0 \in 0 .. n /\ g[0] \in Offering(S)
    BY <1>2, <1>4 DEF OfferedRun
  <2>2. Part(u, 1, 0) = {}
    BY <1>2, PartsGrow
  <2> HIDE DEF C
  <2>3. Grouped(g[0].groups, C \cup {}) /\ Uniform(g[0].groups) /\ Lists(g[0].left, {})
    BY <1>1, <2>1, ListsNothing
  <2>4. Placed(g[0], C, {})
    <3>1. {} \cup {} = {} /\ {} \cap {} = {}
      OBVIOUS
    <3> QED
      BY <2>3, <3>1, Zenon DEF Placed
  <2> QED
    BY <2>1, <2>2, <2>4
<1>6. ASSUME NEW k \in 0 .. n - 1, k \in P
      PROVE  k + 1 \in P
  <2> DEFINE s == u[k + 1]
  <2>1. /\ Part(u, 1, k + 1) = Part(u, 1, k) \cup {s}
        /\ s \notin Part(u, 1, k)
        /\ s \in R
        /\ k + 1 \in 1 .. n
    BY <1>2, PartsGrow
  <2>2. k + 1 \in 0 .. n /\ (k + 1) - 1 = k
    BY <2>1
  <2>3. g[k + 1] = Offer(g[k], s) /\ g[k + 1] \in Offering(S)
    BY <1>4, <2>1, <2>2 DEF OfferedRun
  <2>4. g[k] \in Offering(S) /\ Placed(g[k], C, Part(u, 1, k))
    BY <1>6
  <2>5. Part(u, 1, k) \subseteq R
    <3>0. \A i \in 1 .. n : u[i] \in R
      <4> HIDE DEF R, u
      <4> QED
        BY <1>2 DEF Lists, n
    <3>1. \A i \in 1 .. k : i \in 1 .. n /\ u[i] \in R
      <4>1. \A i \in 1 .. k : i \in 1 .. n
        BY <1>2, <2>1
      <4> QED
        BY <3>0, <4>1
    <3> QED
      BY <3>1 DEF Part
  <2>6. s \notin C \cup Part(u, 1, k) /\ s.type = "unclear"
        /\ \A x \in C \cup Part(u, 1, k) \cup {s} : x.place \in Int
    BY <2>1, <2>5
  <2> HIDE DEF s, C, u
  <2>7. Placed(Offer(g[k], s), C, Part(u, 1, k) \cup {s})
    BY <2>4, <2>6, OfferPlaces, Zenon
  <2> QED
    BY <2>1, <2>2, <2>3, <2>7
<1>7. \A k \in 0 .. n : k \in P
  <2> HIDE DEF P, n
  <2> QED
    BY <1>2, <1>5, <1>6, StepByStep, Zenon
<1>8. Placed(Offered(signals), C, R)
  <2>1. n \in 0 .. n /\ Part(u, 1, n) = R
    BY <1>2, PartsGrow
  <2> QED
    BY <1>4, <1>7, <2>1 DEF OfferedRun
<1>9. PICK A, B : /\ A \cup B = R /\ A \cap B = {}
                  /\ Grouped(Offered(signals).groups, C \cup A) /\ Uniform(Offered(signals).groups)
                  /\ Lists(Offered(signals).left, B)
  BY <1>8 DEF Placed
<1>10. Grouped(LinkSignals(Offered(signals).left), B) /\ Uniform(LinkSignals(Offered(signals).left))
  <2>1. \A s \in B : s.place \in Int /\ s.type = "unclear"
    BY <1>9
  <2> QED
    BY <1>9, <2>1, LinkSignalsGroups
<1>11. (C \cup A) \cap B = {} /\ (C \cup A) \cup B = S
  BY <1>9
<1> DEFINE p == Offered(signals).groups
           q == LinkSignals(Offered(signals).left)
<1> HIDE DEF p, q, C, R, u, n, P
<1>12. Grouped(p \o q, (C \cup A) \cup B) /\ FromEither(p \o q, p, q)
  BY <1>9, <1>10, <1>11, GroupsConcatenated, Zenon DEF p, q
<1>13. Uniform(p \o q)
  BY <1>9, <1>10, <1>12, UniformConcatenated DEF p, q
<1> QED
  BY <1>11, <1>12, <1>13 DEF p, q, Groups

-----------------------------------------------------------------------------
(* Hotspots.                                                                 *)

\* A list is as long as what it lists is large.
LEMMA ListsCount ==
    ASSUME NEW S, NEW q, Lists(q, S)
    PROVE  IsFiniteSet(S) /\ Cardinality(S) = Len(q)
<1>1. Len(q) \in Nat /\ q \in [1 .. Len(q) -> S]
  BY DEF Lists
<1>2. q \in Bijection(1 .. Len(q), S)
  BY <1>1 DEF Lists, Bijection, Injection, Surjection, IsInjective
<1>3. ExistsBijection(1 .. Len(q), S)
  BY <1>2 DEF ExistsBijection
<1>4. IsFiniteSet(1 .. Len(q)) /\ Cardinality(1 .. Len(q)) = Len(q)
  BY <1>1, FS_Interval
<1> QED
  BY <1>3, <1>4, FS_Bijection

\* The fields of a hotspot that the theorems are about.
LEMMA SummarySays ==
    ASSUME NEW members
    PROVE  /\ Summary(members).signals = InTimeOrder(members)
           /\ Summary(members).type = MainType(InTimeOrder(members))
           /\ Summary(members).confidence = Confidence(InTimeOrder(members), HasIndependent(InTimeOrder(members)))
           /\ Summary(members).cases = CasesAmong(InTimeOrder(members))
<1>1. \E a, b, c, d, e, f, g, h :
        Summary(members) =
            [id |-> a, type |-> MainType(InTimeOrder(members)), centre |-> b, radius |-> c,
             confidence |-> Confidence(InTimeOrder(members), HasIndependent(InTimeOrder(members))),
             severity |-> d, corroborated |-> e, firstSeen |-> f, lastSeen |-> g,
             cases |-> CasesAmong(InTimeOrder(members)), signals |-> InTimeOrder(members), exposure |-> h]
  BY Zenon DEF Summary
<1> QED
  BY <1>1

\* Some of the places 1 .. n have a first among them.
LEMMA FirstOfSome ==
    ASSUME NEW n \in Nat, NEW T \in SUBSET (1 .. n), T # {}
    PROVE  Min(T) \in T
<1>1. T \subseteq Nat
  OBVIOUS
<1>2. PICK x \in T : \A y \in T : x <= y
  BY <1>1, LeastOfNaturals
<1> QED
  BY <1>2 DEF Min

\* What a hotspot has of the group it comes from.
LEMMA SummaryOfAGroup ==
    ASSUME NEW group, Lists(group, ToSet(group)), Len(group) >= 1,
           NEW t, \A s \in ToSet(group) : s.type \in {t, "unclear"}
    PROVE  /\ Members(Summary(group)) = ToSet(group)
           /\ Lists(Summary(group).signals, ToSet(group))
           /\ \A s \in ToSet(group) : s.type \in {Summary(group).type, "unclear"}
<1> DEFINE o == InTimeOrder(group)
           S == ToSet(group)
           typed == {i \in DOMAIN o : o[i].type # "unclear"}
<1>1. Lists(o, S)
  BY InTimeOrderLists
<1>2. Summary(group).signals = o /\ Summary(group).type = MainType(o)
  BY SummarySays
<1>3. Len(o) \in Nat /\ DOMAIN o = 1 .. Len(o) /\ \A i \in 1 .. Len(o) : o[i] \in S
  <2> HIDE DEF o, S
  <2> QED
    BY <1>1 DEF Lists
<1>4. Members(Summary(group)) = S
  <2>1. Members(Summary(group)) = ToSet(o)
    BY <1>2, Zenon DEF Members, ToSet
  <2> QED
    BY <1>1, <2>1, ListsItsItems
<1>5. ASSUME NEW s \in S
      PROVE  s.type \in {MainType(o), "unclear"}
  <2>1. PICK i \in 1 .. Len(o) : o[i] = s
    BY <1>1 DEF Lists
  <2>2. MainType(o) = IF typed = {} THEN "unclear" ELSE o[Min(typed)].type
    BY Zenon DEF MainType
  <2>3. CASE typed = {}
    BY <1>3, <2>1, <2>3
  <2>4. CASE typed # {}
    <3>1. Min(typed) \in typed
      <4>1. typed \in SUBSET (1 .. Len(o)) /\ Len(o) \in Nat
        BY <1>3
      <4> HIDE DEF typed
      <4> QED
        BY <2>4, <4>1, FirstOfSome
    <3>2. PICK j \in 1 .. Len(o) : j = Min(typed) /\ o[j].type # "unclear"
      BY <1>3, <3>1
    <3>3. o[j].type = t
      BY <1>3, <3>2
    <3> QED
      BY <2>2, <2>4, <3>2, <3>3
  <2> QED
    BY <2>3, <2>4
<1> HIDE DEF o
<1> QED
  BY <1>1, <1>2, <1>4, <1>5

\* One signal, one place; and no place mixes two types.
LEMMA DetectPartitions ==
    ASSUME NEW S, NEW signals, Lists(signals, S), \A s \in S : s.place \in Int
    PROVE  /\ \A h \in Detect(signals) :
                /\ Lists(h.signals, Members(h))
                /\ Members(h) \subseteq S
                /\ \A s \in Members(h) : s.type \in {h.type, "unclear"}
                /\ Members(h) # {}
                /\ h.confidence = Confidence(h.signals, HasIndependent(h.signals))
                /\ h.cases = CasesAmong(h.signals)
           /\ \A h, k \in Detect(signals) : \A s \in Members(h) : s \in Members(k) => h = k
           /\ MinSignals <= 1 => \A s \in S : \E h \in Detect(signals) : s \in Members(h)
<1> DEFINE groups == Groups(signals)
           n == Len(groups)
<1>1. Grouped(groups, S) /\ Uniform(groups)
  BY GroupsGroup
<1>2. n \in Nat /\ DOMAIN groups = 1 .. n
  BY <1>1 DEF Grouped
<1>3. Detect(signals) = {Summary(groups[i]) : i \in {j \in 1 .. n : Len(groups[j]) >= MinSignals}}
  <2>1. Detect(signals) = {Summary(groups[i]) : i \in {j \in DOMAIN groups : Len(groups[j]) >= MinSignals}}
    BY Zenon DEF Detect
  <2> QED
    BY <1>2, <2>1, Zenon
<1> HIDE DEF groups
<1>4. ASSUME NEW g \in 1 .. n
      PROVE  /\ Members(Summary(groups[g])) = ToSet(groups[g])
             /\ Lists(Summary(groups[g]).signals, ToSet(groups[g]))
             /\ \A s \in ToSet(groups[g]) : s.type \in {Summary(groups[g]).type, "unclear"}
             /\ ToSet(groups[g]) \subseteq S /\ ToSet(groups[g]) # {}
  <2>1. Lists(groups[g], ToSet(groups[g])) /\ Len(groups[g]) >= 1
    BY <1>1 DEF Grouped
  <2>2. PICK t : \A s \in ToSet(groups[g]) : s.type \in {t, "unclear"}
    BY <1>1 DEF Uniform
  <2>3. ToSet(groups[g]) \subseteq S /\ ToSet(groups[g]) # {}
    <3>1. 1 \in DOMAIN groups[g]
      <4>1. DOMAIN groups[g] = 1 .. Len(groups[g]) /\ Len(groups[g]) \in Nat
        BY <2>1, ListsAsFunction
      <4> QED
        BY <2>1, <4>1
    <3>2. ToSet(groups[g]) # {}
      BY <3>1 DEF ToSet
    <3> QED
      BY <1>1, <3>2, GroupsHold
  <2> QED
    BY <2>1, <2>2, <2>3, SummaryOfAGroup
<1>5. ASSUME NEW h \in Detect(signals)
      PROVE  \E g \in 1 .. n : h = Summary(groups[g])
  BY <1>3
<1>6. ASSUME NEW h \in Detect(signals)
      PROVE  /\ Lists(h.signals, Members(h))
             /\ Members(h) \subseteq S
             /\ \A s \in Members(h) : s.type \in {h.type, "unclear"}
             /\ Members(h) # {}
             /\ h.confidence = Confidence(h.signals, HasIndependent(h.signals))
             /\ h.cases = CasesAmong(h.signals)
  <2>1. PICK g \in 1 .. n : h = Summary(groups[g])
    BY <1>5
  <2>2. /\ h.confidence = Confidence(h.signals, HasIndependent(h.signals))
        /\ h.cases = CasesAmong(h.signals)
    BY <2>1, SummarySays
  <2> QED
    BY <1>4, <2>1, <2>2
<1>7. ASSUME NEW h \in Detect(signals), NEW k \in Detect(signals), NEW s \in Members(h), s \in Members(k)
      PROVE  h = k
  <2>1. PICK a \in 1 .. n : h = Summary(groups[a])
    BY <1>5
  <2>2. PICK b \in 1 .. n : k = Summary(groups[b])
    BY <1>5
  <2>3. s \in ToSet(groups[a]) /\ s \in ToSet(groups[b])
    BY <1>4, <1>7, <2>1, <2>2
  <2>4. a = b
    BY <1>1, <2>3 DEF Grouped
  <2> QED
    BY <2>1, <2>2, <2>4
<1>8. ASSUME MinSignals <= 1, NEW s \in S
      PROVE  \E h \in Detect(signals) : s \in Members(h)
  <2>1. PICK g \in 1 .. n : s \in ToSet(groups[g])
    BY <1>1 DEF Grouped
  <2>2. Len(groups[g]) >= 1 /\ Len(groups[g]) \in Nat /\ MinSignals \in Nat
    <3>1. Len(groups[g]) >= 1 /\ Lists(groups[g], ToSet(groups[g]))
      BY <1>1 DEF Grouped
    <3>2. MinSignals \in Nat
      BY HotspotAssumption
    <3> QED
      BY <3>1, <3>2 DEF Lists
  <2>3. Len(groups[g]) >= MinSignals
    BY <1>8, <2>2
  <2>4. Summary(groups[g]) \in Detect(signals)
    BY <1>3, <2>3
  <2> QED
    BY <1>4, <2>1, <2>4
<1> QED
  BY <1>6, <1>7, <1>8

-----------------------------------------------------------------------------
(* What is visible.                                                          *)

\* The step of Deduplicated: a signal is kept unless one with its id is there.
Once(seen, s) == IF \E i \in DOMAIN seen : seen[i].id = s.id THEN seen ELSE Append(seen, s)

\* Dropping second copies, signal by signal.
DeduplicatedRun(g, I, signals) ==
    /\ g \in [0 .. Len(signals) -> Seq(I)]
    /\ g[0] = <<>>
    /\ \A i \in 1 .. Len(signals) : g[i] = Once(g[i - 1], signals[i])
    /\ Deduplicated(signals) = g[Len(signals)]

\* Signals are deduplicated one at a time.
LEMMA DeduplicatedSteps ==
    ASSUME NEW I, NEW signals \in Seq(I)
    PROVE  \E g : DeduplicatedRun(g, I, signals)
<1> DEFINE n == Len(signals)
           D == SUBSET (1 .. n)
           step == [i \in 1 .. n |-> [v \in Seq(I) |-> Once(v, signals[i])]]
           Fold(f) == [s \in D |-> IF s = {} THEN <<>>
                                   ELSE Once(f[s \ {Max(s)}], signals[Max(s)])]
           c == CHOOSE f : f = Fold(f)
<1>0. <<>> \in Seq(I)
  OBVIOUS
<1>1. n \in Nat /\ DOMAIN signals = 1 .. n
  OBVIOUS
<1>2. ASSUME NEW i \in 1 .. n, NEW v \in Seq(I)
      PROVE  Once(v, signals[i]) \in Seq(I)
  BY DEF Once
<1>3. step \in [1 .. n -> [Seq(I) -> Seq(I)]]
  BY <1>2
<1>4. ASSUME NEW s \in D, s # {}
      PROVE  Max(s) \in 1 .. n /\ s \ {Max(s)} \in D
  BY <1>1, <1>4, MaxOfPart
<1>5. PICK f : FoldOf(f, n, Seq(I), <<>>, step)
  <2> HIDE DEF step, n
  <2> QED
    BY <1>0, <1>1, <1>3, FoldExists, Zenon
<1>6. f = Fold(f)
  <2>1. ASSUME NEW s \in D, s # {}
        PROVE  f[s] = Once(f[s \ {Max(s)}], signals[Max(s)])
    BY <1>4, <1>5, <2>1 DEF FoldOf
  <2> QED
    BY <1>5, <2>1 DEF FoldOf
<1>7. c = Fold(c)
  <2> HIDE DEF Fold
  <2> QED
    BY <1>6
<1>8. Deduplicated(signals) = c[1 .. n]
  <2>1. Deduplicated(signals) = FoldLeft(LAMBDA seen, s : IF \E i \in DOMAIN seen : seen[i].id = s.id THEN seen
                              ELSE Append(seen, s), <<>>, signals)
    BY DEF Deduplicated
  <2> HIDE DEF n
  <2> QED
    BY <1>1, <2>1, Zenon DEF FoldLeft, MapThenFoldSet, Once
<1> HIDE DEF c
<1>9. FoldIn(c, n, Seq(I), <<>>, step)
  BY <1>4, <1>7 DEF FoldIn
<1> HIDE DEF step, n
<1>10. PICK g : StepsOf(g, n, Seq(I), <<>>, step, c[1 .. n])
  BY <1>0, <1>1, <1>3, <1>9, FoldIsSteps, Zenon
<1>11. ASSUME NEW i \in 1 .. n
       PROVE  g[i] = Once(g[i - 1], signals[i])
  <2>1. i - 1 \in 0 .. n
    BY <1>1
  <2>2. step[i][g[i - 1]] = Once(g[i - 1], signals[i])
    BY <1>10, <2>1 DEF step, StepsOf
  <2> QED
    BY <1>10, <2>2 DEF StepsOf
<1> QED
  BY <1>8, <1>10, <1>11 DEF n, StepsOf, DeduplicatedRun

\* No two of some signals are of one observation.
Distinct(q) == \A i, j \in 1 .. Len(q) : q[i].id = q[j].id => i = j

\* Appending a signal whose id is not there keeps the ids distinct.
LEMMA DistinctOneMore ==
    ASSUME NEW I, NEW q \in Seq(I), Distinct(q), NEW s \in I, \A i \in 1 .. Len(q) : q[i].id # s.id
    PROVE  Distinct(Append(q, s))
<1>1. /\ Len(Append(q, s)) = Len(q) + 1 /\ Len(q) \in Nat
      /\ \A i \in 1 .. Len(q) : Append(q, s)[i] = q[i]
      /\ Append(q, s)[Len(q) + 1] = s
  OBVIOUS
<1>2. \A i \in 1 .. Len(q) + 1 : i \in 1 .. Len(q) \/ i = Len(q) + 1
  BY <1>1
<1>3. ASSUME NEW i \in 1 .. Len(q) + 1, NEW j \in 1 .. Len(q) + 1, Append(q, s)[i].id = Append(q, s)[j].id
      PROVE  i = j
  <2>1. CASE i \in 1 .. Len(q) /\ j \in 1 .. Len(q)
    BY <1>1, <1>3, <2>1 DEF Distinct
  <2>2. CASE i \in 1 .. Len(q) /\ j = Len(q) + 1
    BY <1>1, <1>3, <2>2
  <2>3. CASE i = Len(q) + 1 /\ j \in 1 .. Len(q)
    BY <1>1, <1>3, <2>3
  <2> QED
    BY <1>2, <2>1, <2>2, <2>3
<1> QED
  BY <1>1, <1>3 DEF Distinct

\* One copy is kept of every observation.
LEMMA DeduplicatedKeeps ==
    ASSUME NEW I, NEW signals \in Seq(I)
    PROVE  /\ Deduplicated(signals) \in Seq(I)
           /\ Distinct(Deduplicated(signals))
           /\ \A s \in ToSet(signals) : \E i \in 1 .. Len(Deduplicated(signals)) : Deduplicated(signals)[i].id = s.id
<1> DEFINE n == Len(signals)
           Has(q, S) == \A s \in S : \E i \in 1 .. Len(q) : q[i].id = s.id
<1>0. n \in Nat
  OBVIOUS
<1>1. PICK g : DeduplicatedRun(g, I, signals)
  BY DeduplicatedSteps, Zenon
<1> DEFINE P == {k \in 0 .. n : Distinct(g[k]) /\ Has(g[k], Part(signals, 1, k))}
<1>2. 0 \in P
  <2>1. Part(signals, 1, 0) = {} /\ Distinct(<<>>)
    BY PartsGrowAnyway DEF Distinct
  <2>2. 0 \in 0 .. n
    BY <1>0
  <2> QED
    BY <1>1, <2>1, <2>2 DEF DeduplicatedRun
<1>3. ASSUME NEW k \in 0 .. n - 1, k \in P
      PROVE  k + 1 \in P
  <2> DEFINE s == signals[k + 1]
             q == g[k]
             S == Part(signals, 1, k)
  <2>1. Part(signals, 1, k + 1) = S \cup {s} /\ s \in I /\ k + 1 \in 1 .. n
    BY PartsGrowAnyway
  <2>2. k + 1 \in 0 .. n /\ (k + 1) - 1 = k /\ k \in 0 .. n
    BY <2>1
  <2>3. g[k + 1] = Once(q, s) /\ q \in Seq(I)
    BY <1>1, <2>1, <2>2 DEF DeduplicatedRun
  <2>4. Distinct(q) /\ Has(q, S)
    BY <1>3
  <2> HIDE DEF s, q, S
  <2>5. CASE \E i \in DOMAIN q : q[i].id = s.id
    <3>1. g[k + 1] = q
      BY <2>3, <2>5 DEF Once
    <3>2. \E i \in 1 .. Len(q) : q[i].id = s.id
      BY <2>3, <2>5
    <3> QED
      BY <2>1, <2>2, <2>4, <3>1, <3>2
  <2>6. CASE ~\E i \in DOMAIN q : q[i].id = s.id
    <3>1. g[k + 1] = Append(q, s)
      BY <2>3, <2>6 DEF Once
    <3>2. \A i \in 1 .. Len(q) : q[i].id # s.id
      BY <2>3, <2>6
    <3>3. Distinct(Append(q, s))
      BY <2>1, <2>3, <2>4, <3>2, DistinctOneMore
    <3>4. /\ Len(Append(q, s)) = Len(q) + 1 /\ Len(q) \in Nat
          /\ \A i \in 1 .. Len(q) : Append(q, s)[i] = q[i]
          /\ Append(q, s)[Len(q) + 1] = s
      BY <2>1, <2>3
    <3>5. Has(Append(q, s), S \cup {s})
      <4>1. ASSUME NEW x \in S
            PROVE  \E i \in 1 .. Len(Append(q, s)) : Append(q, s)[i].id = x.id
        <5>1. PICK i \in 1 .. Len(q) : q[i].id = x.id
          BY <2>4
        <5>2. i \in 1 .. Len(q) + 1
          BY <3>4
        <5> QED
          BY <3>4, <5>1, <5>2
      <4>2. Len(q) + 1 \in 1 .. Len(Append(q, s)) /\ Append(q, s)[Len(q) + 1].id = s.id
        BY <3>4
      <4> QED
        BY <4>1, <4>2
    <3> QED
      BY <2>1, <2>2, <3>1, <3>3, <3>5
  <2> QED
    BY <2>5, <2>6
<1>4. \A k \in 0 .. n : k \in P
  <2> HIDE DEF P, n
  <2> QED
    BY <1>0, <1>2, <1>3, StepByStep, Zenon
<1>5. n \in 0 .. n /\ Part(signals, 1, n) = ToSet(signals)
  BY <1>0, PartsGrowAnyway
<1>6. Deduplicated(signals) = g[n] /\ g[n] \in Seq(I)
  BY <1>1, <1>5 DEF DeduplicatedRun
<1> QED
  BY <1>4, <1>5, <1>6

\* InsertNewest makes a sequence of a sequence.
LEMMA NewestIsASequence ==
    ASSUME NEW I, NEW q \in Seq(I), NEW e \in I
    PROVE  InsertNewest(q, e) \in Seq(I)
<1> DEFINE J == {i \in 1 .. Len(q) : ~Newer(e, q[i])}
           k == IF J # {} THEN Max(J) ELSE 0
<1>1. Len(q) \in Nat /\ J \in SUBSET (1 .. Len(q))
  OBVIOUS
<1>2. InsertNewest(q, e) = InsertAt(q, k + 1, e)
  BY Zenon DEF InsertNewest, SelectLastInSeq
<1>3. k \in 0 .. Len(q)
  <2> HIDE DEF J
  <2> QED
    BY <1>1, LastPlace
<1> HIDE DEF k
<1> QED
  BY <1>2, <1>3, InsertedIsASequence

\* InsertNewest lists one more.
LEMMA ListsNewest ==
    ASSUME NEW S, NEW q, Lists(q, S), NEW e, e \notin S
    PROVE  Lists(InsertNewest(q, e), S \cup {e})
<1> DEFINE J == {i \in 1 .. Len(q) : ~Newer(e, q[i])}
           k == IF J # {} THEN Max(J) ELSE 0
<1>1. Len(q) \in Nat /\ J \in SUBSET (1 .. Len(q))
  BY DEF Lists
<1>2. InsertNewest(q, e) = InsertAt(q, k + 1, e)
  BY Zenon DEF InsertNewest, SelectLastInSeq
<1>3. k \in 0 .. Len(q)
  <2> HIDE DEF J
  <2> QED
    BY <1>1, LastPlace
<1> HIDE DEF k
<1> QED
  BY <1>2, <1>3, ListsInserted

\* SetToSeq lists a finite set, which is what NewestFirst starts from.
LEMMA SomeOrder ==
    ASSUME NEW S, IsFiniteSet(S)
    PROVE  Lists(SetToSeq(S), S)
<1> DEFINE n == Cardinality(S)
<1>1. n \in Nat /\ ExistsBijection(1 .. n, S)
  BY FS_CardinalityType
<1>2. PICK b \in Bijection(1 .. n, S) : TRUE
  BY <1>1 DEF ExistsBijection
<1>3. b \in [1 .. n -> S] /\ IsInjective(b)
  BY <1>2 DEF Bijection, Injection, Surjection
<1>4. SetToSeq(S) \in [1 .. n -> S] /\ IsInjective(SetToSeq(S))
  BY <1>3, Zenon DEF SetToSeq
<1> HIDE DEF n
<1> DEFINE q == SetToSeq(S)
<1> HIDE DEF q
<1>5. q \in Injection(1 .. n, S)
  BY <1>4 DEF Injection, IsInjective, q
<1>6. IsFiniteSet(1 .. n) /\ Cardinality(1 .. n) = n
  BY <1>1, FS_Interval
<1>7. q \in Surjection(1 .. n, S)
  BY <1>5, <1>6, FS_Injection DEF n
<1>8. q \in Seq(S) /\ Len(q) = n
  BY <1>1, <1>4 DEF q
<1>9. Lists(q, S)
  BY <1>5, <1>7, <1>8 DEF Injection, Surjection, IsInjective, Lists
<1> QED
  BY <1>9 DEF q

\* Sorting newest first, signal by signal.
NewestRun(g, S) ==
    /\ g \in [0 .. Len(SetToSeq(S)) -> Seq(S)]
    /\ g[0] = <<>>
    /\ \A i \in 1 .. Len(SetToSeq(S)) : g[i] = InsertNewest(g[i - 1], SetToSeq(S)[i])
    /\ NewestFirst(S) = g[Len(SetToSeq(S))]

\* The newest are put first one at a time.
LEMMA NewestSteps ==
    ASSUME NEW S, SetToSeq(S) \in Seq(S)
    PROVE  \E g : NewestRun(g, S)
<1> DEFINE n == Len(SetToSeq(S))
           D == SUBSET (1 .. n)
           step == [i \in 1 .. n |-> [v \in Seq(S) |-> InsertNewest(v, SetToSeq(S)[i])]]
           Fold(f) == [s \in D |-> IF s = {} THEN <<>>
                                   ELSE InsertNewest(f[s \ {Max(s)}], SetToSeq(S)[Max(s)])]
           c == CHOOSE f : f = Fold(f)
<1>0. <<>> \in Seq(S)
  OBVIOUS
<1>1. n \in Nat /\ DOMAIN SetToSeq(S) = 1 .. n
  OBVIOUS
<1>2. ASSUME NEW i \in 1 .. n, NEW v \in Seq(S)
      PROVE  InsertNewest(v, SetToSeq(S)[i]) \in Seq(S)
  BY NewestIsASequence
<1>3. step \in [1 .. n -> [Seq(S) -> Seq(S)]]
  BY <1>2
<1>4. ASSUME NEW s \in D, s # {}
      PROVE  Max(s) \in 1 .. n /\ s \ {Max(s)} \in D
  BY <1>1, <1>4, MaxOfPart
<1>5. PICK f : FoldOf(f, n, Seq(S), <<>>, step)
  <2> HIDE DEF step, n
  <2> QED
    BY <1>0, <1>1, <1>3, FoldExists, Zenon
<1>6. f = Fold(f)
  <2>1. ASSUME NEW s \in D, s # {}
        PROVE  f[s] = InsertNewest(f[s \ {Max(s)}], SetToSeq(S)[Max(s)])
    BY <1>4, <1>5, <2>1 DEF FoldOf
  <2> QED
    BY <1>5, <2>1 DEF FoldOf
<1>7. c = Fold(c)
  <2> HIDE DEF Fold
  <2> QED
    BY <1>6
<1>8. NewestFirst(S) = c[1 .. n]
  <2>1. NewestFirst(S) = FoldLeft(InsertNewest, <<>>, SetToSeq(S))
    BY DEF NewestFirst
  <2> HIDE DEF n
  <2> QED
    BY <1>1, <2>1, Zenon DEF FoldLeft, MapThenFoldSet
<1> HIDE DEF c
<1>9. FoldIn(c, n, Seq(S), <<>>, step)
  BY <1>4, <1>7 DEF FoldIn
<1> HIDE DEF step, n
<1>10. PICK g : StepsOf(g, n, Seq(S), <<>>, step, c[1 .. n])
  BY <1>0, <1>1, <1>3, <1>9, FoldIsSteps, Zenon
<1>11. ASSUME NEW i \in 1 .. n
       PROVE  g[i] = InsertNewest(g[i - 1], SetToSeq(S)[i])
  <2>1. i - 1 \in 0 .. n
    BY <1>1
  <2>2. step[i][g[i - 1]] = InsertNewest(g[i - 1], SetToSeq(S)[i])
    BY <1>10, <2>1 DEF step, StepsOf
  <2> QED
    BY <1>10, <2>2 DEF StepsOf
<1> QED
  BY <1>8, <1>10, <1>11 DEF n, StepsOf, NewestRun

\* NewestFirst lists a finite set.
LEMMA NewestFirstLists ==
    ASSUME NEW S, IsFiniteSet(S)
    PROVE  Lists(NewestFirst(S), S)
<1> DEFINE items == SetToSeq(S)
           n == Len(items)
<1>1. Lists(items, S) /\ items \in Seq(S) /\ n \in Nat
  <2>1. Lists(items, S)
    BY SomeOrder
  <2> QED
    BY <2>1 DEF Lists
<1>2. PICK g : NewestRun(g, S)
  BY <1>1, NewestSteps, Zenon
<1> DEFINE P == {k \in 0 .. n : Lists(g[k], Part(items, 1, k))}
<1>3. 0 \in P
  <2>1. Part(items, 1, 0) = {} /\ Lists(<<>>, {})
    BY <1>1, PartsGrow, ListsNothing
  <2>2. 0 \in 0 .. n
    BY <1>1
  <2> QED
    BY <1>2, <2>1, <2>2 DEF NewestRun
<1>4. ASSUME NEW k \in 0 .. n - 1, k \in P
      PROVE  k + 1 \in P
  <2>1. /\ Part(items, 1, k + 1) = Part(items, 1, k) \cup {items[k + 1]}
        /\ items[k + 1] \notin Part(items, 1, k)
        /\ k + 1 \in 1 .. n
    BY <1>1, PartsGrow
  <2>2. k + 1 \in 0 .. n /\ (k + 1) - 1 = k
    BY <2>1
  <2>3. g[k + 1] = InsertNewest(g[k], items[k + 1])
    BY <1>2, <2>1, <2>2 DEF NewestRun
  <2>4. Lists(g[k], Part(items, 1, k))
    BY <1>4
  <2>5. Lists(InsertNewest(g[k], items[k + 1]), Part(items, 1, k) \cup {items[k + 1]})
    BY <2>1, <2>4, ListsNewest, Zenon
  <2> QED
    BY <2>1, <2>2, <2>3, <2>5
<1>5. \A k \in 0 .. n : k \in P
  <2> HIDE DEF P, n
  <2> QED
    BY <1>1, <1>3, <1>4, StepByStep, Zenon
<1>6. n \in 0 .. n /\ Part(items, 1, n) = S
  BY <1>1, PartsGrow
<1> QED
  BY <1>2, <1>5, <1>6 DEF NewestRun

-----------------------------------------------------------------------------
(* What the node may hold.                                                   *)

\* What instruments say, and what the cases on record do.
StationId(kind, st) == <<kind, st, Parameter, 0>>
\* A reading of a station, from either of the two sources that carry it.
FromStation(kind, st, at, magnitude) ==
    Signal("ground_station", StationId(kind, st), StationPlace[st], at, "unclear",
           StationReliability, magnitude)
\* A reading of the sensor.
FromSensor(parameter, at, magnitude) ==
    Signal("citizen_sensor", <<"sensor", SensorId, parameter, at>>, SensorPlace, at, "unclear",
           SensorReliability, magnitude)
\* Every signal a station can give.
OfStations == {FromStation(kind, st, at, m) : kind \in {"station", "station:cpcb"}, st \in Stations,
                                              at \in Int, m \in Int}
\* Every signal the sensor can give.
OfSensor == {FromSensor(p, at, m) : p \in DOMAIN Limit, at \in Int, m \in Int}
\* Every signal a fire can give.
OfFires == {SignalFromDetection(f) : f \in FireShape}
\* Every signal an instrument can give.
Observable == OfStations \cup OfSensor \cup OfFires

\* The id that detection_id gives a fire: where and when it was seen.
FireId(f) == <<"viirs", f.place, f.at, 0>>

\* The strength of a reading is a number of thousandths.
LEMMA StrengthIsANumber ==
    ASSUME NEW confidence
    PROVE  SatelliteStrength(confidence) \in Int
BY DEF SatelliteStrength, NamedStrength

\* What every signal of an instrument has.
LEMMA ObservableSays ==
    ASSUME NEW s \in Observable
    PROVE  /\ s.place \in Int /\ s.at \in Int /\ s.strength \in Int
           /\ s.type = "unclear" /\ s.source # "citizen_report" /\ s.id[1] # "case"
           /\ s.id[1] = "viirs" => s.source = "satellite" /\ s.id = <<"viirs", s.place, s.at, 0>>
           /\ s.source = "ground_station" => s.id[1] \in {"station", "station:cpcb"}
<1>1. CASE s \in OfStations
  <2>1. PICK kind \in {"station", "station:cpcb"}, st \in Stations, at \in Int, m \in Int :
          s = FromStation(kind, st, at, m)
    BY <1>1 DEF OfStations
  <2>2. StationPlace[st] \in Int /\ StationReliability \in Int
    BY ObservationsAssumption DEF StationReliability
  <2> QED
    BY <2>1, <2>2 DEF FromStation, StationId, Signal
<1>2. CASE s \in OfSensor
  <2>1. PICK p \in DOMAIN Limit, at \in Int, m \in Int : s = FromSensor(p, at, m)
    BY <1>2 DEF OfSensor
  <2>2. SensorPlace \in Int /\ SensorReliability \in Int
    <3>1. CasePlaces \cup {SensorPlace} \subseteq Int /\ SensorReliability \in 0 .. 1000
      BY ObservationsAssumption, Zenon
    <3> QED
      BY <3>1
  <2> QED
    BY <2>1, <2>2 DEF FromSensor, Signal
<1>3. CASE s \in OfFires
  <2>1. PICK f \in FireShape : s = SignalFromDetection(f)
    BY <1>3 DEF OfFires
  <2>2. f.place \in Int /\ f.at \in Int /\ SatelliteStrength(f.confidence) \in Int
    BY StrengthIsANumber DEF FireShape
  <2> QED
    BY <2>1, <2>2 DEF SignalFromDetection, Signal
<1> QED
  BY <1>1, <1>2, <1>3 DEF Observable

\* The record of cases: a sequence of cases with distinct ids.
IsRecord(record) ==
    /\ record \in Seq(CaseShape)
    /\ \A i, j \in DOMAIN record : record[i].id = record[j].id => i = j

\* A record lists its cases.
LEMMA RecordLists ==
    ASSUME NEW record, IsRecord(record)
    PROVE  /\ Lists(Reverse(record), ToSet(record))
           /\ ToSet(record) \subseteq CaseShape
           /\ \A c, d \in ToSet(record) : c.id = d.id => c = d
<1> DEFINE n == Len(record)
           q == Reverse(record)
<1>1. n \in Nat /\ DOMAIN record = 1 .. n /\ record \in Seq(CaseShape)
  BY DEF IsRecord
<1>2. q = [i \in 1 .. n |-> record[(n - i) + 1]]
  BY DEF Reverse
<1>3. ASSUME NEW i \in 1 .. n
      PROVE  (n - i) + 1 \in 1 .. n /\ (n - ((n - i) + 1)) + 1 = i
  BY <1>1
<1>4. q \in Seq(ToSet(record)) /\ Len(q) = n
  <2>1. \A i \in 1 .. n : record[(n - i) + 1] \in ToSet(record)
    BY <1>1, <1>3 DEF ToSet
  <2> QED
    BY <1>1, <1>2, <2>1
<1>5. ASSUME NEW s \in ToSet(record)
      PROVE  \E i \in 1 .. Len(q) : q[i] = s
  <2>1. PICK i \in 1 .. n : record[i] = s
    BY <1>1 DEF ToSet
  <2> QED
    BY <1>2, <1>3, <1>4, <2>1
<1>6. ASSUME NEW i \in 1 .. Len(q), NEW j \in 1 .. Len(q), q[i] = q[j]
      PROVE  i = j
  <2>1. record[(n - i) + 1].id = record[(n - j) + 1].id
    BY <1>2, <1>4, <1>6
  <2>2. (n - i) + 1 = (n - j) + 1
    BY <1>1, <1>3, <1>4, <2>1 DEF IsRecord
  <2> QED
    BY <1>1, <1>4, <2>2
<1>7. \A c, d \in ToSet(record) : c.id = d.id => c = d
  BY DEF ToSet, IsRecord
<1>8. ToSet(record) \subseteq CaseShape
  BY <1>1 DEF ToSet
<1> QED
  BY <1>4, <1>5, <1>6, <1>7, <1>8 DEF Lists

\* The signals of the cases that count.
ReportSignals(record) == {SignalFromCase(c) : c \in {d \in ToSet(record) : Eligible(d)}}

\* The signal of a report has the place and day of its case.
LEMMA ReportSays ==
    ASSUME NEW c \in CaseShape, Eligible(c)
    PROVE  LET s == SignalFromCase(c)
           IN /\ s.place = c.place /\ s.place \in Int /\ s.strength \in Int /\ s.type = c.evidence.type
              /\ s.type # "unclear" /\ s.source = "citizen_report" /\ s.id = <<"case", c.id, 0, 0>>
              /\ s.at = c.at /\ s.at \in Int
BY DEF CaseShape, EvidenceShape, SignalFromCase, Signal, Eligible

\* The signals of the record are those of its eligible cases.
LEMMA CaseSignalsAre ==
    ASSUME NEW record, IsRecord(record)
    PROVE  CaseSignals(Reverse(record)) \in Seq(ReportSignals(record))
             /\ ToSet(CaseSignals(Reverse(record))) = ReportSignals(record)
<1> DEFINE q == Reverse(record)
           T == {c \in ToSet(q) : Eligible(c)}
           e == Only(q, T)
<1>1. Lists(q, ToSet(record)) /\ ToSet(q) = ToSet(record)
  BY RecordLists, ListsItsItems, Zenon
<1>2. Lists(e, T)
  <2>1. Lists(e, ToSet(record) \cap T)
    <3> HIDE DEF q, T
    <3> QED
      BY <1>1, OnlyLists, Zenon
  <2>2. ToSet(record) \cap T = T
    BY <1>1
  <2> QED
    BY <2>1, <2>2, Zenon
<1>3. CaseSignals(q) = [i \in DOMAIN e |-> SignalFromCase(e[i])]
  BY DEF CaseSignals
<1>4. ReportSignals(record) = {SignalFromCase(c) : c \in T}
  BY <1>1 DEF ReportSignals
<1> HIDE DEF e, T, q
<1>5. DOMAIN e = 1 .. Len(e) /\ Len(e) \in Nat /\ \A i \in 1 .. Len(e) : e[i] \in T
  BY <1>2 DEF Lists
<1>6. \A c \in T : \E i \in 1 .. Len(e) : e[i] = c
  BY <1>2 DEF Lists
<1>7. CaseSignals(q) \in Seq({SignalFromCase(c) : c \in T})
  BY <1>3, <1>5
<1>8. ToSet(CaseSignals(q)) = {SignalFromCase(c) : c \in T}
  BY <1>3, <1>5, <1>6 DEF ToSet
<1> QED
  BY <1>4, <1>7, <1>8 DEF q

\* Every observation is visible once, and nothing else.
LEMMA VisibleHas ==
    ASSUME NEW record, IsRecord(record), stored \subseteq Observable, IsFiniteSet(stored)
    PROVE  LET V == VisibleWith(record)
           IN /\ Lists(V, ToSet(V))
              /\ ToSet(V) \subseteq ReportSignals(record) \cup Live
              /\ ReportSignals(record) \subseteq ToSet(V)
              /\ \A s \in Live : \E t \in ToSet(V) : t.id = s.id
              /\ \A s \in ToSet(V) : s.place \in Int /\ s.strength \in Int
<1> DEFINE a == CaseSignals(Reverse(record))
           b == NewestFirst(Live)
           R == ReportSignals(record)
           V == VisibleWith(record)
<1>1. a \in Seq(R) /\ ToSet(a) = R
  BY CaseSignalsAre, Zenon
<1>2. IsFiniteSet(Live) /\ Live \subseteq Observable
  <2>1. Live \in SUBSET stored
    BY DEF Live
  <2> QED
    BY <2>1, FS_Subset
<1>3. Lists(b, Live) /\ b \in Seq(Live) /\ ToSet(b) = Live
  <2>1. Lists(b, Live)
    BY <1>2, NewestFirstLists, Zenon
  <2> QED
    BY <2>1, ListsItsItems DEF Lists
<1>4. V = Deduplicated(a \o b)
  BY DEF VisibleWith
<1>5. a \o b \in Seq(R \cup Live) /\ ToSet(a \o b) = R \cup Live
  <2> HIDE DEF a, b, R
  <2>1. a \in Seq(R \cup Live) /\ b \in Seq(R \cup Live)
    BY <1>1, <1>3
  <2>2. a \o b \in Seq(R \cup Live)
    BY <2>1
  <2>3. /\ Len(a \o b) = Len(a) + Len(b) /\ Len(a) \in Nat /\ Len(b) \in Nat
        /\ DOMAIN a = 1 .. Len(a) /\ DOMAIN b = 1 .. Len(b) /\ DOMAIN (a \o b) = 1 .. Len(a) + Len(b)
        /\ \A i \in 1 .. Len(a) + Len(b) : (a \o b)[i] = IF i <= Len(a) THEN a[i] ELSE b[i - Len(a)]
    BY <2>1
  <2>4. ASSUME NEW s \in R \cup Live
        PROVE  s \in ToSet(a \o b)
    <3>1. CASE s \in R
      <4>1. PICK i \in 1 .. Len(a) : a[i] = s
        BY <1>1, <2>3, <3>1 DEF ToSet
      <4> QED
        BY <2>3, <4>1 DEF ToSet
    <3>2. CASE s \in Live
      <4>1. PICK i \in 1 .. Len(b) : b[i] = s
        BY <1>3, <2>3, <3>2 DEF ToSet
      <4>2. Len(a) + i \in 1 .. Len(a) + Len(b) /\ ~(Len(a) + i <= Len(a)) /\ (Len(a) + i) - Len(a) = i
        BY <2>3
      <4> QED
        BY <2>3, <4>1, <4>2 DEF ToSet
    <3> QED
      BY <3>1, <3>2
  <2>5. ToSet(a \o b) \subseteq R \cup Live
    BY <2>2 DEF ToSet
  <2> QED
    BY <2>2, <2>4, <2>5
<1>6. /\ V \in Seq(R \cup Live)
      /\ Distinct(V)
      /\ \A s \in ToSet(a \o b) : \E i \in 1 .. Len(V) : V[i].id = s.id
  <2> HIDE DEF a, b, R, V
  <2> QED
    BY <1>4, <1>5, DeduplicatedKeeps, Zenon
<1>7. V \in Seq(ToSet(V)) /\ DOMAIN V = 1 .. Len(V) /\ Len(V) \in Nat
  <2> HIDE DEF V, R
  <2> QED
    BY <1>6 DEF ToSet
<1>8. Lists(V, ToSet(V))
  <2> HIDE DEF V
  <2> QED
    BY <1>6, <1>7 DEF Lists, ToSet, Distinct
<1>9. ToSet(V) \subseteq R \cup Live
  <2> HIDE DEF V, R
  <2> QED
    BY <1>6 DEF ToSet
<1>10. ASSUME NEW s \in R \cup Live
       PROVE  \E t \in ToSet(V) : t.id = s.id
  <2> HIDE DEF V, R, a, b
  <2> QED
    BY <1>5, <1>6, <1>7, <1>10 DEF ToSet
<1>11. ASSUME NEW s \in R, NEW t \in R \cup Live, t.id = s.id
       PROVE  t = s
  <2>1. PICK c \in ToSet(record) : Eligible(c) /\ s = SignalFromCase(c)
    BY DEF ReportSignals
  <2>2. c \in CaseShape
    BY RecordLists
  <2>3. s.id = <<"case", c.id, 0, 0>>
    BY <2>1, <2>2, ReportSays
  <2>4. CASE t \in Live
    <3>1. t.id[1] # "case"
      BY <1>2, <2>4, ObservableSays
    <3> QED
      BY <1>11, <2>3, <3>1
  <2>5. CASE t \in R
    <3>1. PICK d \in ToSet(record) : Eligible(d) /\ t = SignalFromCase(d)
      BY <2>5 DEF ReportSignals
    <3>2. t.id = <<"case", d.id, 0, 0>>
      BY <3>1, RecordLists, ReportSays
    <3>3. c.id = d.id
      BY <1>11, <2>3, <3>2
    <3> QED
      BY <2>1, <3>1, <3>3, RecordLists
  <2> QED
    BY <2>4, <2>5
<1>12. R \subseteq ToSet(V)
  <2> HIDE DEF R, V
  <2> QED
    BY <1>9, <1>10, <1>11
<1>13. ASSUME NEW s \in R \cup Live
       PROVE  s.place \in Int /\ s.strength \in Int
  <2>1. CASE s \in Live
    BY <1>2, <2>1, ObservableSays
  <2>2. CASE s \in R
    <3>1. PICK c \in ToSet(record) : Eligible(c) /\ s = SignalFromCase(c)
      BY <2>2 DEF ReportSignals
    <3> QED
      BY <3>1, RecordLists, ReportSays
  <2> QED
    BY <2>1, <2>2
<1> HIDE DEF V, R, a, b
<1>14. \A s \in Live : \E t \in ToSet(V) : t.id = s.id
  BY <1>10
<1>15. \A s \in ToSet(V) : s.place \in Int /\ s.strength \in Int
  BY <1>9, <1>13
<1> QED
  BY <1>8, <1>9, <1>12, <1>14, <1>15 DEF V, R

-----------------------------------------------------------------------------
(* The places of a pass.                                                     *)

\* The step of Waypoints: a corridor that crosses the node's country adds its
\* own.
WithWaypoints(points, c) == IF NodeCountry \in c.countries THEN points \o c.waypoints ELSE points

\* The waypoints, corridor by corridor.
WaypointRun(g) ==
    /\ g \in [0 .. Len(Corridors) -> Seq(Int)]
    /\ g[0] = <<>>
    /\ \A i \in 1 .. Len(Corridors) : g[i] = WithWaypoints(g[i - 1], Corridors[i])
    /\ Waypoints = g[Len(Corridors)]

\* The waypoints are collected corridor by corridor.
LEMMA WaypointSteps ==
    ASSUME NEW Cs, Corridors \in Seq(Cs), \A w \in Cs : w.waypoints \in Seq(Int)
    PROVE  \E g : WaypointRun(g)
<1> DEFINE n == Len(Corridors)
           D == SUBSET (1 .. n)
           step == [i \in 1 .. n |-> [v \in Seq(Int) |-> WithWaypoints(v, Corridors[i])]]
           Fold(f) == [s \in D |-> IF s = {} THEN <<>>
                                   ELSE WithWaypoints(f[s \ {Max(s)}], Corridors[Max(s)])]
           c == CHOOSE f : f = Fold(f)
<1>0. <<>> \in Seq(Int)
  OBVIOUS
<1>1. n \in Nat /\ DOMAIN Corridors = 1 .. n
  OBVIOUS
<1>2. ASSUME NEW i \in 1 .. n, NEW v \in Seq(Int)
      PROVE  WithWaypoints(v, Corridors[i]) \in Seq(Int)
  BY <1>1, <1>2 DEF WithWaypoints
<1>3. step \in [1 .. n -> [Seq(Int) -> Seq(Int)]]
  BY <1>2
<1>4. ASSUME NEW s \in D, s # {}
      PROVE  Max(s) \in 1 .. n /\ s \ {Max(s)} \in D
  BY <1>1, <1>4, MaxOfPart
<1>5. PICK f : FoldOf(f, n, Seq(Int), <<>>, step)
  <2> HIDE DEF step, n
  <2> QED
    BY <1>0, <1>1, <1>3, FoldExists, Zenon
<1>6. f = Fold(f)
  <2>1. ASSUME NEW s \in D, s # {}
        PROVE  f[s] = WithWaypoints(f[s \ {Max(s)}], Corridors[Max(s)])
    BY <1>4, <1>5, <2>1 DEF FoldOf
  <2> QED
    BY <1>5, <2>1 DEF FoldOf
<1>7. c = Fold(c)
  <2> HIDE DEF Fold
  <2> QED
    BY <1>6
<1>8. Waypoints = c[1 .. n]
  <2>1. Waypoints = FoldLeft(LAMBDA points, w : WithWaypoints(points, w), <<>>, Corridors)
    BY DEF Waypoints, WithWaypoints
  <2> HIDE DEF n
  <2> QED
    BY <1>1, <2>1, Zenon DEF FoldLeft, MapThenFoldSet
<1> HIDE DEF c
<1>9. FoldIn(c, n, Seq(Int), <<>>, step)
  BY <1>4, <1>7 DEF FoldIn
<1> HIDE DEF step, n
<1>10. PICK g : StepsOf(g, n, Seq(Int), <<>>, step, c[1 .. n])
  BY <1>0, <1>1, <1>3, <1>9, FoldIsSteps, Zenon
<1>11. ASSUME NEW i \in 1 .. n
       PROVE  g[i] = WithWaypoints(g[i - 1], Corridors[i])
  <2>1. i - 1 \in 0 .. n
    BY <1>1
  <2>2. step[i][g[i - 1]] = WithWaypoints(g[i - 1], Corridors[i])
    BY <1>10, <2>1 DEF step, StepsOf
  <2> QED
    BY <1>10, <2>2 DEF StepsOf
<1> QED
  BY <1>8, <1>10, <1>11 DEF n, StepsOf, WaypointRun

\* A waypoint is a place.
LEMMA WaypointsArePlaces == Waypoints \in Seq(Int)
<1> DEFINE Cs == [countries : SUBSET STRING, waypoints : Seq(Int)]
<1>1. Corridors \in Seq(Cs) /\ \A c \in Cs : c.waypoints \in Seq(Int)
  <2>1. Corridors \in Seq(Cs)
    BY ObservationsAssumption, Zenon
  <2> QED
    BY <2>1
<1> HIDE DEF Cs
<1>2. PICK g : WaypointRun(g)
  BY <1>1, WaypointSteps, Zenon
<1>3. Len(Corridors) \in 0 .. Len(Corridors)
  BY <1>1
<1> QED
  BY <1>2, <1>3 DEF WaypointRun

\* Two places a pass would scan once.
Near(p, q) == 2 * Distance(p, q) < ScanRadius
\* The step of Thinned: a place is kept unless it is near one that is.
KeepPoint(kept, p) == IF \E i \in DOMAIN kept : Near(p, kept[i]) THEN kept ELSE Append(kept, p)

\* Thinning, point by point.
ThinnedRun(g, points) ==
    /\ g \in [0 .. Len(points) -> Seq(Int)]
    /\ g[0] = <<>>
    /\ \A i \in 1 .. Len(points) : g[i] = KeepPoint(g[i - 1], points[i])
    /\ Thinned(points) = g[Len(points)]

\* Places are thinned one at a time.
LEMMA ThinnedSteps ==
    ASSUME NEW points \in Seq(Int)
    PROVE  \E g : ThinnedRun(g, points)
<1> DEFINE n == Len(points)
           D == SUBSET (1 .. n)
           step == [i \in 1 .. n |-> [v \in Seq(Int) |-> KeepPoint(v, points[i])]]
           Fold(f) == [s \in D |-> IF s = {} THEN <<>>
                                   ELSE KeepPoint(f[s \ {Max(s)}], points[Max(s)])]
           c == CHOOSE f : f = Fold(f)
<1>0. <<>> \in Seq(Int)
  OBVIOUS
<1>1. n \in Nat /\ DOMAIN points = 1 .. n
  OBVIOUS
<1>2. ASSUME NEW i \in 1 .. n, NEW v \in Seq(Int)
      PROVE  KeepPoint(v, points[i]) \in Seq(Int)
  BY <1>1, <1>2 DEF KeepPoint
<1>3. step \in [1 .. n -> [Seq(Int) -> Seq(Int)]]
  BY <1>2
<1>4. ASSUME NEW s \in D, s # {}
      PROVE  Max(s) \in 1 .. n /\ s \ {Max(s)} \in D
  BY <1>1, <1>4, MaxOfPart
<1>5. PICK f : FoldOf(f, n, Seq(Int), <<>>, step)
  <2> HIDE DEF step, n
  <2> QED
    BY <1>0, <1>1, <1>3, FoldExists, Zenon
<1>6. f = Fold(f)
  <2>1. ASSUME NEW s \in D, s # {}
        PROVE  f[s] = KeepPoint(f[s \ {Max(s)}], points[Max(s)])
    BY <1>4, <1>5, <2>1 DEF FoldOf
  <2> QED
    BY <1>5, <2>1 DEF FoldOf
<1>7. c = Fold(c)
  <2> HIDE DEF Fold
  <2> QED
    BY <1>6
<1>8. Thinned(points) = c[1 .. n]
  <2>1. Thinned(points) = FoldLeft(LAMBDA kept, p : KeepPoint(kept, p), <<>>, points)
    BY DEF Thinned, KeepPoint, Near
  <2> HIDE DEF n
  <2> QED
    BY <1>1, <2>1, Zenon DEF FoldLeft, MapThenFoldSet
<1> HIDE DEF c
<1>9. FoldIn(c, n, Seq(Int), <<>>, step)
  BY <1>4, <1>7 DEF FoldIn
<1> HIDE DEF step, n
<1>10. PICK g : StepsOf(g, n, Seq(Int), <<>>, step, c[1 .. n])
  BY <1>0, <1>1, <1>3, <1>9, FoldIsSteps, Zenon
<1>11. ASSUME NEW i \in 1 .. n
       PROVE  g[i] = KeepPoint(g[i - 1], points[i])
  <2>1. i - 1 \in 0 .. n
    BY <1>1
  <2>2. step[i][g[i - 1]] = KeepPoint(g[i - 1], points[i])
    BY <1>10, <2>1 DEF step, StepsOf
  <2> QED
    BY <1>10, <2>2 DEF StepsOf
<1> QED
  BY <1>8, <1>10, <1>11 DEF n, StepsOf, ThinnedRun

\* Is there a kept point at a place, or nearer to it than half the radius?
Kept(kept, p) == \E i \in 1 .. Len(kept) : kept[i] = p \/ Near(p, kept[i])

\* Thinning keeps a point near every point.
LEMMA ThinnedKeeps ==
    ASSUME NEW points \in Seq(Int)
    PROVE  Thinned(points) \in Seq(Int) /\ \A p \in ToSet(points) : Kept(Thinned(points), p)
<1> DEFINE n == Len(points)
<1>1. n \in Nat
  OBVIOUS
<1>2. PICK g : ThinnedRun(g, points)
  BY ThinnedSteps, Zenon
<1> DEFINE P == {k \in 0 .. n : \A p \in Part(points, 1, k) : Kept(g[k], p)}
<1>3. 0 \in P
  <2>1. Part(points, 1, 0) = {} /\ 0 \in 0 .. n
    BY <1>1, PartsGrowAnyway
  <2> QED
    BY <2>1
<1>4. ASSUME NEW k \in 0 .. n - 1, k \in P
      PROVE  k + 1 \in P
  <2>1. /\ Part(points, 1, k + 1) = Part(points, 1, k) \cup {points[k + 1]}
        /\ points[k + 1] \in Int
        /\ k + 1 \in 1 .. n
    BY PartsGrowAnyway
  <2>2. k + 1 \in 0 .. n /\ (k + 1) - 1 = k
    BY <2>1
  <2>3. g[k + 1] = KeepPoint(g[k], points[k + 1]) /\ g[k] \in Seq(Int)
    <3>1. g[k + 1] = KeepPoint(g[(k + 1) - 1], points[k + 1])
      BY <1>2, <2>1, Zenon DEF ThinnedRun
    <3>2. g \in [0 .. n -> Seq(Int)]
      BY <1>2, Zenon DEF ThinnedRun
    <3> QED
      BY <2>2, <3>1, <3>2
  <2>4. ASSUME NEW p \in Part(points, 1, k)
        PROVE  Kept(g[k + 1], p)
    <3>1. PICK i \in 1 .. Len(g[k]) : g[k][i] = p \/ Near(p, g[k][i])
      BY <1>4 DEF Kept
    <3>2. i \in 1 .. Len(g[k + 1]) /\ g[k + 1][i] = g[k][i]
      BY <2>1, <2>3 DEF KeepPoint
    <3> QED
      BY <3>1, <3>2 DEF Kept
  <2>5. Kept(g[k + 1], points[k + 1])
    <3>1. CASE \E i \in DOMAIN g[k] : Near(points[k + 1], g[k][i])
      <4>1. g[k + 1] = g[k] /\ DOMAIN g[k] = 1 .. Len(g[k])
        BY <2>3, <3>1 DEF KeepPoint
      <4> QED
        BY <3>1, <4>1 DEF Kept
    <3>2. CASE ~ \E i \in DOMAIN g[k] : Near(points[k + 1], g[k][i])
      <4>1. g[k + 1] = Append(g[k], points[k + 1])
        BY <2>3, <3>2 DEF KeepPoint
      <4>2. Len(g[k]) + 1 \in 1 .. Len(g[k + 1]) /\ g[k + 1][Len(g[k]) + 1] = points[k + 1]
        BY <2>1, <2>3, <4>1
      <4> QED
        BY <4>2 DEF Kept
    <3> QED
      BY <3>1, <3>2
  <2> QED
    BY <2>1, <2>2, <2>4, <2>5
<1>5. \A k \in 0 .. n : k \in P
  <2> HIDE DEF P, n
  <2> QED
    BY <1>1, <1>3, <1>4, StepByStep, Zenon
<1>6. n \in 0 .. n /\ Part(points, 1, n) = ToSet(points)
  BY <1>1, PartsGrowAnyway
<1> QED
  BY <1>2, <1>5, <1>6 DEF ThinnedRun

\* Some target is near every case.
LEMMA TargetsAreNearCases ==
    ASSUME IsRecord(cases)
    PROVE  ScanTargets \in Seq(Int) /\ \A i \in DOMAIN cases : Kept(ScanTargets, cases[i].place)
<1> DEFINE a == [i \in DOMAIN AllCases |-> AllCases[i].place]
<1>1. AllCases \in Seq(CaseShape) /\ ToSet(AllCases) = ToSet(cases)
  <2>1. Lists(AllCases, ToSet(cases)) /\ ToSet(cases) \subseteq CaseShape
    BY RecordLists DEF AllCases
  <2>2. ToSet(AllCases) = ToSet(cases)
    BY <2>1, ListsItsItems, Zenon
  <2> QED
    BY <2>1, <2>2 DEF Lists
<1>2. a \in Seq(Int) /\ DOMAIN a = DOMAIN AllCases
  <2>1. DOMAIN AllCases = 1 .. Len(AllCases) /\ Len(AllCases) \in Nat
    BY <1>1
  <2>2. \A i \in 1 .. Len(AllCases) : AllCases[i].place \in Int
    <3>1. \A c \in CaseShape : c.place \in Int
      BY DEF CaseShape
    <3> QED
      BY <1>1, <2>1, <3>1
  <2> QED
    BY <2>1, <2>2
<1>3. a \o Waypoints \in Seq(Int)
  <2> HIDE DEF a
  <2> QED
    BY <1>2, WaypointsArePlaces
<1>4. ScanTargets = Thinned(a \o Waypoints)
  BY DEF ScanTargets
<1>5. ASSUME NEW i \in DOMAIN cases
      PROVE  cases[i].place \in ToSet(a \o Waypoints)
  <2>1. PICK j \in DOMAIN AllCases : AllCases[j] = cases[i]
    BY <1>1 DEF ToSet
  <2>2. a[j] = cases[i].place /\ j \in DOMAIN a
    BY <1>2, <2>1
  <2> HIDE DEF a
  <2>3. j \in DOMAIN (a \o Waypoints) /\ (a \o Waypoints)[j] = a[j]
    BY <1>2, <2>2, WaypointsArePlaces
  <2> QED
    BY <2>2, <2>3 DEF ToSet
<1> HIDE DEF a
<1> QED
  BY <1>3, <1>4, <1>5, ThinnedKeeps

-----------------------------------------------------------------------------
(* What a pass collects at a place.                                          *)

\* A distance is a natural number.
LEMMA DistanceIsNatural == ASSUME NEW p \in Int, NEW q \in Int PROVE Distance(p, q) \in Nat
BY DEF Distance

\* Some k fires of a set are the nearest of it.
NearestFires(top, near, point, k) ==
    /\ top \in SUBSET near
    /\ Cardinality(top) = k
    /\ \A f \in top, g \in near \ top : Distance(f.place, point) <= Distance(g.place, point)

\* Finitely many fires have k nearest to a place, so the answer of the service
\* exists.
LEMMA NearestFiresExist ==
    ASSUME NEW near, IsFiniteSet(near), \A f \in near : f.place \in Int, NEW point \in Int,
           NEW k \in 0 .. Cardinality(near)
    PROVE  \E top : NearestFires(top, near, point, k)
<1> DEFINE n == Cardinality(near)
           P == {j \in 0 .. n : \E top : NearestFires(top, near, point, j)}
<1>1. n \in Nat
  BY FS_CardinalityType
<1>2. 0 \in P
  <2>1. NearestFires({}, near, point, 0)
    BY FS_EmptySet DEF NearestFires
  <2> QED
    BY <1>1, <2>1
<1>3. ASSUME NEW j \in 0 .. n - 1, j \in P
      PROVE  j + 1 \in P
  <2>1. PICK top : NearestFires(top, near, point, j)
    BY <1>3
  <2>2. IsFiniteSet(top) /\ top \in SUBSET near /\ Cardinality(top) = j
    BY <2>1, FS_Subset DEF NearestFires
  <2>3. near \ top # {}
    <3>1. CASE near \ top = {}
      <4>1. near = top
        BY <2>2, <3>1
      <4> QED
        BY <1>1, <2>2, <4>1
    <3> QED
      BY <3>1
  <2>4. PICK g \in near \ top : \A h \in near \ top : Distance(g.place, point) <= Distance(h.place, point)
    <3> DEFINE T == {Distance(h.place, point) : h \in near \ top}
    <3>1. T \subseteq Nat /\ T # {}
      BY <2>3, DistanceIsNatural
    <3>2. PICK x \in T : \A y \in T : x <= y
      <4> HIDE DEF T
      <4> QED
        BY <3>1, LeastOfNaturals, Zenon
    <3> QED
      BY <3>2
  <2>5. Cardinality(top \cup {g}) = j + 1 /\ top \cup {g} \in SUBSET near
    BY <2>2, FS_AddElement
  <2>6. ASSUME NEW f \in top \cup {g}, NEW h \in near \ (top \cup {g})
        PROVE  Distance(f.place, point) <= Distance(h.place, point)
    <3>1. h \in near \ top
      OBVIOUS
    <3>2. CASE f \in top
      BY <2>1, <3>1, <3>2 DEF NearestFires
    <3>3. CASE f = g
      BY <2>4, <3>1, <3>3
    <3> QED
      BY <3>2, <3>3
  <2>7. NearestFires(top \cup {g}, near, point, j + 1)
    BY <2>5, <2>6 DEF NearestFires
  <2>8. j + 1 \in 0 .. n
    BY <1>1
  <2> QED
    BY <2>7, <2>8
<1>4. \A j \in 0 .. n : j \in P
  <2> HIDE DEF P, n
  <2> QED
    BY <1>1, <1>2, <1>3, StepByStep, Zenon
<1> QED
  BY <1>4

\* What FIRMS has near a place.
FirmsNear(point) == {f \in FirmsWindow : Distance(f.place, point) <= ScanRadius}

\* The fires FIRMS has near a place are finitely many of those that burned.
LEMMA FiresNear ==
    ASSUME fires \subseteq FireShape, IsFiniteSet(fires), NEW point \in Int
    PROVE  /\ IsFiniteSet(FirmsWindow) /\ FirmsWindow \subseteq fires
           /\ IsFiniteSet(FirmsNear(point)) /\ FirmsNear(point) \subseteq FirmsWindow
           /\ \A f \in fires : f.place \in Int /\ f.at \in Int
<1>1. FirmsWindow \in SUBSET fires /\ FirmsNear(point) \in SUBSET fires
  BY DEF FirmsWindow, FirmsNear
<1>2. IsFiniteSet(FirmsWindow) /\ IsFiniteSet(FirmsNear(point))
  BY <1>1, FS_Subset
<1> QED
  BY <1>1, <1>2 DEF FirmsNear, FireShape

\* FIRMS shows the nearest few of them.
LEMMA DetectionsAreNearest ==
    ASSUME fires \subseteq FireShape, IsFiniteSet(fires), NEW point \in Int
    PROVE  NearestFires(Detections(point), FirmsNear(point), point,
                        AtMost(Cardinality(FirmsNear(point)), FirmsTop))
<1> DEFINE near == FirmsNear(point)
           k == AtMost(Cardinality(near), FirmsTop)
<1>1. IsFiniteSet(near) /\ \A f \in near : f.place \in Int
  BY FiresNear
<1>2. k \in 0 .. Cardinality(near)
  <2>1. Cardinality(near) \in Nat
    BY <1>1, FS_CardinalityType
  <2>2. FirmsTop \in Nat
    BY ObservationsAssumption
  <2> QED
    BY <2>1, <2>2 DEF AtMost
<1> HIDE DEF k
<1>3. \E top : NearestFires(top, near, point, k)
  <2> HIDE DEF near
  <2> QED
    BY <1>1, <1>2, NearestFiresExist, Zenon
<1>4. Detections(point) = CHOOSE top \in SUBSET near :
                            /\ Cardinality(top) = k
                            /\ \A f \in top, g \in near \ top :
                                 Distance(f.place, point) <= Distance(g.place, point)
  BY DEF Detections, FirmsNear, k
<1> QED
  <2> HIDE DEF near
  <2>1. NearestFires(Detections(point), near, point, k)
    BY <1>3, <1>4, Zenon DEF NearestFires
  <2> QED
    BY <2>1 DEF near, k

\* A fire in reach that is not crowded out is shown.
LEMMA UncrowdedIsDetected ==
    ASSUME fires \subseteq FireShape, IsFiniteSet(fires), NEW point \in Int,
           NEW f \in FirmsNear(point), ~Crowded(f, point)
    PROVE  f \in Detections(point)
<1> DEFINE near == FirmsNear(point)
           top == Detections(point)
           others == {g \in FirmsWindow \ {f} : Distance(g.place, point) <= Distance(f.place, point)}
<1>1. IsFiniteSet(near) /\ IsFiniteSet(FirmsWindow) /\ near \subseteq FirmsWindow
  BY FiresNear
<1>2. NearestFires(top, near, point, AtMost(Cardinality(near), FirmsTop))
  BY DetectionsAreNearest
<1>3. FirmsTop \in Nat
  BY ObservationsAssumption
<1>4. ~ Cardinality(others) >= FirmsTop
  BY DEF Crowded
<1>5. ASSUME f \notin top
      PROVE  FALSE
  <2>1. top \in SUBSET near /\ Cardinality(top) = AtMost(Cardinality(near), FirmsTop)
    BY <1>2 DEF NearestFires
  <2>2. top # near
    BY <1>5
  <2>3. Cardinality(top) # Cardinality(near)
    BY <1>1, <2>1, <2>2, FS_Subset
  <2>4. Cardinality(top) = FirmsTop
    BY <2>1, <2>3 DEF AtMost
  <2>5. top \in SUBSET others
    BY <1>1, <1>2, <1>5 DEF NearestFires
  <2>6. IsFiniteSet(others)
    <3>1. others \in SUBSET FirmsWindow
      OBVIOUS
    <3> QED
      BY <1>1, <3>1, FS_Subset
  <2>7. Cardinality(top) <= Cardinality(others)
    <3> HIDE DEF others, top
    <3> QED
      BY <2>5, <2>6, FS_Subset
  <2> QED
    BY <1>3, <1>4, <2>4, <2>6, <2>7, FS_CardinalityType
<1> QED
  BY <1>5

\* What is true of a detection.
LEMMA DetectionSays ==
    ASSUME NEW f \in FireShape
    PROVE  LET s == SignalFromDetection(f)
           IN s \in Observable /\ s.source = "satellite" /\ s.place = f.place /\ s.at = f.at
                /\ s.id = FireId(f)
BY DEF SignalFromDetection, Signal, Observable, OfFires, FireId, FireShape

\* A function has finitely many values on a finite set.
LEMMA ImageIsFinite ==
    ASSUME NEW S, IsFiniteSet(S), NEW f
    PROVE  IsFiniteSet({f[x] : x \in S})
<1> DEFINE g == [x \in S |-> f[x]]
           T == {f[x] : x \in S}
<1>1. g \in Surjection(S, T)
  BY DEF Surjection
<1> QED
  BY <1>1, FS_Surjection

\* The detections of an answer are true, and those of fires no other crowds
\* out are among them.
LEMMA DetectedAre ==
    ASSUME fires \subseteq FireShape, IsFiniteSet(fires), NEW point \in Int
    PROVE  LET detected == {SignalFromDetection(d) : d \in Detections(point)}
           IN /\ IsFiniteSet(detected) /\ detected \subseteq Observable
              /\ \A s \in detected : Happened(s) /\ s.id[1] = "viirs"
              /\ \A f \in FirmsNear(point) : ~Crowded(f, point) => \E s \in detected : s.id = FireId(f)
<1> DEFINE top == Detections(point)
           detected == {SignalFromDetection(d) : d \in top}
<1>1. top \in SUBSET fires
  <2>1. top \in SUBSET FirmsNear(point)
    BY DetectionsAreNearest DEF NearestFires
  <2> QED
    BY <2>1, FiresNear
<1>2. IsFiniteSet(detected)
  <2>1. IsFiniteSet(top)
    BY <1>1, FS_Subset
  <2> DEFINE F == [d \in top |-> SignalFromDetection(d)]
  <2>2. detected = {F[d] : d \in top}
    OBVIOUS
  <2> HIDE DEF F, detected
  <2> QED
    BY <2>1, <2>2, ImageIsFinite
<1>3. ASSUME NEW d \in top
      PROVE  LET s == SignalFromDetection(d)
             IN s \in Observable /\ Happened(s) /\ s.id = FireId(d) /\ s.id[1] = "viirs"
  <2>1. d \in FireShape /\ d \in fires
    BY <1>1
  <2> QED
    BY <2>1, DetectionSays DEF Happened, FireId
<1>4. \A f \in FirmsNear(point) : ~Crowded(f, point) => f \in top
  BY UncrowdedIsDetected
<1>5. detected \subseteq Observable /\ \A s \in detected : Happened(s) /\ s.id[1] = "viirs"
  BY <1>3
<1>6. ASSUME NEW f \in FirmsNear(point), ~Crowded(f, point)
      PROVE  \E s \in detected : s.id = FireId(f)
  <2>1. f \in top
    BY <1>4, <1>6
  <2>2. SignalFromDetection(f).id = FireId(f) /\ SignalFromDetection(f) \in detected
    BY <1>3, <2>1
  <2> QED
    BY <2>2
<1> QED
  BY <1>2, <1>5, <1>6

-----------------------------------------------------------------------------
(* What the stations say.                                                    *)

\* A bound on a quotient is a bound on what is divided.
LEMMA QuotientBound ==
    ASSUME NEW n \in Int, NEW d \in Nat \ {0}
    PROVE  /\ n \div d \in Int
           /\ d * (n \div d) <= n
           /\ n < d * (n \div d) + d
OBVIOUS

\* A limit is a positive number.
LEMMA LimitIsPositive == ASSUME NEW p \in DOMAIN Limit PROVE Limit[p] \in Nat \ {0}
BY HotspotAssumption

\* A number that says how far past its limit a reading is.
LEMMA ExceedanceIsANumber ==
    ASSUME NEW p, NEW value \in Int, NEW unit
    PROVE  Exceedance(p, value, unit) \in Int
<1> DEFINE reading == Micrograms(value, unit)
<1>1. reading \in Int
  BY DEF Micrograms
<1>2. CASE p \in DOMAIN Limit
  <2>1. Limit[p] \in Nat \ {0}
    BY <1>2, LimitIsPositive
  <2>2. Round(1000 * (reading - Limit[p]), 2 * Limit[p]) \in Int
    <3> HIDE DEF reading
    <3> DEFINE num == 2 * (1000 * (reading - Limit[p])) + 2 * Limit[p]
               den == 2 * (2 * Limit[p])
    <3>1. num \in Int /\ den \in Nat \ {0}
      BY <1>1, <2>1
    <3>2. num \div den \in Int
      <4> HIDE DEF num, den
      <4> QED
        BY <3>1, QuotientBound
    <3> QED
      BY <3>2 DEF Round
  <2> HIDE DEF reading
  <2>3. AtMost(Round(1000 * (reading - Limit[p]), 2 * Limit[p]), 1000) \in Int
    <3> HIDE DEF reading
    <3> QED
      BY <2>2 DEF AtMost
  <2>4. Exceedance(p, value, unit) \in
          {-1, AtMost(Round(1000 * (reading - Limit[p]), 2 * Limit[p]), 1000)}
    BY DEF Exceedance, reading
  <2> QED
    BY <2>3, <2>4
<1>3. CASE p \notin DOMAIN Limit
  BY <1>3 DEF Exceedance
<1> QED
  BY <1>2, <1>3

\* An exceedance in any unit is one in micrograms.
LEMMA ExceedanceIsReal ==
    ASSUME NEW a \in Nat,
           Exceedance(Parameter, IF Unit = "mg/m3" THEN a \div 1000 ELSE a, Unit) # -1
    PROVE  a >= Limit[Parameter]
<1> DEFINE value == IF Unit = "mg/m3" THEN a \div 1000 ELSE a
<1>1. Limit[Parameter] \in Nat \ {0} /\ Parameter \in DOMAIN Limit
  <2>1. Parameter \in DOMAIN Limit
    BY ObservationsAssumption, Zenon
  <2> QED
    BY <2>1, LimitIsPositive
<1>2. Micrograms(value, Unit) # -1 /\ ~(Micrograms(value, Unit) - Limit[Parameter] < 0)
  BY <1>1 DEF Exceedance
<1>3. CASE Unit = "mg/m3"
  <2>1. Micrograms(value, Unit) = (a \div 1000) * 1000
    BY <1>3 DEF Micrograms
  <2>2. 1000 * (a \div 1000) <= a /\ a \div 1000 \in Int
    BY QuotientBound
  <2> HIDE DEF value
  <2> QED
    BY <1>1, <1>2, <2>1, <2>2
<1>4. CASE Unit # "mg/m3"
  <2>1. Micrograms(value, Unit) = a
    BY <1>2, <1>4 DEF Micrograms
  <2> HIDE DEF value
  <2> QED
    BY <1>1, <1>2, <2>1
<1> QED
  BY <1>3, <1>4

\* A sub-index above a hundred is a reading above the limit.
LEMMA IndexIsReal ==
    ASSUME NEW a \in Nat, (100 * a) \div Limit[Parameter] > 100
    PROVE  a >= Limit[Parameter]
<1>1. Limit[Parameter] \in Nat \ {0}
  <2>1. Parameter \in DOMAIN Limit
    BY ObservationsAssumption, Zenon
  <2> QED
    BY <2>1, LimitIsPositive
<1> DEFINE d == Limit[Parameter]
           q == (100 * a) \div d
<1>2. q \in Int /\ d * q <= 100 * a
  <2>1. 100 * a \in Int
    OBVIOUS
  <2> HIDE DEF d
  <2> QED
    BY <1>1, <2>1, QuotientBound DEF d
<1>3. q >= 101
  <2>1. q > 100
    OBVIOUS
  <2> HIDE DEF q
  <2> QED
    BY <1>2, <2>1
<1>4. d * 101 <= d * q
  <2> HIDE DEF q, d
  <2> QED
    BY <1>1, <1>2, <1>3, TimesKeepsOrder DEF d
<1> HIDE DEF q, d
<1> QED
  BY <1>1, <1>2, <1>4 DEF d

-----------------------------------------------------------------------------
(* The nearest station in OpenAQ's reach.                                    *)

\* The stations within the radius of a scan.
StationsNear(point) ==
    {s \in Stations : Distance(StationPlace[s], point) <= AtMost(ScanRadius, OpenAqRadius)}

\* The station nearest to a place.
NearestStation(point) ==
    CHOOSE t \in StationsNear(point) :
        \A u \in StationsNear(point) : Distance(StationPlace[t], point) <= Distance(StationPlace[u], point)

\* A station is somewhere.
LEMMA StationPlaces == \A s \in Stations : StationPlace[s] \in Int
<1>1. StationPlace \in [Stations -> Int]
  BY ObservationsAssumption, Zenon
<1> QED
  BY <1>1

\* The nearest of the stations near a place is one of them.
LEMMA NearestStationIsNear ==
    ASSUME NEW point \in Int, StationsNear(point) # {}
    PROVE  NearestStation(point) \in StationsNear(point)
<1> DEFINE near == StationsNear(point)
           T == {Distance(StationPlace[t], point) : t \in near}
<1>1. T \subseteq Nat /\ T # {}
  BY StationPlaces, DistanceIsNatural DEF StationsNear
<1>2. PICK x \in T : \A y \in T : x <= y
  <2> HIDE DEF T
  <2> QED
    BY <1>1, LeastOfNaturals, Zenon
<1>3. \E t \in near : \A u \in near : Distance(StationPlace[t], point) <= Distance(StationPlace[u], point)
  BY <1>2
<1> QED
  BY <1>3 DEF NearestStation

\* What OpenAQ says at a place.
OpenAqSays(point) ==
    IF StationsNear(point) = {} THEN {}
    ELSE {[id |-> NearestStation(point), place |-> StationPlace[NearestStation(point)],
           measurements |-> {[parameter |-> Parameter, unit |-> Unit, at |-> today,
                              value |-> IF Unit = "mg/m3" THEN air[NearestStation(point)] \div 1000
                                        ELSE air[NearestStation(point)]]}]}

\* That is the answer.
LEMMA OpenAqSaysIt == ASSUME NEW point PROVE OpenAqPayload(point) = OpenAqSays(point)
BY DEF OpenAqPayload, OpenAqSays, NearestStation, StationsNear

\* What a reading relies on: the air is measured, and what stands above a
\* limit is recorded as having done so.
Measuring == today \in Nat /\ air \in [Stations -> Nat] /\ Above(air) \subseteq over

\* Is a station of those in the scan's reach, and is what it says true?
TrueOfStation(s, kind, point) ==
    /\ s \in OfStations /\ Happened(s)
    /\ \E st \in Stations : s.id = StationId(kind, st) /\ Distance(StationPlace[st], point) <= ScanRadius

\* A reading above the limit is recorded.
LEMMA AboveIsRecorded ==
    ASSUME Measuring, NEW st \in Stations, air[st] >= Limit[Parameter]
    PROVE  <<st, today>> \in over
BY DEF Measuring, Above

\* A reading of a station above its limit is true.
LEMMA FromStationIsTrue ==
    ASSUME Measuring, NEW st \in Stations, air[st] >= Limit[Parameter], NEW m \in Int,
           NEW kind \in {"station", "station:cpcb"}, NEW point,
           Distance(StationPlace[st], point) <= ScanRadius
    PROVE  TrueOfStation(FromStation(kind, st, today, m), kind, point)
<1> DEFINE s == FromStation(kind, st, today, m)
<1>1. s \in OfStations
  BY DEF OfStations, Measuring
<1>2. s.id = StationId(kind, st) /\ s.at = today /\ s.source = "ground_station"
  BY DEF FromStation, Signal
<1>3. s.id[2] = st
  BY <1>2 DEF StationId
<1>4. Happened(s)
  BY <1>2, <1>3, AboveIsRecorded DEF Happened
<1> HIDE DEF s
<1> QED
  BY <1>1, <1>2, <1>4 DEF TrueOfStation, s

\* OpenAQ's signals.
OpenAqSignals(point) == UNION {SignalsFromStation(s) : s \in OpenAqPayload(point)}

\* Every signal of an OpenAQ answer is true.
LEMMA OpenAqIsTrue ==
    ASSUME Measuring, NEW point \in Int
    PROVE  /\ IsFiniteSet(OpenAqSignals(point))
           /\ \A s \in OpenAqSignals(point) : TrueOfStation(s, "station", point)
<1>1. CASE StationsNear(point) = {}
  <2>1. OpenAqSignals(point) = {}
    BY <1>1, OpenAqSaysIt DEF OpenAqSignals, OpenAqSays
  <2> QED
    BY <2>1, FS_EmptySet
<1>2. CASE StationsNear(point) # {}
  <2> DEFINE st == NearestStation(point)
             value == IF Unit = "mg/m3" THEN air[st] \div 1000 ELSE air[st]
             reading == [parameter |-> Parameter, unit |-> Unit, at |-> today, value |-> value]
             station == [id |-> st, place |-> StationPlace[st], measurements |-> {reading}]
             m == Exceedance(Parameter, value, Unit)
  <2>1. st \in Stations /\ Distance(StationPlace[st], point) <= ScanRadius
    <3>1. st \in StationsNear(point)
      BY <1>2, NearestStationIsNear
    <3>2. ScanRadius \in Nat /\ OpenAqRadius \in Nat /\ Distance(StationPlace[st], point) \in Nat
      BY <3>1, ObservationsAssumption, StationPlaces, DistanceIsNatural DEF StationsNear
    <3> QED
      BY <3>1, <3>2 DEF StationsNear, AtMost
  <2>2. air[st] \in Nat
    BY <2>1 DEF Measuring
  <2>3. m \in Int
    <3>1. value \in Int
      BY <2>2, QuotientBound
    <3> HIDE DEF value
    <3> QED
      BY <3>1, ExceedanceIsANumber
  <2>4. OpenAqPayload(point) = {station}
    BY <1>2, OpenAqSaysIt DEF OpenAqSays
  <2>5. SignalFromStation(station, reading) = FromStation("station", st, today, m)
    BY DEF SignalFromStation, FromStation, StationId
  <2>6. SignalsFromStation(station) = {SignalFromStation(station, r) : r \in {q \in {reading} : m # -1}}
    <3>1. station.measurements = {reading} /\ Exceedance(reading.parameter, reading.value, reading.unit) = m
      OBVIOUS
    <3> HIDE DEF reading, station, m
    <3> QED
      BY <3>1 DEF SignalsFromStation
  <2>7. OpenAqSignals(point) = SignalsFromStation(station)
    <3> HIDE DEF station
    <3> QED
      BY <2>4 DEF OpenAqSignals
  <2>8. OpenAqSignals(point) = IF m # -1 THEN {FromStation("station", st, today, m)} ELSE {}
    <3> HIDE DEF station, reading, m
    <3> QED
      BY <2>5, <2>6, <2>7
  <2>9. m # -1 => air[st] >= Limit[Parameter]
    BY <2>2, ExceedanceIsReal
  <2> HIDE DEF m, st
  <2>10. m # -1 => TrueOfStation(FromStation("station", st, today, m), "station", point)
    BY <2>1, <2>3, <2>9, FromStationIsTrue
  <2>11. \A s \in OpenAqSignals(point) : TrueOfStation(s, "station", point)
    BY <2>8, <2>10
  <2>12. IsFiniteSet(OpenAqSignals(point))
    BY <2>8, FS_EmptySet, FS_Singleton
  <2> QED
    BY <2>11, <2>12
<1> QED
  BY <1>1, <1>2

-----------------------------------------------------------------------------
(* What CPCB says.                                                           *)

\* A station as the CPCB feed lists it.
ListedAs(s) ==
    [id |-> s, place |-> StationPlace[s], at |-> today,
     indices |-> {[parameter |-> Parameter, index |-> (100 * air[s]) \div Limit[Parameter]]}]

\* The feed of some stations.
LEMMA FeedIs == ASSUME NEW listed PROVE Feed(listed) = {ListedAs(s) : s \in listed}
BY DEF Feed, ListedAs

\* The signals of one listed station.
IndexSignals(st) ==
    IF (100 * air[st]) \div Limit[Parameter] > 100
    THEN {FromStation("station:cpcb", st, today,
                      AtMost(Round(1000 * ((100 * air[st]) \div Limit[Parameter] - 100), 200), 1000))}
    ELSE {}

\* The signals of a CPCB answer, station by station.
LEMMA CpcbSays ==
    ASSUME NEW listed
    PROVE  SignalsFromCpcb({ListedAs(st) : st \in listed}) = UNION {IndexSignals(st) : st \in listed}
<1> DEFINE Of(s) == {Signal("ground_station", <<"station:cpcb", s.id, i.parameter, 0>>, s.place, s.at,
                            "unclear", StationReliability,
                            AtMost(Round(1000 * (i.index - 100), 200), 1000)) :
                       i \in {j \in s.indices : j.index > 100}}
<1>1. ASSUME NEW st \in listed
      PROVE  Of(ListedAs(st)) = IndexSignals(st)
  <2> DEFINE x == (100 * air[st]) \div Limit[Parameter]
             i == [parameter |-> Parameter, index |-> x]
             s == ListedAs(st)
  <2>1. s.id = st /\ s.place = StationPlace[st] /\ s.at = today /\ s.indices = {i}
    BY DEF ListedAs
  <2>2. i.parameter = Parameter /\ i.index = x
    OBVIOUS
  <2> HIDE DEF i, s, x
  <2>3. Of(s) = IF x > 100
                THEN {Signal("ground_station", <<"station:cpcb", st, Parameter, 0>>, StationPlace[st],
                             today, "unclear", StationReliability,
                             AtMost(Round(1000 * (x - 100), 200), 1000))}
                ELSE {}
    <3> DEFINE one(j) == Signal("ground_station", <<"station:cpcb", s.id, j.parameter, 0>>, s.place, s.at,
                                "unclear", StationReliability,
                                AtMost(Round(1000 * (j.index - 100), 200), 1000))
               high == {j \in s.indices : j.index > 100}
    <3>1. high = IF x > 100 THEN {i} ELSE {}
      BY <2>1, <2>2
    <3>2. Of(s) = {one(j) : j \in high}
      OBVIOUS
    <3>3. one(i) = Signal("ground_station", <<"station:cpcb", st, Parameter, 0>>, StationPlace[st],
                          today, "unclear", StationReliability,
                          AtMost(Round(1000 * (x - 100), 200), 1000))
      BY <2>1, <2>2
    <3> HIDE DEF one, high, Of
    <3> QED
      BY <3>1, <3>2, <3>3
  <2> QED
    BY <2>3 DEF IndexSignals, FromStation, StationId, x, s
<1>2. SignalsFromCpcb({ListedAs(st) : st \in listed}) = UNION {Of(s) : s \in {ListedAs(st) : st \in listed}}
  BY DEF SignalsFromCpcb
<1> HIDE DEF Of
<1> QED
  BY <1>1, <1>2

\* A signal of an index above its limit is true.
LEMMA IndexSignalsAreTrue ==
    ASSUME Measuring, NEW st \in Stations, NEW point, Distance(StationPlace[st], point) <= ScanRadius
    PROVE  /\ IsFiniteSet(IndexSignals(st))
           /\ \A s \in IndexSignals(st) : TrueOfStation(s, "station:cpcb", point)
<1> DEFINE x == (100 * air[st]) \div Limit[Parameter]
           m == AtMost(Round(1000 * (x - 100), 200), 1000)
<1>1. air[st] \in Nat
  BY DEF Measuring
<1>2. Limit[Parameter] \in Nat \ {0}
  <2>1. Parameter \in DOMAIN Limit
    BY ObservationsAssumption, Zenon
  <2> QED
    BY <2>1, LimitIsPositive
<1>3. x \in Int
  <2>1. 100 * air[st] \in Int
    BY <1>1
  <2> QED
    BY <1>2, <2>1, QuotientBound
<1>4. m \in Int
  <2> HIDE DEF x
  <2> QED
    BY <1>3 DEF AtMost, Round
<1>5. x > 100 => air[st] >= Limit[Parameter]
  BY <1>1, IndexIsReal
<1>6. IndexSignals(st) = IF x > 100 THEN {FromStation("station:cpcb", st, today, m)} ELSE {}
  BY DEF IndexSignals
<1> HIDE DEF x, m
<1>7. x > 100 => TrueOfStation(FromStation("station:cpcb", st, today, m), "station:cpcb", point)
  BY <1>4, <1>5, FromStationIsTrue
<1> QED
  BY <1>6, <1>7, FS_EmptySet, FS_Singleton

\* Every signal of a CPCB answer is true.
LEMMA CpcbIsTrue ==
    ASSUME Measuring, NEW point, NEW official, official \subseteq Feed(Stations),
           \A s \in official : Distance(s.place, point) <= ScanRadius
    PROVE  /\ IsFiniteSet(SignalsFromCpcb(official))
           /\ \A s \in SignalsFromCpcb(official) : TrueOfStation(s, "station:cpcb", point)
<1> DEFINE listed == {st \in Stations : ListedAs(st) \in official}
           parts == {IndexSignals(st) : st \in listed}
<1>1. official = {ListedAs(st) : st \in listed}
  BY FeedIs
<1>2. SignalsFromCpcb(official) = UNION parts
  <2> HIDE DEF listed
  <2> QED
    BY <1>1, CpcbSays
<1>3. \A st \in listed : Distance(StationPlace[st], point) <= ScanRadius
  BY DEF ListedAs
<1>4. \A st \in listed : /\ IsFiniteSet(IndexSignals(st))
                        /\ \A s \in IndexSignals(st) : TrueOfStation(s, "station:cpcb", point)
  BY <1>3, IndexSignalsAreTrue
<1>5. IsFiniteSet(listed)
  <2>1. IsFiniteSet(Stations) /\ listed \in SUBSET Stations
    BY ObservationsAssumption
  <2> QED
    BY <2>1, FS_Subset
<1>6. IsFiniteSet(parts)
  <2> DEFINE F == [st \in listed |-> IndexSignals(st)]
  <2>1. parts = {F[st] : st \in listed}
    OBVIOUS
  <2> HIDE DEF F, parts, listed
  <2> QED
    BY <1>5, <2>1, ImageIsFinite
<1>7. IsFiniteSet(UNION parts)
  <2>1. \A part \in parts : IsFiniteSet(part)
    BY <1>4
  <2> HIDE DEF parts
  <2> QED
    BY <1>6, <2>1, FS_UNION
<1>8. \A s \in UNION parts : TrueOfStation(s, "station:cpcb", point)
  BY <1>4
<1> QED
  BY <1>2, <1>7, <1>8

-----------------------------------------------------------------------------
(* The invariant.                                                            *)

\* A pass in progress, or none.
PassShape ==
    [at : {"idle", "scanning"}, targets : Seq(Int), next : Nat \ {0}, batch : SUBSET Observable,
     failed : BOOLEAN, watch : SUBSET FireShape]

\* What the variables hold.
ObservedTypes ==
    /\ today \in Nat /\ IsRecord(cases)
    /\ air \in [Stations -> Nat]
    /\ fires \subseteq FireShape /\ IsFiniteSet(fires)
    /\ stored \subseteq Observable /\ IsFiniteSet(stored)
    /\ pass \in PassShape /\ IsFiniteSet(pass.batch)
    /\ cpcb.stations \subseteq Feed(Stations)

\* A recent signal of an independent instrument tells of something that happened.
Backed ==
    /\ Above(air) \subseteq over
    /\ \A s \in stored \cup pass.batch :
         s.source \in Independent /\ s.at >= today - Retention => Happened(s)

\* A station that OpenAQ was read for is one that CPCB's feed was once without.
Gapped == \A s \in stored \cup pass.batch : s.id[1] = "station" => s.id[2] \in gap

\* A fire that is still in the window FIRMS serves.
BurnsYet(f) == f.at > today - ScanDays

\* A fire that is watched has a target in reach, and a signal once that target
\* was asked about; a fire that is answered for has one that is stored.
Seen(f) ==
    /\ BurnsYet(f) => f \in fires
    /\ \E i \in 1 .. Len(pass.targets) :
         /\ Distance(f.place, pass.targets[i]) <= ScanRadius
         /\ i < pass.next /\ BurnsYet(f) => \E s \in pass.batch : s.id = FireId(f)
\* Every fire that a clean pass so far has in reach is seen.
WatchedAreSeen == \A f \in pass.watch : Seen(f)
\* Every fire a clean pass has covered is on record under its id.
CoveredAreStored == \A f \in covered : f \in FireShape /\ \E s \in stored : s.id = FireId(f)

\* The inductive invariant.
ObservationsInv == ObservedTypes /\ Backed /\ Gapped /\ WatchedAreSeen /\ CoveredAreStored

-----------------------------------------------------------------------------
(* A place is scanned.                                                       *)

\* What a place takes of the two feeds of stations is true, and OpenAQ is only
\* asked when CPCB has nothing near.
LEMMA MeasuredAreTrue ==
    ASSUME Measuring, NEW point \in Int, NEW official, official \subseteq Feed(Stations),
           \A s \in official : Distance(s.place, point) <= ScanRadius
    PROVE  /\ IsFiniteSet(StationSignals(official, point))
           /\ \A s \in StationSignals(official, point) :
                \/ TrueOfStation(s, "station:cpcb", point)
                \/ official = {} /\ TrueOfStation(s, "station", point)
<1>1. CASE official # {}
  BY <1>1, CpcbIsTrue DEF StationSignals
<1>2. CASE official = {}
  BY <1>2, OpenAqIsTrue DEF StationSignals, OpenAqSignals
<1> QED
  BY <1>1, <1>2

\* What a step of a pass collects, and what it goes on watching.
Collects(point, new, failed, w) ==
    /\ pass.next \in 1 .. Len(pass.targets) /\ point = pass.targets[pass.next] /\ point \in Int
    /\ pass' = [pass EXCEPT !.next = @ + 1, !.batch = Joined(@, new), !.failed = failed, !.watch = w]
    /\ IsFiniteSet(new) /\ new \subseteq Observable /\ failed \in BOOLEAN
    /\ \A s \in new : Happened(s) /\ (s.id[1] = "station" => s.id[2] \in gap')
    /\ gap \subseteq gap'
    /\ w \subseteq pass.watch
    /\ \A f \in w : f \in FirmsNear(point) => \E s \in new : s.id = FireId(f)
    /\ cpcb'.stations \subseteq Feed(Stations)
    /\ UNCHANGED <<today, cases, air, fires, over, stored, covered>>

\* More stations make a longer feed.
LEMMA FeedGrows == ASSUME NEW listed \in SUBSET Stations PROVE Feed(listed) \subseteq Feed(Stations)
BY FeedIs

\* The answer of CPCB is of its feed.
LEMMA AnswersAreOfTheFeed ==
    ASSUME cpcb.stations \subseteq Feed(Stations), NEW answer \in CpcbAnswers
    PROVE  answer.stations \subseteq Feed(Stations)
<1>1. NoFeed.stations \subseteq Feed(Stations)
  BY DEF NoFeed
<1> QED
  BY <1>1, FeedGrows DEF CpcbAnswers

\* A place scanned adds true signals to the batch, and keeps watching the
\* fires it is not crowded out of.
LEMMA ScanPointCollects ==
    ASSUME ObservedTypes, Backed, ScanPoint
    PROVE  \E point, new, failed, w : Collects(point, new, failed, w)
<1>1. /\ pass.at = "scanning" /\ pass.next <= Len(pass.targets)
      /\ UNCHANGED <<today, events, cases, world, stored, covered>>
  BY DEF ScanPoint
<1> DEFINE point == pass.targets[pass.next]
           Official(answer) == {s \in answer.stations : Distance(s.place, point) <= ScanRadius}
           Detected(firms) == IF firms THEN {SignalFromDetection(d) : d \in Detections(point)} ELSE {}
           Measured(openAq, answer) == IF openAq THEN StationSignals(Official(answer), point) ELSE {}
           Fails(firms, answer, openAq) == Failed(firms, answer.fresh, Official(answer) = {}, openAq)
           crowded == {f \in fires : Crowded(f, point)}
<1> DEFINE Answered(firms, answer, openAq) ==
        /\ pass' = [pass EXCEPT !.next = @ + 1,
                                !.batch = Joined(@, Detected(firms) \cup Measured(openAq, answer)),
                                !.failed = @ \/ Fails(firms, answer, openAq),
                                !.watch = IF Fails(firms, answer, openAq) THEN {} ELSE @ \ crowded]
        /\ cpcb' = IF answer.fresh THEN answer ELSE cpcb
        /\ gap' = gap \cup {s \in Stations : /\ Distance(StationPlace[s], point) <= ScanRadius
                                              /\ ~\E o \in Official(answer) : o.id = s}
<1>0. PICK firms \in BOOLEAN, answer \in CpcbAnswers :
        \E openAq \in (IF Official(answer) = {} THEN BOOLEAN ELSE {TRUE}) : Answered(firms, answer, openAq)
  BY DEF ScanPoint
<1>2. PICK openAq \in (IF Official(answer) = {} THEN BOOLEAN ELSE {TRUE}) : Answered(firms, answer, openAq)
  BY <1>0
<1> DEFINE official == Official(answer)
           detected == Detected(firms)
           measured == Measured(openAq, answer)
           new == detected \cup measured
           failed == Fails(firms, answer, openAq)
           w == IF failed THEN {} ELSE pass.watch \ crowded
<1>3. pass \in PassShape /\ pass.next \in 1 .. Len(pass.targets) /\ point \in Int
  BY <1>1 DEF ObservedTypes, PassShape
<1>4. official \subseteq Feed(Stations) /\ answer.stations \subseteq Feed(Stations)
  <2>1. answer.stations \subseteq Feed(Stations)
    BY AnswersAreOfTheFeed DEF ObservedTypes
  <2> QED
    BY <2>1
<1>5. /\ IsFiniteSet(detected) /\ detected \subseteq Observable
      /\ \A s \in detected : Happened(s) /\ s.id[1] = "viirs"
  <2>1. CASE firms
    BY <1>3, <2>1, DetectedAre DEF ObservedTypes
  <2>2. CASE ~firms
    BY <2>2, FS_EmptySet
  <2> QED
    BY <2>1, <2>2
<1>6. Measuring
  BY DEF ObservedTypes, Backed, Measuring
<1>7. /\ IsFiniteSet(measured)
      /\ \A s \in measured : \/ TrueOfStation(s, "station:cpcb", point)
                             \/ official = {} /\ TrueOfStation(s, "station", point)
  <2>1. CASE openAq
    <3>1. \A s \in official : Distance(s.place, point) <= ScanRadius
      OBVIOUS
    <3>2. measured = StationSignals(official, point)
      BY <2>1
    <3> HIDE DEF official, point, measured
    <3> QED
      BY <1>3, <1>4, <1>6, <3>1, <3>2, MeasuredAreTrue
  <2>2. CASE ~openAq
    BY <2>2, FS_EmptySet
  <2> QED
    BY <2>1, <2>2
<1>8. IsFiniteSet(new)
  <2> HIDE DEF detected, measured
  <2> QED
    BY <1>5, <1>7, FS_Union
<1>9. ASSUME NEW s \in measured
      PROVE  s \in Observable /\ Happened(s) /\ (s.id[1] = "station" => s.id[2] \in gap')
  <2>1. CASE TrueOfStation(s, "station:cpcb", point)
    BY <2>1 DEF TrueOfStation, StationId, Observable
  <2>2. CASE official = {} /\ TrueOfStation(s, "station", point)
    <3>1. PICK st \in Stations : s.id = StationId("station", st) /\ Distance(StationPlace[st], point) <= ScanRadius
      BY <2>2 DEF TrueOfStation
    <3>2. st \in gap'
      BY <1>2, <2>2, <3>1
    <3>3. s.id[2] = st
      BY <3>1 DEF StationId
    <3> QED
      BY <2>2, <3>2, <3>3 DEF TrueOfStation, Observable
  <2> QED
    BY <1>7, <2>1, <2>2
<1>10. ASSUME NEW f \in w, f \in FirmsNear(point)
       PROVE  \E s \in new : s.id = FireId(f)
  <2>1. ~failed /\ f \in pass.watch /\ f \notin crowded
    BY <1>10
  <2>2. firms
    BY <2>1 DEF Failed
  <2>3. f \in fires
    BY <1>3, <1>10, FiresNear DEF ObservedTypes
  <2>4. ~Crowded(f, point)
    BY <2>1, <2>3
  <2>5. PICK s \in {SignalFromDetection(d) : d \in Detections(point)} : s.id = FireId(f)
    BY <1>3, <1>10, <2>4, DetectedAre DEF ObservedTypes
  <2>6. s \in new
    BY <2>2, <2>5
  <2> QED
    BY <2>5, <2>6
<1>11. \A s \in new : Happened(s) /\ (s.id[1] = "station" => s.id[2] \in gap')
  <2> HIDE DEF measured, detected
  <2> QED
    BY <1>5, <1>9
<1>12. new \subseteq Observable
  <2> HIDE DEF measured, detected
  <2> QED
    BY <1>5, <1>9
<1>13. gap \subseteq gap'
  BY <1>2
<1>14. cpcb'.stations \subseteq Feed(Stations)
  BY <1>2, <1>4 DEF ObservedTypes
<1>15. UNCHANGED <<today, cases, air, fires, over, stored, covered>>
  BY <1>1 DEF world
<1>16. w \subseteq pass.watch
  OBVIOUS
<1>17. failed \in BOOLEAN /\ (pass.failed \/ failed) \in BOOLEAN
  BY DEF Failed
<1>18. pass' = [pass EXCEPT !.next = @ + 1, !.batch = Joined(@, new), !.failed = pass.failed \/ failed, !.watch = w]
  <2> HIDE DEF new, failed, crowded
  <2> QED
    BY <1>2 DEF new, failed
<1> HIDE DEF new, failed, w, point
<1>19. Collects(point, new, pass.failed \/ failed, w)
  BY <1>3, <1>8, <1>10, <1>11, <1>12, <1>13, <1>14, <1>15, <1>16, <1>17, <1>18 DEF Collects, point
<1> QED
  BY <1>19

-----------------------------------------------------------------------------
(* The record of cases.                                                      *)

\* A record with a new case is a record.
LEMMA RecordGrows ==
    ASSUME NEW record, IsRecord(record), NEW case \in CaseShape,
           \A i \in DOMAIN record : record[i].id # case.id
    PROVE  IsRecord(Append(record, case))
<1> DEFINE n == Len(record)
           q == Append(record, case)
<1>1. record \in Seq(CaseShape) /\ n \in Nat /\ DOMAIN record = 1 .. n
  BY DEF IsRecord
<1>2. /\ q \in Seq(CaseShape) /\ DOMAIN q = 1 .. n + 1
      /\ \A i \in 1 .. n : q[i] = record[i]
      /\ q[n + 1] = case
  BY <1>1
<1> HIDE DEF q
<1>3. ASSUME NEW i \in 1 .. n + 1, NEW j \in 1 .. n + 1, q[i].id = q[j].id
      PROVE  i = j
  <2>1. i \in 1 .. n \/ i = n + 1
    BY <1>1
  <2>2. j \in 1 .. n \/ j = n + 1
    BY <1>1
  <2>3. CASE i \in 1 .. n /\ j \in 1 .. n
    BY <1>1, <1>2, <1>3, <2>3 DEF IsRecord
  <2>4. CASE i \in 1 .. n /\ j = n + 1
    BY <1>1, <1>2, <1>3, <2>4
  <2>5. CASE i = n + 1 /\ j \in 1 .. n
    BY <1>1, <1>2, <1>3, <2>5
  <2> QED
    BY <2>1, <2>2, <2>3, <2>4, <2>5
<1> QED
  BY <1>2, <1>3 DEF IsRecord, q

\* A record whose case changes, but not its id, is a record.
LEMMA RecordChanges ==
    ASSUME NEW record, IsRecord(record), NEW i \in DOMAIN record, NEW case \in CaseShape,
           case.id = record[i].id
    PROVE  IsRecord([record EXCEPT ![i] = case])
<1> DEFINE n == Len(record)
           q == [record EXCEPT ![i] = case]
<1>1. record \in Seq(CaseShape) /\ n \in Nat /\ DOMAIN record = 1 .. n
  BY DEF IsRecord
<1>2. q \in Seq(CaseShape) /\ DOMAIN q = 1 .. n /\ \A j \in 1 .. n : q[j].id = record[j].id
  BY <1>1
<1> HIDE DEF q
<1>3. \A j, k \in 1 .. n : q[j].id = q[k].id => j = k
  BY <1>1, <1>2 DEF IsRecord
<1> QED
  BY <1>2, <1>3 DEF IsRecord, q

\* Every change of a case's record.
CaseStep ==
    \/ \E id \in CaseIds, place \in CasePlaces : Report(id, place)
    \/ \E i \in DOMAIN cases : Classify(i) \/ Fail(i) \/ Withdraw(i)

\* A case without a photo has an evidence of that kind.
LEMMA NoEvidenceIsEvidence == NoEvidence \in EvidenceShape
BY DEF NoEvidence, EvidenceShape

\* A step of the cases keeps the record a record.
LEMMA CaseStepRecord ==
    ASSUME IsRecord(cases), today \in Nat, CaseStep
    PROVE  IsRecord(cases')
             /\ UNCHANGED <<today, air, fires, over, stored, pass, cpcb, gap, covered>>
<1>1. ASSUME NEW id \in CaseIds, NEW place \in CasePlaces, Report(id, place)
      PROVE  IsRecord(cases')
  <2> DEFINE case == [id |-> id, place |-> place, at |-> today, contact |-> Contact[id],
                      status |-> "draft", evidence |-> NoEvidence]
  <2>1. CaseIds \subseteq STRING /\ Contact \in [CaseIds -> STRING] /\ CasePlaces \cup {SensorPlace} \subseteq Int
    BY ObservationsAssumption, Zenon
  <2>2. case \in CaseShape
    <3>1. id \in STRING /\ place \in Int /\ Contact[id] \in STRING /\ today \in Int
      <4>1. id \in STRING
        BY <2>1
      <4>2. place \in Int
        BY <2>1, Zenon
      <4>3. Contact[id] \in STRING
        BY <2>1, Zenon
      <4>4. today \in Int
        OBVIOUS
      <4> QED
        BY <4>1, <4>2, <4>3, <4>4
    <3> QED
      BY <3>1, NoEvidenceIsEvidence DEF CaseShape, CaseStatuses
  <2>3. case.id = id /\ \A i \in DOMAIN cases : cases[i].id # id
    BY <1>1 DEF Report
  <2>4. cases' = Append(cases, case)
    BY <1>1 DEF Report
  <2> HIDE DEF case
  <2> QED
    BY <2>2, <2>3, <2>4, RecordGrows
<1>2. ASSUME NEW i \in DOMAIN cases, Classify(i) \/ Fail(i) \/ Withdraw(i)
      PROVE  IsRecord(cases')
  <2>1. cases[i] \in CaseShape /\ cases \in Seq(CaseShape)
    BY DEF IsRecord
  <2>2. CASE Classify(i)
    <3>1. PICK e \in Evidence : cases' = [cases EXCEPT ![i].evidence = e,
                                                       ![i].status = IF e.confidence < Floor THEN "rejected" ELSE @]
      BY <2>2 DEF Classify
    <3> DEFINE case == [cases[i] EXCEPT !.evidence = e,
                                        !.status = IF e.confidence < Floor THEN "rejected" ELSE @]
    <3>2. e \in EvidenceShape
      BY ObservationsAssumption
    <3>3. case \in CaseShape /\ case.id = cases[i].id
      BY <2>1, <3>2 DEF CaseShape, CaseStatuses
    <3>4. cases' = [cases EXCEPT ![i] = case]
      BY <2>1, <3>1
    <3> HIDE DEF case
    <3> QED
      BY <3>3, <3>4, RecordChanges
  <2>3. ASSUME NEW status \in CaseStatuses, cases' = [cases EXCEPT ![i].status = status]
        PROVE  IsRecord(cases')
    <3> DEFINE case == [cases[i] EXCEPT !.status = status]
    <3>1. case \in CaseShape /\ case.id = cases[i].id
      BY <2>1 DEF CaseShape
    <3>2. cases' = [cases EXCEPT ![i] = case]
      BY <2>1, <2>3
    <3> HIDE DEF case
    <3> QED
      BY <3>1, <3>2, RecordChanges
  <2>4. CASE Fail(i)
    BY <2>3, <2>4 DEF Fail, CaseStatuses
  <2>5. CASE Withdraw(i)
    BY <2>3, <2>5 DEF Withdraw, CaseStatuses
  <2> QED
    BY <1>2, <2>2, <2>4, <2>5
<1>3. IsRecord(cases')
  BY <1>1, <1>2 DEF CaseStep
<1>4. UNCHANGED <<today, air, fires, over, stored, pass, cpcb, gap, covered>>
  BY DEF CaseStep, Report, Classify, Fail, Withdraw, world, history
<1> QED
  BY <1>3, <1>4

-----------------------------------------------------------------------------
(* Steps.                                                                    *)

\* What a sensor's reading stores.
Reads(s) ==
    /\ s \in OfSensor
    /\ stored' = stored \cup Unseen({s})
    /\ UNCHANGED <<today, cases, air, fires, over, pass, cpcb, gap, covered>>

\* A report of the sensor reads like that.
LEMMA SensorReads ==
    ASSUME today \in Nat, NEW r \in SensorReadings, NEW at \in {AtLeast(today - 1, 0), today},
           SensorReading(r, at)
    PROVE  \E s : Reads(s)
<1> DEFINE m == Exceedance(r.parameter, r.value, r.unit)
           s == FromSensor(r.parameter, at, m)
<1>1. r.value \in Int
  <2>1. SensorReadings \subseteq [parameter : STRING, value : Int, unit : STRING]
    BY ObservationsAssumption, Zenon
  <2> QED
    BY <2>1
<1>2. m \in Int
  BY <1>1, ExceedanceIsANumber
<1>3. r.parameter \in DOMAIN Limit
  BY DEF SensorReading, Exceedance
<1>4. at \in Int
  BY DEF AtLeast
<1>5. s \in OfSensor
  <2> HIDE DEF m
  <2> QED
    BY <1>2, <1>3, <1>4 DEF OfSensor
<1>6. stored' = stored \cup Unseen({s})
  BY DEF SensorReading, FromSensor
<1>7. UNCHANGED <<today, cases, air, fires, over, pass, cpcb, gap, covered>>
  BY DEF SensorReading, world, history
<1> HIDE DEF s
<1> QED
  BY <1>5, <1>6, <1>7 DEF Reads

\* A pass ends, or does not.
LEMMA EmptyPass ==
    NoPass \in PassShape /\ NoPass.batch = {} /\ NoPass.watch = {} /\ IsFiniteSet(NoPass.batch)
      /\ NoFeed.stations = {}
BY FS_EmptySet DEF NoPass, PassShape, NoFeed

-----------------------------------------------------------------------------
(* What a step of the node or of the world does to the invariant.            *)

\* The feed depends on the day and on the air.
LEMMA SameFeed ==
    ASSUME UNCHANGED <<today, air>>
    PROVE  Feed(Stations)' = Feed(Stations)
BY DEF Feed

\* What has happened stays so.
LEMMA SameHappened ==
    ASSUME fires \subseteq fires', over \subseteq over', NEW s, Happened(s)
    PROVE  Happened(s)'
BY DEF Happened

\* A batch joined to the store has the signals of both.
LEMMA JoinedHas ==
    ASSUME NEW batch, NEW new
    PROVE  /\ Joined(batch, new) \subseteq batch \cup new
           /\ new \subseteq Joined(batch, new)
           /\ \A s \in batch : \E t \in Joined(batch, new) : t.id = s.id
BY DEF Joined

\* Unseen leaves out only signals whose id is on record.
LEMMA UnseenHas ==
    ASSUME NEW batch
    PROVE  /\ Unseen(batch) \subseteq batch
           /\ \A s \in batch : \E t \in stored \cup Unseen(batch) : t.id = s.id
BY DEF Unseen

\* A step that leaves the signals, the pass and what is answered for as they are.
LEMMA SameSignals ==
    ASSUME ObservationsInv, UNCHANGED <<today, air, fires, over, stored, pass, cpcb, gap, covered>>,
           IsRecord(cases')
    PROVE  ObservationsInv'
<1>1. ObservedTypes'
  BY SameFeed DEF ObservationsInv, ObservedTypes
<1>2. Backed'
  BY DEF ObservationsInv, Backed, Above, Happened
<1>3. Gapped'
  BY DEF ObservationsInv, Gapped
<1>4. WatchedAreSeen'
  BY DEF ObservationsInv, WatchedAreSeen, Seen, BurnsYet
<1>5. CoveredAreStored'
  BY DEF ObservationsInv, CoveredAreStored
<1> QED
  BY <1>1, <1>2, <1>3, <1>4, <1>5 DEF ObservationsInv

\* A report of the sensor keeps the invariant.
LEMMA ReadsStep ==
    ASSUME ObservationsInv, NEW s, Reads(s)
    PROVE  ObservationsInv'
<1>1. /\ stored' \subseteq stored \cup {s} /\ stored \subseteq stored'
      /\ UNCHANGED <<today, cases, air, fires, over, pass, cpcb, gap, covered>>
  BY UnseenHas DEF Reads
<1>2. s \in Observable /\ s.source = "citizen_sensor" /\ s.id[1] = "sensor"
  BY DEF Reads, Observable, OfSensor, FromSensor, Signal
<1>3. ObservedTypes'
  <2>1. IsFiniteSet(stored')
    <3>1. IsFiniteSet(stored \cup {s}) /\ stored' \in SUBSET (stored \cup {s})
      BY <1>1, FS_AddElement DEF ObservationsInv, ObservedTypes
    <3> QED
      BY <3>1, FS_Subset
  <2> QED
    BY <1>1, <1>2, <2>1, SameFeed DEF ObservationsInv, ObservedTypes
<1>4. Backed'
  BY <1>1, <1>2 DEF ObservationsInv, Backed, Above, Happened, Independent
<1>5. Gapped'
  BY <1>1, <1>2 DEF ObservationsInv, Gapped
<1>6. WatchedAreSeen'
  BY <1>1 DEF ObservationsInv, WatchedAreSeen, Seen, BurnsYet
<1>7. CoveredAreStored'
  BY <1>1 DEF ObservationsInv, CoveredAreStored
<1> QED
  BY <1>3, <1>4, <1>5, <1>6, <1>7 DEF ObservationsInv

\* Every fire near a case is near a target.
LEMMA WatchedIsInReach ==
    ASSUME ObservedTypes, NEW f \in Watched
    PROVE  \E j \in 1 .. Len(ScanTargets) : Distance(f.place, ScanTargets[j]) <= ScanRadius
<1>1. PICK i \in DOMAIN cases : f \in fires /\ 2 * Distance(f.place, cases[i].place) <= ScanRadius
  BY DEF Watched
<1>2. ScanTargets \in Seq(Int) /\ Kept(ScanTargets, cases[i].place)
  BY TargetsAreNearCases DEF ObservedTypes
<1>3. PICK j \in 1 .. Len(ScanTargets) :
        ScanTargets[j] = cases[i].place \/ Near(cases[i].place, ScanTargets[j])
  BY <1>2 DEF Kept
<1>4. f.place \in Int /\ ScanTargets[j] \in Int /\ ScanRadius \in Nat
  <2>1. f.place \in Int
    BY <1>1 DEF ObservedTypes, FireShape
  <2>2. ScanTargets[j] \in Int
    BY <1>2
  <2>3. {MaxDay, MaxEvents, ScanRadius, ScanDays, OpenAqRadius, FirmsTop, Retention} \subseteq Nat
    BY ObservationsAssumption, Zenon
  <2> QED
    BY <2>1, <2>2, <2>3
<1>5. cases[i].place \in Int
  <2>1. cases[i] \in CaseShape
    BY <1>1 DEF ObservedTypes, IsRecord
  <2> QED
    BY <2>1 DEF CaseShape
<1>6. Distance(f.place, ScanTargets[j]) <= ScanRadius
  <2> DEFINE p == f.place
             c == cases[i].place
             t == ScanTargets[j]
  <2>1. p \in Int /\ c \in Int /\ t \in Int /\ ScanRadius \in Nat
    BY <1>4, <1>5
  <2>2. 2 * Distance(p, c) <= ScanRadius /\ (t = c \/ 2 * Distance(c, t) < ScanRadius)
    BY <1>1, <1>3 DEF Near
  <2> HIDE DEF p, c, t
  <2>3. Distance(p, t) <= ScanRadius
    BY <2>1, <2>2 DEF Distance
  <2> QED
    BY <2>3 DEF p, t
<1> QED
  BY <1>6

\* So does the start of a pass.
LEMMA StartPassStep ==
    ASSUME ObservationsInv, StartPass
    PROVE  ObservationsInv'
<1>1. /\ pass' = [NoPass EXCEPT !.at = "scanning", !.targets = ScanTargets, !.watch = Watched]
      /\ UNCHANGED <<today, cases, air, fires, over, stored, cpcb, gap, covered>>
  BY DEF StartPass, world, history
<1>2. /\ pass'.targets = ScanTargets /\ pass'.next = 1 /\ pass'.batch = {} /\ pass'.watch = Watched
      /\ pass'.at = "scanning" /\ pass'.failed = FALSE
      /\ pass' = [at |-> "scanning", targets |-> ScanTargets, next |-> 1, batch |-> {},
                  failed |-> FALSE, watch |-> Watched]
  BY <1>1 DEF NoPass
<1>3. ScanTargets \in Seq(Int) /\ Watched \subseteq fires
  BY TargetsAreNearCases DEF ObservationsInv, ObservedTypes, Watched
<1>4. ObservedTypes'
  <2>1. pass' \in PassShape
    BY <1>2, <1>3 DEF PassShape, ObservationsInv, ObservedTypes
  <2> QED
    BY <1>1, <1>2, <2>1, SameFeed, FS_EmptySet DEF ObservationsInv, ObservedTypes
<1>5. Backed'
  BY <1>1, <1>2 DEF ObservationsInv, Backed, Above, Happened
<1>6. Gapped'
  BY <1>1, <1>2 DEF ObservationsInv, Gapped
<1>7. WatchedAreSeen'
  <2>1. ASSUME NEW f \in Watched
        PROVE  Seen(f)'
    <3>1. PICK j \in 1 .. Len(ScanTargets) : Distance(f.place, ScanTargets[j]) <= ScanRadius
      BY WatchedIsInReach DEF ObservationsInv
    <3>2. ~(j < 1)
      OBVIOUS
    <3>3. f \in fires'
      BY <1>1, <1>3
    <3> QED
      BY <1>2, <3>1, <3>2, <3>3 DEF Seen
  <2> QED
    BY <1>2, <2>1 DEF WatchedAreSeen
<1>8. CoveredAreStored'
  BY <1>1 DEF ObservationsInv, CoveredAreStored
<1> QED
  BY <1>4, <1>5, <1>6, <1>7, <1>8 DEF ObservationsInv

\* So does a place scanned.
LEMMA CollectsStep ==
    ASSUME ObservationsInv, NEW point, NEW new, NEW failed, NEW w, Collects(point, new, failed, w)
    PROVE  ObservationsInv'
<1>1. UNCHANGED <<today, cases, air, fires, over, stored, covered>>
  BY DEF Collects
<1>2. /\ pass \in PassShape
      /\ pass' \in PassShape
      /\ pass'.next = pass.next + 1 /\ pass'.targets = pass.targets
      /\ pass'.batch = Joined(pass.batch, new) /\ pass'.watch = w
  <2>1. pass \in PassShape
    BY DEF ObservationsInv, ObservedTypes
  <2>2. Joined(pass.batch, new) \in SUBSET Observable
    BY <2>1, JoinedHas DEF Collects, PassShape
  <2>3. w \in SUBSET FireShape /\ failed \in BOOLEAN
    BY <2>1 DEF Collects, PassShape
  <2>4. pass.next + 1 \in Nat \ {0}
    BY <2>1 DEF PassShape
  <2> QED
    BY <2>1, <2>2, <2>3, <2>4 DEF Collects, PassShape
<1>3. ObservedTypes'
  <2>1. IsFiniteSet(pass'.batch)
    <3>1. IsFiniteSet(pass.batch) /\ IsFiniteSet(new)
      BY DEF ObservationsInv, ObservedTypes, Collects
    <3>2. IsFiniteSet(pass.batch \cup new) /\ pass'.batch \in SUBSET (pass.batch \cup new)
      BY <1>2, <3>1, FS_Union, JoinedHas
    <3> QED
      BY <3>2, FS_Subset
  <2>2. cpcb'.stations \subseteq Feed(Stations)'
    BY <1>1, SameFeed DEF Collects
  <2> QED
    BY <1>1, <1>2, <2>1, <2>2 DEF ObservationsInv, ObservedTypes
<1>4. Backed'
  <2>1. ASSUME NEW s \in stored \cup pass.batch \cup new, s.source \in Independent, s.at >= today - Retention
        PROVE  Happened(s)
    BY <2>1 DEF ObservationsInv, Backed, Collects
  <2>2. stored' \cup pass'.batch \subseteq stored \cup pass.batch \cup new
    BY <1>1, <1>2, JoinedHas
  <2> QED
    BY <1>1, <2>1, <2>2 DEF ObservationsInv, Backed, Above, Happened
<1>5. Gapped'
  <2>1. stored' \cup pass'.batch \subseteq stored \cup pass.batch \cup new
    BY <1>1, <1>2, JoinedHas
  <2> QED
    BY <2>1 DEF ObservationsInv, Gapped, Collects
<1>6. WatchedAreSeen'
  <2>1. ASSUME NEW f \in w
        PROVE  Seen(f)'
    <3>1. Seen(f) /\ f \in pass.watch
      BY DEF ObservationsInv, WatchedAreSeen, Collects
    <3>2. BurnsYet(f)' = BurnsYet(f) /\ fires' = fires
      BY <1>1 DEF BurnsYet
    <3>3. PICK i \in 1 .. Len(pass.targets) :
            /\ Distance(f.place, pass.targets[i]) <= ScanRadius
            /\ i < pass.next /\ BurnsYet(f) => \E s \in pass.batch : s.id = FireId(f)
      BY <3>1 DEF Seen
    <3>4. ASSUME i < pass.next + 1, BurnsYet(f)
          PROVE  \E s \in pass'.batch : s.id = FireId(f)
      <4>1. pass.next \in Int /\ i \in Int
        BY <1>2 DEF PassShape
      <4>2. CASE i < pass.next
        BY <1>2, <3>3, <3>4, <4>2, JoinedHas
      <4>3. CASE i = pass.next
        <5>1. f \in FirmsNear(point)
          BY <3>1, <3>3, <3>4, <4>3 DEF Seen, FirmsNear, FirmsWindow, BurnsYet, Collects
        <5> QED
          BY <1>2, <5>1, JoinedHas DEF Collects
      <4> QED
        BY <3>4, <4>1, <4>2, <4>3
    <3> QED
      BY <1>2, <3>1, <3>2, <3>3, <3>4 DEF Seen
  <2> QED
    BY <1>2, <2>1 DEF WatchedAreSeen
<1>7. CoveredAreStored'
  BY <1>1 DEF ObservationsInv, CoveredAreStored
<1> QED
  BY <1>3, <1>4, <1>5, <1>6, <1>7 DEF ObservationsInv

\* So does the save of a pass: what was in the batch is then in the store.
LEMMA SavePassStep ==
    ASSUME ObservationsInv, SavePass
    PROVE  ObservationsInv'
<1>1. /\ stored' = stored \cup Unseen(pass.batch) /\ pass' = NoPass /\ cpcb' = NoFeed
      /\ covered' = covered \cup (pass.watch \cap FirmsWindow) /\ pass.next > Len(pass.targets)
      /\ UNCHANGED <<today, cases, air, fires, over, gap>>
  BY DEF SavePass, world
<1>2. stored' \cup pass'.batch \subseteq stored \cup pass.batch /\ stored \subseteq stored'
  BY <1>1, EmptyPass, UnseenHas
<1>3. ObservedTypes'
  <2>1. IsFiniteSet(stored') /\ stored' \subseteq Observable
    <3>1. stored' \in SUBSET (stored \cup pass.batch)
      BY <1>2
    <3>2. IsFiniteSet(stored \cup pass.batch)
      BY FS_Union DEF ObservationsInv, ObservedTypes
    <3>3. stored \cup pass.batch \subseteq Observable
      BY DEF ObservationsInv, ObservedTypes, PassShape
    <3> QED
      BY <3>1, <3>2, <3>3, FS_Subset
  <2> QED
    BY <1>1, <2>1, EmptyPass DEF ObservationsInv, ObservedTypes
<1>4. Backed'
  BY <1>1, <1>2 DEF ObservationsInv, Backed, Above, Happened
<1>5. Gapped'
  BY <1>1, <1>2 DEF ObservationsInv, Gapped
<1>6. WatchedAreSeen'
  BY <1>1, EmptyPass DEF WatchedAreSeen
<1>7. CoveredAreStored'
  <2>1. ASSUME NEW f \in pass.watch \cap FirmsWindow
        PROVE  f \in FireShape /\ \E s \in stored' : s.id = FireId(f)
    <3>1. Seen(f) /\ BurnsYet(f) /\ f \in fires
      BY DEF ObservationsInv, WatchedAreSeen, FirmsWindow, BurnsYet
    <3>2. PICK i \in 1 .. Len(pass.targets) :
            i < pass.next /\ BurnsYet(f) => \E s \in pass.batch : s.id = FireId(f)
      BY <3>1 DEF Seen
    <3>3. i < pass.next
      BY <1>1 DEF ObservationsInv, ObservedTypes, PassShape
    <3>4. PICK s \in pass.batch : s.id = FireId(f)
      BY <3>1, <3>2, <3>3
    <3> QED
      BY <1>1, <3>1, <3>4, UnseenHas DEF ObservationsInv, ObservedTypes
  <2> QED
    BY <1>1, <1>2, <2>1 DEF ObservationsInv, CoveredAreStored
<1> QED
  BY <1>3, <1>4, <1>5, <1>6, <1>7 DEF ObservationsInv

\* So does a restart, which loses the pass and its batch.
LEMMA NodeRestartStep ==
    ASSUME ObservationsInv, NodeRestart
    PROVE  ObservationsInv'
<1>1. /\ pass' = NoPass /\ cpcb' = NoFeed
      /\ UNCHANGED <<today, cases, air, fires, over, stored, gap, covered>>
  BY DEF NodeRestart, world, history
<1>2. ObservedTypes'
  BY <1>1, EmptyPass DEF ObservationsInv, ObservedTypes
<1>3. Backed'
  BY <1>1, EmptyPass DEF ObservationsInv, Backed, Above, Happened
<1>4. Gapped'
  BY <1>1, EmptyPass DEF ObservationsInv, Gapped
<1>5. WatchedAreSeen'
  BY <1>1, EmptyPass DEF WatchedAreSeen
<1>6. CoveredAreStored'
  BY <1>1 DEF ObservationsInv, CoveredAreStored
<1> QED
  BY <1>2, <1>3, <1>4, <1>5, <1>6 DEF ObservationsInv

\* So does a new fire, which no pass has answered for.
LEMMA BurnStep ==
    ASSUME ObservationsInv, NEW kind \in FireKinds, Burn(kind)
    PROVE  ObservationsInv'
<1> DEFINE f0 == [place |-> kind.place, at |-> today, confidence |-> kind.confidence, power |-> kind.power]
<1>1. /\ fires' = fires \cup {f0}
      /\ UNCHANGED <<today, cases, air, over, stored, pass, cpcb, gap, covered>>
  BY DEF Burn, history
<1>2. ObservedTypes'
  <2>1. f0 \in FireShape
    <3>1. FireKinds \subseteq [place : Int, confidence : STRING, power : Int]
      BY ObservationsAssumption, Zenon
    <3> QED
      BY <3>1 DEF FireShape, ObservationsInv, ObservedTypes
  <2> HIDE DEF f0
  <2>2. IsFiniteSet(fires') /\ fires' \subseteq FireShape
    BY <1>1, <2>1, FS_AddElement DEF ObservationsInv, ObservedTypes
  <2> QED
    BY <1>1, <2>2, SameFeed DEF ObservationsInv, ObservedTypes
<1> HIDE DEF f0
<1>3. Backed'
  <2>1. \A s : Happened(s) => Happened(s)'
    BY <1>1, SameHappened
  <2> QED
    BY <1>1, <2>1 DEF ObservationsInv, Backed, Above
<1>4. Gapped'
  BY <1>1 DEF ObservationsInv, Gapped
<1>5. WatchedAreSeen'
  BY <1>1 DEF ObservationsInv, WatchedAreSeen, Seen, BurnsYet
<1>6. CoveredAreStored'
  BY <1>1 DEF ObservationsInv, CoveredAreStored
<1> QED
  BY <1>2, <1>3, <1>4, <1>5, <1>6 DEF ObservationsInv

\* So does the next day, when fires leave the window.
LEMMA NextDayStep ==
    ASSUME ObservationsInv, NextDay
    PROVE  ObservationsInv'
<1>1. /\ today' = today + 1 /\ air' \in [Stations -> Airs]
      /\ over' = {o \in over : o[2] >= today + 1 - Retention}
                   \cup {<<s, today + 1>> : s \in {t \in Stations : air'[t] >= Limit[Parameter]}}
      /\ fires' = {f \in fires : f.at >= today + 1 - AtLeast(Retention, ScanDays)}
      /\ cpcb' = NoFeed
      /\ covered' \subseteq covered
      /\ UNCHANGED <<cases, stored, pass, gap>>
  BY DEF NextDay
<1>2. today \in Nat /\ Retention \in Nat /\ ScanDays \in Nat
  BY ObservationsAssumption DEF ObservationsInv, ObservedTypes
<1>3. ObservedTypes'
  <2>1. air' \in [Stations -> Nat]
    <3>1. Airs \subseteq Nat
      BY ObservationsAssumption, Zenon
    <3> QED
      BY <1>1, <3>1
  <2>2. fires' \in SUBSET fires
    BY <1>1
  <2>3. IsFiniteSet(fires') /\ fires' \subseteq FireShape
    BY <2>2, FS_Subset DEF ObservationsInv, ObservedTypes
  <2>4. today' \in Nat
    BY <1>1, <1>2
  <2> QED
    BY <1>1, <2>1, <2>3, <2>4, EmptyPass DEF ObservationsInv, ObservedTypes
<1>4. ASSUME NEW f \in fires, f.at >= today + 1 - Retention \/ BurnsYet(f)'
      PROVE  f \in fires'
  <2>1. f.at \in Int
    BY DEF ObservationsInv, ObservedTypes, FireShape
  <2>2. f.at >= today + 1 - AtLeast(Retention, ScanDays)
    BY <1>1, <1>2, <1>4, <2>1 DEF AtLeast, BurnsYet
  <2> QED
    BY <1>1, <2>2
<1>5. Backed'
  <2>1. Above(air)' \subseteq over'
    BY <1>1 DEF Above
  <2>2. ASSUME NEW s \in stored \cup pass.batch, s.source \in Independent, s.at >= today + 1 - Retention
        PROVE  Happened(s)'
    <3>1. s.at \in Int
      BY ObservableSays DEF ObservationsInv, ObservedTypes, PassShape
    <3>2. Happened(s)
      BY <1>2, <2>2, <3>1 DEF ObservationsInv, Backed
    <3>3. CASE s.source = "satellite" /\ \E f \in fires : f.place = s.place /\ f.at = s.at
      BY <1>4, <2>2, <3>3 DEF Happened
    <3>4. CASE s.source = "ground_station" /\ <<s.id[2], s.at>> \in over
      BY <1>1, <2>2, <3>4 DEF Happened
    <3> QED
      BY <3>2, <3>3, <3>4 DEF Happened
  <2>3. stored' \cup pass'.batch = stored \cup pass.batch /\ today' - Retention = today + 1 - Retention
    <3>1. stored' = stored /\ pass' = pass /\ today' = today + 1
      BY <1>1
    <3>2. stored' \cup pass'.batch = stored \cup pass.batch
      BY <3>1, Zenon
    <3>3. today' - Retention = today + 1 - Retention
      BY <1>2, <3>1
    <3> QED
      BY <3>2, <3>3
  <2>4. \A s \in stored' \cup pass'.batch :
          s.source \in Independent /\ s.at >= today' - Retention => Happened(s)'
    BY <2>2, <2>3
  <2> QED
    BY <2>1, <2>4 DEF Backed
<1>6. Gapped'
  BY <1>1 DEF ObservationsInv, Gapped
<1>7. WatchedAreSeen'
  <2>1. ASSUME NEW f \in pass.watch
        PROVE  Seen(f)'
    <3>1. Seen(f) /\ f.at \in Int
      BY DEF ObservationsInv, WatchedAreSeen, ObservedTypes, PassShape, FireShape
    <3>2. BurnsYet(f)' => BurnsYet(f)
      BY <1>1, <1>2, <3>1 DEF BurnsYet
    <3>3. BurnsYet(f)' => f \in fires'
      BY <1>4, <3>1, <3>2 DEF Seen
    <3> QED
      BY <1>1, <3>1, <3>2, <3>3 DEF Seen
  <2> QED
    BY <1>1, <2>1 DEF WatchedAreSeen
<1>8. CoveredAreStored'
  BY <1>1 DEF ObservationsInv, CoveredAreStored
<1> QED
  BY <1>3, <1>5, <1>6, <1>7, <1>8 DEF ObservationsInv

-----------------------------------------------------------------------------
(* The map, and the theorems.                                                *)

\* The node starts with the invariant.
LEMMA ObservationsBegin ==
    ASSUME ObservationsInit
    PROVE  ObservationsInv
<1>1. /\ today = 0 /\ cases = OnRecord /\ air \in [Stations -> Airs] /\ fires = Burned
      /\ stored = {SignalFromDetection(f) : f \in Burned} /\ pass = NoPass /\ cpcb = NoFeed
      /\ over = Above(air) /\ gap = {} /\ covered = {}
  BY DEF ObservationsInit
<1>2. Burned \subseteq FireShape /\ IsFiniteSet(Burned) /\ Airs \subseteq Nat
  BY ObservationsAssumption, Zenon
<1>3. ASSUME NEW f \in Burned
      PROVE  LET s == SignalFromDetection(f)
             IN s \in Observable /\ s.source = "satellite" /\ s.place = f.place /\ s.at = f.at
                  /\ s.id[1] = "viirs"
  BY <1>2, DetectionSays DEF FireId
<1>4. ObservedTypes
  <2>1. IsRecord(cases)
    <3>1. /\ OnRecord \in Seq(CaseShape)
          /\ \A i, j \in DOMAIN OnRecord : OnRecord[i].id = OnRecord[j].id => i = j
      BY ObservationsAssumption, Zenon
    <3> QED
      BY <1>1, <3>1, Zenon DEF IsRecord
  <2>2. IsFiniteSet(stored)
    <3> DEFINE F == [f \in Burned |-> SignalFromDetection(f)]
    <3>1. stored = {F[f] : f \in Burned}
      BY <1>1
    <3> HIDE DEF F
    <3> QED
      BY <1>2, <3>1, ImageIsFinite
  <2>3. stored \subseteq Observable
    BY <1>1, <1>3
  <2> QED
    BY <1>1, <1>2, <2>1, <2>2, <2>3, EmptyPass DEF ObservedTypes
<1>5. Backed
  <2>1. ASSUME NEW s \in stored
        PROVE  Happened(s)
    BY <1>1, <1>3 DEF Happened
  <2> QED
    BY <1>1, <2>1, EmptyPass DEF Backed
<1>6. Gapped
  BY <1>1, <1>3, EmptyPass DEF Gapped
<1>7. WatchedAreSeen /\ CoveredAreStored
  BY <1>1, EmptyPass DEF WatchedAreSeen, CoveredAreStored
<1> QED
  BY <1>4, <1>5, <1>6, <1>7 DEF ObservationsInv

\* Every step keeps it.
LEMMA ObservationsStep ==
    ASSUME ObservationsInv, [ObservationsNext]_observationVars
    PROVE  ObservationsInv'
<1>1. CASE CaseStep
  <2>1. IsRecord(cases) /\ today \in Nat
    BY DEF ObservationsInv, ObservedTypes
  <2> QED
    BY <1>1, <2>1, CaseStepRecord, SameSignals
<1>2. CASE \E r \in SensorReadings, at \in {AtLeast(today - 1, 0), today} : SensorReading(r, at)
  <2>1. \E s : Reads(s)
    BY <1>2, SensorReads DEF ObservationsInv, ObservedTypes
  <2> QED
    BY <2>1, ReadsStep
<1>3. CASE StartPass
  BY <1>3, StartPassStep
<1>4. CASE ScanPoint
  <2>1. \E point, new, failed, w : Collects(point, new, failed, w)
    BY <1>4, ScanPointCollects DEF ObservationsInv
  <2> QED
    BY <2>1, CollectsStep
<1>5. CASE SavePass
  BY <1>5, SavePassStep
<1>6. CASE NodeRestart
  BY <1>6, NodeRestartStep
<1>7. CASE \E kind \in FireKinds : Burn(kind)
  BY <1>7, BurnStep
<1>8. CASE NextDay
  BY <1>8, NextDayStep
<1>9. CASE UNCHANGED observationVars
  <2>1. UNCHANGED <<today, cases, air, fires, over, stored, pass, cpcb, gap, covered>>
    BY <1>9 DEF observationVars
  <2>2. IsRecord(cases')
    BY <2>1 DEF ObservationsInv, ObservedTypes
  <2> QED
    BY <2>1, <2>2, SameSignals
<1> QED
  BY <1>1, <1>2, <1>3, <1>4, <1>5, <1>6, <1>7, <1>8, <1>9 DEF ObservationsNext, CaseStep

\* What the node holds, and what stands behind it.
THEOREM ObservationsInvariant == ObservationsSpec => []ObservationsInv
<1>1. ObservationsInit => ObservationsInv
  BY ObservationsBegin
<1>2. ObservationsInv /\ [ObservationsNext]_observationVars => ObservationsInv'
  BY ObservationsStep
<1> QED
  BY <1>1, <1>2, PTL DEF ObservationsSpec

\* What the map has, of what is visible.
LEMMA MapHas ==
    ASSUME ObservationsInv
    PROVE  /\ \A h \in Map :
                /\ Lists(h.signals, Members(h))
                /\ Members(h) \subseteq ToSet(Visible)
                /\ \A s \in Members(h) : s.type \in {h.type, "unclear"}
                /\ Members(h) # {}
                /\ h.confidence = Confidence(h.signals, HasIndependent(h.signals))
                /\ h.cases = CasesAmong(h.signals)
           /\ \A h, k \in Map : \A s \in Members(h) : s \in Members(k) => h = k
           /\ MinSignals <= 1 => \A s \in ToSet(Visible) : \E h \in Map : s \in Members(h)
           /\ \A s \in ToSet(Visible) : s.strength \in Int
<1>1. IsRecord(cases) /\ stored \subseteq Observable /\ IsFiniteSet(stored)
  BY DEF ObservationsInv, ObservedTypes
<1>2. /\ Lists(Visible, ToSet(Visible))
      /\ \A s \in ToSet(Visible) : s.place \in Int /\ s.strength \in Int
  BY <1>1, VisibleHas DEF Visible
<1>3. Map = Detect(Visible)
  BY DEF Map
<1> QED
  BY <1>2, <1>3, DetectPartitions

\* Every signal that is visible is on the map once.
THEOREM EverySignalIsOnTheMap ==
    ASSUME MinSignals <= 1
    PROVE  ObservationsSpec => []MapIsAPartition
<1>1. ObservationsInv => MapIsAPartition
  <2> SUFFICES ASSUME ObservationsInv PROVE MapIsAPartition
    OBVIOUS
  <2>1. ASSUME NEW s \in ToSet(Visible)
        PROVE  Cardinality({h \in Map : s \in Members(h)}) = 1
    <3>1. PICK h \in Map : s \in Members(h)
      BY MapHas
    <3>2. {k \in Map : s \in Members(k)} = {h}
      BY <3>1, MapHas
    <3> QED
      BY <3>2, FS_Singleton
  <2>2. ASSUME NEW h \in Map
        PROVE  /\ Cardinality(Members(h)) = Len(h.signals)
               /\ \A s \in Members(h) : s.type \in {h.type, "unclear"} /\ s \in ToSet(Visible)
    BY MapHas, ListsCount
  <2> QED
    BY <2>1, <2>2 DEF MapIsAPartition
<1> QED
  BY <1>1, ObservationsInvariant, PTL

\* One instrument is read as two only after a gap in CPCB's feed.
THEOREM NoInstrumentIsDoubled == ObservationsSpec => []DoubledOnlyAfterGap
<1>1. ObservationsInv => DoubledOnlyAfterGap
  BY DEF ObservationsInv, Gapped, DoubledOnlyAfterGap, Live
<1> QED
  BY <1>1, ObservationsInvariant, PTL

-----------------------------------------------------------------------------
(* Confidence.                                                               *)

\* The greatest of some numbers is one of them.
LEMMA GreatestIsANumber ==
    ASSUME NEW n \in Nat \ {0}, NEW v \in [1 .. n -> Int]
    PROVE  Greatest(v) \in Int
<1> DEFINE P == {k \in 0 .. n : k = 0 \/ \E i \in 1 .. k : \A j \in 1 .. k : v[j] <= v[i]}
<1>1. 0 \in P
  OBVIOUS
<1>2. ASSUME NEW k \in 0 .. n - 1, k \in P
      PROVE  k + 1 \in P
  <2>1. k + 1 \in 0 .. n /\ k + 1 \in 1 .. n /\ \A j \in 1 .. k + 1 : j \in 1 .. k \/ j = k + 1
    OBVIOUS
  <2>2. CASE k = 0
    <3>1. \A j \in 1 .. k + 1 : v[j] <= v[k + 1]
      BY <2>1, <2>2
    <3>2. k + 1 \in 1 .. k + 1
      OBVIOUS
    <3> QED
      BY <2>1, <3>1, <3>2
  <2>3. CASE k # 0
    <3>1. PICK i \in 1 .. k : \A j \in 1 .. k : v[j] <= v[i]
      BY <1>2, <2>3
    <3>2. i \in 1 .. k + 1 /\ k + 1 \in 1 .. k + 1
      OBVIOUS
    <3>3. \A j \in 1 .. n : v[j] \in Int
      OBVIOUS
    <3>4. i \in 1 .. n
      OBVIOUS
    <3>5. CASE v[i] <= v[k + 1]
      <4>1. \A j \in 1 .. k + 1 : v[j] <= v[k + 1]
        BY <2>1, <3>1, <3>3, <3>4, <3>5
      <4> QED
        BY <2>1, <3>2, <4>1
    <3>6. CASE ~(v[i] <= v[k + 1])
      <4>1. \A j \in 1 .. k + 1 : v[j] <= v[i]
        BY <2>1, <3>1, <3>3, <3>4, <3>6
      <4> QED
        BY <2>1, <3>2, <4>1
    <3> QED
      BY <3>5, <3>6
  <2> QED
    BY <2>2, <2>3
<1>3. \A k \in 0 .. n : k \in P
  <2> HIDE DEF P
  <2> QED
    BY <1>1, <1>2, StepByStep, Zenon
<1>4. PICK i \in 1 .. n : \A j \in 1 .. n : v[j] <= v[i]
  <2>1. n \in 0 .. n
    OBVIOUS
  <2>2. n \in P
    <3> HIDE DEF P
    <3> QED
      BY <1>3, <2>1
  <2> QED
    BY <2>2
<1> DEFINE T == {v[j] : j \in DOMAIN v}
<1>5. v[i] \in T /\ \A m \in T : m <= v[i]
  BY <1>4
<1>6. Largest(T) \in T
  <2> HIDE DEF T
  <2> QED
    BY <1>5 DEF Largest
<1>7. T \subseteq Int
  OBVIOUS
<1> QED
  BY <1>6, <1>7 DEF Greatest

\* Without an independent instrument confidence stays below the cap.
LEMMA ConfidenceIsCapped ==
    ASSUME NEW S, NEW signals, Lists(signals, S), S # {}, \A s \in S : s.strength \in Int,
           Confidence(signals, HasIndependent(signals)) > UncorroboratedCap
    PROVE  \E s \in S : s.source \in Independent
<1> DEFINE n == Len(signals)
           v == [i \in DOMAIN signals |-> signals[i].strength]
           strongest == Greatest(v)
           confidence == AtMost(strongest + Agreement(signals), 1000)
<1>1. n \in Nat /\ DOMAIN signals = 1 .. n /\ \A i \in 1 .. n : signals[i] \in S
  BY DEF Lists
<1>2. n # 0
  BY <1>1 DEF Lists
<1>3. strongest \in Int
  <2>1. v \in [1 .. n -> Int] /\ n \in Nat \ {0}
    BY <1>1, <1>2
  <2> HIDE DEF v, n
  <2> QED
    BY <2>1, GreatestIsANumber
<1>4. Agreement(signals) \in Int
  <2> DEFINE sources == {signals[i].source : i \in DOMAIN signals}
             F == [i \in 1 .. n |-> signals[i].source]
  <2>1. sources = {F[i] : i \in 1 .. n}
    BY <1>1
  <2>2. IsFiniteSet(1 .. n)
    BY <1>1, FS_Interval
  <2>3. IsFiniteSet(sources)
    <3> HIDE DEF F, sources
    <3> QED
      BY <2>1, <2>2, ImageIsFinite
  <2>4. Cardinality(sources) \in Nat
    <3> HIDE DEF sources
    <3> QED
      BY <2>3, FS_CardinalityType
  <2>5. Agreement(signals) = AtMost(150 * (Cardinality(sources) - 1), 300)
    BY DEF Agreement
  <2> HIDE DEF sources
  <2> QED
    BY <2>4, <2>5 DEF AtMost
<1>5. confidence \in Int
  <2> HIDE DEF strongest
  <2> QED
    BY <1>3, <1>4 DEF AtMost
<1>6. Confidence(signals, HasIndependent(signals)) =
        IF HasIndependent(signals) THEN confidence ELSE AtMost(confidence, UncorroboratedCap)
  BY DEF Confidence
<1>7. UncorroboratedCap \in Int
  BY HotspotAssumption
<1>8. HasIndependent(signals)
  <2> HIDE DEF confidence
  <2> QED
    BY <1>5, <1>6, <1>7 DEF AtMost
<1> QED
  BY <1>1, <1>8 DEF HasIndependent

\* A place above the cap rests on something an instrument saw, and recently.
THEOREM ConfidenceHasBacking == ObservationsSpec => []ConfidenceIsBacked
<1>1. ObservationsInv => ConfidenceIsBacked
  <2> SUFFICES ASSUME ObservationsInv, NEW h \in Map, h.confidence > UncorroboratedCap
               PROVE  \E s \in Members(h) : s.source \in Independent /\ s.at >= today - Retention /\ Happened(s)
    BY DEF ConfidenceIsBacked
  <2>1. /\ Lists(h.signals, Members(h)) /\ Members(h) # {} /\ Members(h) \subseteq ToSet(Visible)
        /\ \A s \in Members(h) : s.strength \in Int
        /\ h.confidence = Confidence(h.signals, HasIndependent(h.signals))
    BY MapHas
  <2>2. PICK s \in Members(h) : s.source \in Independent
    BY <2>1, ConfidenceIsCapped
  <2>3. IsRecord(cases) /\ stored \subseteq Observable /\ IsFiniteSet(stored)
    BY DEF ObservationsInv, ObservedTypes
  <2>4. s \in ReportSignals(cases) \cup Live
    BY <2>1, <2>3, VisibleHas DEF Visible
  <2>5. s \notin ReportSignals(cases)
    <3>1. ASSUME NEW c \in ToSet(cases), Eligible(c), s = SignalFromCase(c)
          PROVE  FALSE
      <4>1. s.source = "citizen_report"
        BY <2>3, <3>1, RecordLists, ReportSays
      <4> QED
        BY <2>2, <4>1 DEF Independent
    <3> QED
      BY <3>1 DEF ReportSignals
  <2>6. s \in stored /\ s.at >= today - Retention
    BY <2>4, <2>5 DEF Live
  <2>7. Happened(s)
    BY <2>2, <2>6 DEF ObservationsInv, Backed
  <2> QED
    BY <2>2, <2>6, <2>7
<1> QED
  BY <1>1, ObservationsInvariant, PTL

\* A pass that reports no error has told the truth about what burned.
THEOREM CleanPassesAreTrue ==
    ASSUME MinSignals <= 1
    PROVE  ObservationsSpec => []CleanPassShowsFires
<1>1. ObservationsInv => CleanPassShowsFires
  <2> SUFFICES ASSUME ObservationsInv, NEW f \in covered, f.at >= today - Retention
               PROVE  \E s \in UNION {Members(h) : h \in Map} :
                        s.source = "satellite" /\ s.place = f.place /\ s.at = f.at
    BY DEF CleanPassShowsFires
  <2>1. IsRecord(cases) /\ stored \subseteq Observable /\ IsFiniteSet(stored)
    BY DEF ObservationsInv, ObservedTypes
  <2>2. PICK s \in stored : s.id = FireId(f) /\ f \in FireShape
    BY DEF ObservationsInv, CoveredAreStored
  <2>3. s.id[1] = "viirs" /\ s.id[3] = f.at /\ s.id[2] = f.place
    BY <2>2 DEF FireId
  <2>4. s.at = f.at
    <3>1. s.id = <<"viirs", s.place, s.at, 0>>
      BY <2>1, <2>3, ObservableSays
    <3> QED
      BY <2>3, <3>1
  <2>5. PICK t \in ToSet(Visible) : t.id = s.id
    BY <2>1, <2>4, VisibleHas DEF Live, Visible
  <2>6. t \in Observable
    <3>1. CASE t \in ReportSignals(cases)
      <4>1. PICK c \in ToSet(cases) : Eligible(c) /\ t = SignalFromCase(c)
        BY <3>1 DEF ReportSignals
      <4>2. t.id = <<"case", c.id, 0, 0>>
        BY <2>1, <4>1, RecordLists, ReportSays
      <4> QED
        BY <2>3, <2>5, <4>2
    <3>2. CASE t \in Live
      BY <2>1, <3>2 DEF Live
    <3> QED
      BY <2>1, <3>1, <3>2, VisibleHas DEF Visible
  <2>7. t.source = "satellite" /\ t.place = f.place /\ t.at = f.at
    <3>1. t.source = "satellite" /\ t.id = <<"viirs", t.place, t.at, 0>>
      BY <2>3, <2>5, <2>6, ObservableSays
    <3> QED
      BY <2>3, <2>5, <3>1
  <2>8. \E h \in Map : t \in Members(h)
    BY MapHas
  <2> QED
    BY <2>7, <2>8
<1> QED
  BY <1>1, ObservationsInvariant, PTL

-----------------------------------------------------------------------------
(* Clusters.                                                                 *)

\* The step of the types of the cases.
MeetKind(types, c) ==
    IF Contains(types, c.evidence.type) THEN types ELSE Append(types, c.evidence.type)

\* The types of some cases, case by case.
KindRun(g, I, q) ==
    /\ g \in [0 .. Len(q) -> Seq({c.evidence.type : c \in I})]
    /\ g[0] = <<>>
    /\ \A i \in 1 .. Len(q) : g[i] = MeetKind(g[i - 1], q[i])
    /\ CaseTypes(q) = g[Len(q)]

\* The types are collected case by case.
LEMMA KindSteps ==
    ASSUME NEW I, NEW q \in Seq(I)
    PROVE  \E g : KindRun(g, I, q)
<1> DEFINE n == Len(q)
           D == SUBSET (1 .. n)
           step == [i \in 1 .. n |-> [v \in Seq({e.evidence.type : e \in I}) |-> MeetKind(v, q[i])]]
           Fold(f) == [s \in D |-> IF s = {} THEN <<>>
                                   ELSE MeetKind(f[s \ {Max(s)}], q[Max(s)])]
           c == CHOOSE f : f = Fold(f)
<1>0. <<>> \in Seq({e.evidence.type : e \in I})
  OBVIOUS
<1>1. n \in Nat /\ DOMAIN q = 1 .. n
  OBVIOUS
<1>2. ASSUME NEW i \in 1 .. n, NEW v \in Seq({e.evidence.type : e \in I})
      PROVE  MeetKind(v, q[i]) \in Seq({e.evidence.type : e \in I})
  BY <1>1, <1>2 DEF MeetKind
<1>3. step \in [1 .. n -> [Seq({e.evidence.type : e \in I}) -> Seq({e.evidence.type : e \in I})]]
  BY <1>2
<1>4. ASSUME NEW s \in D, s # {}
      PROVE  Max(s) \in 1 .. n /\ s \ {Max(s)} \in D
  BY <1>1, <1>4, MaxOfPart
<1>5. PICK f : FoldOf(f, n, Seq({e.evidence.type : e \in I}), <<>>, step)
  <2> HIDE DEF step, n
  <2> QED
    BY <1>0, <1>1, <1>3, FoldExists, Zenon
<1>6. f = Fold(f)
  <2>1. ASSUME NEW s \in D, s # {}
        PROVE  f[s] = MeetKind(f[s \ {Max(s)}], q[Max(s)])
    BY <1>4, <1>5, <2>1 DEF FoldOf
  <2> QED
    BY <1>5, <2>1 DEF FoldOf
<1>7. c = Fold(c)
  <2> HIDE DEF Fold
  <2> QED
    BY <1>6
<1>8. CaseTypes(q) = c[1 .. n]
  <2>1. CaseTypes(q) = FoldLeft(LAMBDA types, e : MeetKind(types, e), <<>>, q)
    BY DEF CaseTypes, MeetKind
  <2> HIDE DEF n
  <2> QED
    BY <1>1, <2>1, Zenon DEF FoldLeft, MapThenFoldSet
<1> HIDE DEF c
<1>9. FoldIn(c, n, Seq({e.evidence.type : e \in I}), <<>>, step)
  BY <1>4, <1>7 DEF FoldIn
<1> HIDE DEF step, n
<1>10. PICK g : StepsOf(g, n, Seq({e.evidence.type : e \in I}), <<>>, step, c[1 .. n])
  BY <1>0, <1>1, <1>3, <1>9, FoldIsSteps, Zenon
<1>11. ASSUME NEW i \in 1 .. n
       PROVE  g[i] = MeetKind(g[i - 1], q[i])
  <2>1. i - 1 \in 0 .. n
    BY <1>1
  <2>2. step[i][g[i - 1]] = MeetKind(g[i - 1], q[i])
    BY <1>10, <2>1 DEF step, StepsOf
  <2> QED
    BY <1>10, <2>2 DEF StepsOf
<1> QED
  BY <1>8, <1>10, <1>11 DEF n, StepsOf, KindRun

\* The types of some cases are a sequence of types.
LEMMA KindsAreASequence ==
    ASSUME NEW I, NEW q \in Seq(I)
    PROVE  CaseTypes(q) \in Seq({c.evidence.type : c \in I})
<1>1. PICK g : KindRun(g, I, q)
  BY KindSteps, Zenon
<1>2. Len(q) \in 0 .. Len(q)
  OBVIOUS
<1> QED
  BY <1>1, <1>2 DEF KindRun

\* The cases that count.
Counted(q) == Only(q, {c \in ToSet(q) : Counts(c)})
\* Those of a type.
OfKind(q, type) == Only(Counted(q), {c \in ToSet(q) : c.evidence.type = type})
\* Those of a type, linked into groups.
LinkKind(q, type) == Link(OfKind(q, type), ClusterRadius, ClusterWindow)

\* They are a sequence of groups.
LEMMA LinkKindIsASequence ==
    ASSUME NEW I, NEW q \in Seq(I), NEW type
    PROVE  LinkKind(q, type) \in Seq(Seq(I))
<1>1. Counted(q) \in Seq(I)
  BY OnlyIsASequence DEF Counted
<1>2. OfKind(q, type) \in Seq(I)
  BY <1>1, OnlyIsASequence DEF OfKind
<1> QED
  BY <1>2, LinkIsASequence DEF LinkKind

\* The groups of cases, type by type.
CaseGroupRun(g, I, q) ==
    /\ g \in [0 .. Len(CaseTypes(Counted(q))) -> Seq(Seq(I))]
    /\ g[0] = <<>>
    /\ \A i \in 1 .. Len(CaseTypes(Counted(q))) : g[i] = g[i - 1] \o LinkKind(q, CaseTypes(Counted(q))[i])
    /\ CaseGroups(q) = g[Len(CaseTypes(Counted(q)))]

\* The groups are made type by type.
LEMMA CaseGroupSteps ==
    ASSUME NEW I, NEW q \in Seq(I), NEW T, CaseTypes(Counted(q)) \in Seq(T)
    PROVE  \E g : CaseGroupRun(g, I, q)
<1> DEFINE n == Len(CaseTypes(Counted(q)))
           D == SUBSET (1 .. n)
           step == [i \in 1 .. n |-> [v \in Seq(Seq(I)) |-> v \o LinkKind(q, CaseTypes(Counted(q))[i])]]
           Fold(f) == [s \in D |-> IF s = {} THEN <<>>
                                   ELSE f[s \ {Max(s)}] \o LinkKind(q, CaseTypes(Counted(q))[Max(s)])]
           c == CHOOSE f : f = Fold(f)
<1>0. <<>> \in Seq(Seq(I))
  OBVIOUS
<1>1. n \in Nat /\ DOMAIN CaseTypes(Counted(q)) = 1 .. n
  OBVIOUS
<1>2. ASSUME NEW i \in 1 .. n, NEW v \in Seq(Seq(I))
      PROVE  v \o LinkKind(q, CaseTypes(Counted(q))[i]) \in Seq(Seq(I))
  <2>1. LinkKind(q, CaseTypes(Counted(q))[i]) \in Seq(Seq(I))
    BY LinkKindIsASequence
  <2> QED
    BY <2>1, ConcatProperties
<1>3. step \in [1 .. n -> [Seq(Seq(I)) -> Seq(Seq(I))]]
  BY <1>2
<1>4. ASSUME NEW s \in D, s # {}
      PROVE  Max(s) \in 1 .. n /\ s \ {Max(s)} \in D
  BY <1>1, <1>4, MaxOfPart
<1>5. PICK f : FoldOf(f, n, Seq(Seq(I)), <<>>, step)
  <2> HIDE DEF step, n
  <2> QED
    BY <1>0, <1>1, <1>3, FoldExists, Zenon
<1>6. f = Fold(f)
  <2>1. ASSUME NEW s \in D, s # {}
        PROVE  f[s] = f[s \ {Max(s)}] \o LinkKind(q, CaseTypes(Counted(q))[Max(s)])
    BY <1>4, <1>5, <2>1 DEF FoldOf
  <2> QED
    BY <1>5, <2>1 DEF FoldOf
<1>7. c = Fold(c)
  <2> HIDE DEF Fold
  <2> QED
    BY <1>6
<1>8. CaseGroups(q) = c[1 .. n]
  <2>1. CaseGroups(q) = FoldLeft(LAMBDA groups, type : groups \o LinkKind(q, type), <<>>, CaseTypes(Counted(q)))
    BY DEF CaseGroups, Counted, OfKind, LinkKind
  <2> HIDE DEF n
  <2> QED
    BY <1>1, <2>1, Zenon DEF FoldLeft, MapThenFoldSet
<1> HIDE DEF c
<1>9. FoldIn(c, n, Seq(Seq(I)), <<>>, step)
  BY <1>4, <1>7 DEF FoldIn
<1> HIDE DEF step, n
<1>10. PICK g : StepsOf(g, n, Seq(Seq(I)), <<>>, step, c[1 .. n])
  BY <1>0, <1>1, <1>3, <1>9, FoldIsSteps, Zenon
<1>11. ASSUME NEW i \in 1 .. n
       PROVE  g[i] = g[i - 1] \o LinkKind(q, CaseTypes(Counted(q))[i])
  <2>1. i - 1 \in 0 .. n
    BY <1>1
  <2>2. step[i][g[i - 1]] = g[i - 1] \o LinkKind(q, CaseTypes(Counted(q))[i])
    BY <1>10, <2>1 DEF step, StepsOf
  <2> QED
    BY <1>10, <2>2 DEF StepsOf
<1> QED
  BY <1>8, <1>10, <1>11 DEF n, StepsOf, CaseGroupRun

\* A group of two sequences of groups, one after the other, is a group of one
\* of them.
LEMMA EitherConcatenated ==
    ASSUME NEW I, NEW p \in Seq(I), NEW q \in Seq(I)
    PROVE  FromEither(p \o q, p, q)
<1>1. ASSUME NEW g \in 1 .. Len(p \o q)
      PROVE  \/ \E h \in 1 .. Len(p) : (p \o q)[g] = p[h]
             \/ \E h \in 1 .. Len(q) : (p \o q)[g] = q[h]
  <2>1. /\ Len(p) \in Nat /\ Len(q) \in Nat /\ Len(p \o q) = Len(p) + Len(q)
        /\ (p \o q)[g] = IF g <= Len(p) THEN p[g] ELSE q[g - Len(p)]
    OBVIOUS
  <2>2. CASE g <= Len(p)
    <3>1. g \in 1 .. Len(p)
      BY <2>1, <2>2
    <3> QED
      BY <2>1, <2>2, <3>1
  <2>3. CASE ~(g <= Len(p))
    <3>1. g - Len(p) \in 1 .. Len(q)
      BY <2>1, <2>3
    <3> QED
      BY <2>1, <2>3, <3>1
  <2> QED
    BY <2>2, <2>3
<1> QED
  BY <1>1 DEF FromEither

\* A group has cases that count, each once, of one type.
OneKind(group, S) ==
    /\ Lists(group, ToSet(group)) /\ Len(group) >= 1
    /\ ToSet(group) \subseteq S
    /\ \E t : \A c \in ToSet(group) : Counts(c) /\ c.evidence.type = t
\* Every one of some groups is such.
AllOneKind(groups, S) == \A g \in 1 .. Len(groups) : OneKind(groups[g], S)

\* Sequences of such groups, one after the other, are one.
LEMMA OneKindConcatenated ==
    ASSUME NEW S, NEW I, NEW p \in Seq(I), NEW q \in Seq(I), AllOneKind(p, S), AllOneKind(q, S)
    PROVE  AllOneKind(p \o q, S)
<1>1. FromEither(p \o q, p, q)
  BY EitherConcatenated
<1> QED
  BY <1>1 DEF FromEither, AllOneKind

\* What one type gives is such groups.
LEMMA LinkKindIsOneKind ==
    ASSUME NEW S, NEW q, Lists(q, S), \A c \in S : c.place \in Int, NEW type
    PROVE  AllOneKind(LinkKind(q, type), S)
<1> DEFINE C == {c \in ToSet(q) : Counts(c)}
           K == {c \in ToSet(q) : c.evidence.type = type}
<1>1. ToSet(q) = S
  BY ListsItsItems
<1>2. Lists(Counted(q), S \cap C)
  <2> HIDE DEF C
  <2>1. Lists(Only(q, C), S \cap C)
    BY OnlyLists
  <2> QED
    BY <2>1 DEF Counted, C
<1>3. Lists(OfKind(q, type), (S \cap C) \cap K)
  <2> HIDE DEF C, K
  <2>1. Lists(Only(Counted(q), K), (S \cap C) \cap K)
    BY <1>2, OnlyLists
  <2> QED
    BY <2>1 DEF OfKind, K
<1> DEFINE M == (S \cap C) \cap K
           groups == LinkKind(q, type)
<1>4. \A c \in M : c.place \in Int /\ c \in S /\ Counts(c) /\ c.evidence.type = type
  OBVIOUS
<1> HIDE DEF M
<1>5. Grouped(groups, M)
  <2>1. Lists(OfKind(q, type), M)
    BY <1>3 DEF M
  <2> QED
    BY <1>4, <2>1, LinkGroups DEF LinkKind
<1> HIDE DEF groups
<1>6. ASSUME NEW g \in 1 .. Len(groups)
      PROVE  OneKind(groups[g], S)
  <2>1. ToSet(groups[g]) \subseteq M
    BY <1>5, GroupsHold
  <2>2. Lists(groups[g], ToSet(groups[g])) /\ Len(groups[g]) >= 1
    BY <1>5 DEF Grouped
  <2> QED
    BY <1>4, <2>1, <2>2 DEF OneKind
<1> QED
  BY <1>6 DEF AllOneKind, groups

\* So every group of cases is one.
LEMMA CaseGroupsAreOneKind ==
    ASSUME NEW S, NEW q, Lists(q, S), \A c \in S : c.place \in Int
    PROVE  CaseGroups(q) \in Seq(Seq(S)) /\ AllOneKind(CaseGroups(q), S)
<1> DEFINE types == CaseTypes(Counted(q))
           n == Len(types)
           T == {c.evidence.type : c \in S}
<1>1. q \in Seq(S)
  BY DEF Lists
<1>2. types \in Seq(T)
  <2>1. Counted(q) \in Seq(S)
    BY <1>1, OnlyIsASequence DEF Counted
  <2> QED
    BY <2>1, KindsAreASequence
<1> HIDE DEF T
<1>3. n \in Nat
  BY <1>2
<1>4. PICK g : CaseGroupRun(g, S, q)
  BY <1>1, <1>2, CaseGroupSteps, Zenon
<1> DEFINE P == {k \in 0 .. n : AllOneKind(g[k], S)}
<1>5. 0 \in P
  <2>1. AllOneKind(<<>>, S)
    BY DEF AllOneKind
  <2>2. 0 \in 0 .. n
    BY <1>3
  <2> QED
    BY <1>4, <2>1, <2>2 DEF CaseGroupRun
<1>6. ASSUME NEW k \in 0 .. n - 1, k \in P
      PROVE  k + 1 \in P
  <2>1. k + 1 \in 0 .. n /\ k + 1 \in 1 .. n /\ (k + 1) - 1 = k /\ k \in 0 .. n
    BY <1>3
  <2>2. g[k + 1] = g[k] \o LinkKind(q, types[k + 1]) /\ g[k] \in Seq(Seq(S))
    BY <1>4, <2>1 DEF CaseGroupRun
  <2>3. LinkKind(q, types[k + 1]) \in Seq(Seq(S)) /\ AllOneKind(LinkKind(q, types[k + 1]), S)
    BY <1>1, LinkKindIsASequence, LinkKindIsOneKind
  <2>4. AllOneKind(g[k], S)
    BY <1>6
  <2>5. AllOneKind(g[k] \o LinkKind(q, types[k + 1]), S)
    BY <2>2, <2>3, <2>4, OneKindConcatenated
  <2> QED
    BY <2>1, <2>2, <2>5
<1>7. \A k \in 0 .. n : k \in P
  <2> HIDE DEF P, n
  <2> QED
    BY <1>3, <1>5, <1>6, StepByStep, Zenon
<1>8. n \in 0 .. n
  BY <1>3
<1> QED
  BY <1>4, <1>7, <1>8 DEF CaseGroupRun

-----------------------------------------------------------------------------
(* A cluster.                                                                *)

\* The fields of a cluster that the theorem is about.
LEMMA ClusterSays ==
    ASSUME NEW group
    PROVE  LET o == InTimeOrder(group)
               p == Cluster(group)
           IN /\ p.type = o[1].evidence.type
              /\ p.reports = Len(o)
              /\ p.members = [i \in DOMAIN o |-> o[i].id]
              /\ p.distinctReporters = Cardinality({o[i].contact : i \in DOMAIN o} \ {""})
              /\ p.anonymousReports = Cardinality({i \in DOMAIN o : o[i].contact = ""})
BY DEF Cluster

\* Its members are the cases of the group, each once, of the cluster's type.
LEMMA ClusterOfAGroup ==
    ASSUME NEW S, NEW group, OneKind(group, S), \A c, d \in S : c.id = d.id => c = d
    PROVE  LET p == Cluster(group)
           IN /\ p.reports \in Nat
              /\ DOMAIN p.members = 1 .. p.reports /\ Len(p.members) = p.reports
              /\ \A i \in 1 .. p.reports :
                   \E c \in S : p.members[i] = c.id /\ Counts(c) /\ c.evidence.type = p.type
              /\ Cardinality(ToSet(p.members)) = p.reports
<1> DEFINE o == InTimeOrder(group)
           n == Len(o)
           p == Cluster(group)
           C == ToSet(group)
           ids == {c.id : c \in C}
           m == [i \in DOMAIN o |-> o[i].id]
<1>1. Lists(group, C) /\ Len(group) >= 1 /\ C \subseteq S
  BY DEF OneKind
<1>2. PICK t : \A c \in C : Counts(c) /\ c.evidence.type = t
  BY DEF OneKind
<1>3. Lists(o, C)
  <2> HIDE DEF C
  <2> QED
    BY <1>1, InTimeOrderLists
<1>4. p.type = o[1].evidence.type /\ p.reports = n /\ p.members = m
  BY ClusterSays
<1> HIDE DEF p, C, o
<1>5. n \in Nat /\ DOMAIN o = 1 .. n /\ \A i \in 1 .. n : o[i] \in C
  BY <1>3 DEF Lists
<1>6. ASSUME NEW i \in 1 .. n
      PROVE  \E c \in S : m[i] = c.id /\ Counts(c) /\ c.evidence.type = p.type
  <2>1. 1 \in 1 .. n
    BY <1>5
  <2>2. o[1].evidence.type = t /\ o[i].evidence.type = t /\ Counts(o[i]) /\ o[i] \in S
    BY <1>1, <1>2, <1>5, <2>1
  <2>3. m[i] = o[i].id
    BY <1>5
  <2> QED
    BY <1>4, <2>2, <2>3
<1>7. Lists(m, ids)
  <2>1. DOMAIN m = 1 .. n /\ \A i \in 1 .. n : m[i] = o[i].id
    BY <1>5
  <2>2. m \in Seq(ids) /\ Len(m) = n
    BY <1>5
  <2> HIDE DEF m
  <2>3. ASSUME NEW x \in ids
        PROVE  \E i \in 1 .. Len(m) : m[i] = x
    <3>1. PICK c \in C : x = c.id
      OBVIOUS
    <3>2. PICK i \in 1 .. n : o[i] = c
      BY <1>3 DEF Lists
    <3> QED
      BY <2>1, <2>2, <3>1, <3>2
  <2>4. ASSUME NEW i \in 1 .. n, NEW j \in 1 .. n, m[i] = m[j]
        PROVE  i = j
    <3>1. o[i].id = o[j].id /\ o[i] \in S /\ o[j] \in S
      BY <1>1, <1>5, <2>1, <2>4
    <3>2. o[i] = o[j]
      BY <3>1
    <3> QED
      BY <1>3, <3>2 DEF Lists
  <2> HIDE DEF ids
  <2> QED
    BY <2>2, <2>3, <2>4 DEF Lists
<1>8. Len(m) = n /\ DOMAIN m = 1 .. n
  BY <1>5
<1> HIDE DEF m, ids
<1>9. Cardinality(ToSet(m)) = n
  <2>1. ToSet(m) = ids
    BY <1>7, ListsItsItems
  <2>2. Cardinality(ids) = Len(m)
    BY <1>7, ListsCount
  <2> QED
    BY <1>8, <2>1, <2>2
<1> HIDE DEF n
<1> QED
  BY <1>4, <1>5, <1>6, <1>8, <1>9 DEF p

\* Nobody is counted twice among those who report.
LEMMA ReportersAreCounted ==
    ASSUME NEW group, Lists(group, ToSet(group))
    PROVE  Cluster(group).distinctReporters + Cluster(group).anonymousReports <= Cluster(group).reports
<1> DEFINE o == InTimeOrder(group)
           n == Len(o)
           anonymous == {i \in DOMAIN o : o[i].contact = ""}
           named == {o[i].contact : i \in DOMAIN o} \ {""}
           rest == (1 .. n) \ anonymous
<1>1. n \in Nat /\ DOMAIN o = 1 .. n
  <2>1. Lists(o, ToSet(group))
    BY InTimeOrderLists
  <2> QED
    BY <2>1, ListsAsFunction
<1>2. /\ Cluster(group).reports = n
      /\ Cluster(group).distinctReporters = Cardinality(named)
      /\ Cluster(group).anonymousReports = Cardinality(anonymous)
  BY ClusterSays
<1> HIDE DEF o
<1>3. IsFiniteSet(1 .. n) /\ Cardinality(1 .. n) = n
  <2> HIDE DEF n
  <2>1. IsFiniteSet(1 .. n) /\ Cardinality(1 .. n) = IF 1 > n THEN 0 ELSE n - 1 + 1
    BY <1>1, FS_Interval
  <2> QED
    BY <1>1, <2>1
<1>4. anonymous \in SUBSET (1 .. n) /\ rest \in SUBSET (1 .. n)
  BY <1>1
<1>5. named = {o[i].contact : i \in rest}
  BY <1>1
<1>6. /\ IsFiniteSet(anonymous) /\ IsFiniteSet(rest)
      /\ Cardinality(anonymous) \in Nat
      /\ Cardinality(rest) = n - Cardinality(anonymous)
  <2> HIDE DEF anonymous
  <2>1. IsFiniteSet(anonymous) /\ IsFiniteSet(rest)
    BY <1>3, <1>4, FS_Subset
  <2>2. Cardinality(rest) = Cardinality(1 .. n) - Cardinality((1 .. n) \cap anonymous)
    BY <1>3, FS_Difference
  <2>3. (1 .. n) \cap anonymous = anonymous
    BY <1>4
  <2> QED
    BY <1>3, <2>1, <2>2, <2>3, FS_CardinalityType
<1>7. IsFiniteSet(named) /\ Cardinality(named) <= Cardinality(rest)
  <2> DEFINE f == [i \in rest |-> o[i].contact]
  <2>1. f \in Surjection(rest, named)
    BY <1>5 DEF Surjection
  <2> HIDE DEF f, rest, named
  <2> QED
    BY <1>6, <2>1, FS_Surjection
<1>8. Cardinality(named) \in Nat
  BY <1>7, FS_CardinalityType
<1> HIDE DEF named, anonymous, rest
<1> QED
  BY <1>1, <1>2, <1>6, <1>7, <1>8

\* The pool of a case has the others on record, and it once.
LEMMA PoolLists ==
    ASSUME NEW S, NEW q, Lists(q, S), S \subseteq CaseShape, \A c, d \in S : c.id = d.id => c = d,
           NEW case \in CaseShape
    PROVE  \E T : /\ Lists(Pool(case, q), T) /\ T \subseteq CaseShape
                  /\ \A c, d \in T : c.id = d.id => c = d
<1> DEFINE O == {c \in ToSet(q) : c.id # case.id}
           U == S \cap O
<1>1. Lists(Only(q, O), U)
  <2> HIDE DEF O
  <2> QED
    BY OnlyLists
<1>2. case \notin U /\ \A c \in U : c.id # case.id
  OBVIOUS
<1>3. Lists(Append(Only(q, O), case), U \cup {case})
  <2> HIDE DEF U, O
  <2> QED
    BY <1>1, <1>2, ListsOneMore
<1>4. Pool(case, q) = Append(Only(q, O), case)
  BY DEF Pool
<1>5. U \cup {case} \subseteq CaseShape /\ \A c, d \in U \cup {case} : c.id = d.id => c = d
  BY <1>2
<1> HIDE DEF U, O
<1> QED
  BY <1>3, <1>4, <1>5

\* A place among the members.
LEMMA PositionIsAPlace ==
    ASSUME NEW p, NEW id, Contains(p.members, id), Len(p.members) \in Nat
    PROVE  Position(p, id) \in 1 .. Len(p.members)
<1> DEFINE I == {i \in 1 .. Len(p.members) : p.members[i] = id}
<1>1. I # {} /\ I \in SUBSET (1 .. Len(p.members))
  BY DEF Contains
<1>2. Min(I) \in I
  <2> HIDE DEF I
  <2> QED
    BY <1>1, FirstOfSome
<1>3. Position(p, id) = IF I # {} THEN Min(I) ELSE 0
  BY DEF Position, SelectInSeq
<1> HIDE DEF I
<1> QED
  BY <1>1, <1>2, <1>3

\* A pattern is the cluster of a group.
LEMMA PatternsAreClusters ==
    ASSUME NEW S, NEW q, Lists(q, S), S \subseteq CaseShape, NEW p \in Patterns(q)
    PROVE  \E group : p = Cluster(group) /\ OneKind(group, S)
<1>1. \A c \in S : c.place \in Int
  BY DEF CaseShape
<1>2. CaseGroups(q) \in Seq(Seq(S)) /\ AllOneKind(CaseGroups(q), S)
  BY <1>1, CaseGroupsAreOneKind
<1>3. PICK i \in DOMAIN CaseGroups(q) : p = Cluster(CaseGroups(q)[i])
  BY DEF Patterns
<1> QED
  BY <1>2, <1>3 DEF AllOneKind

\* The pattern a letter cites is one the map shows.
THEOREM PatternsAreOnTheMap ==
    ASSUME MinSignals <= 1
    PROVE  ObservationsSpec => []ClustersAreOnTheMap
<1>1. ObservationsInv => ClustersAreOnTheMap
  <2> SUFFICES ASSUME ObservationsInv PROVE ClustersAreOnTheMap
    OBVIOUS
  <2> DEFINE S == ToSet(cases)
  <2>1. IsRecord(cases) /\ stored \subseteq Observable /\ IsFiniteSet(stored)
    BY DEF ObservationsInv, ObservedTypes
  <2>2. Lists(AllCases, S) /\ S \subseteq CaseShape /\ \A c, d \in S : c.id = d.id => c = d
    BY <2>1, RecordLists DEF AllCases
  <2> HIDE DEF S
  <2>3. ASSUME NEW p \in Patterns(AllCases), NEW i \in DOMAIN p.members
        PROVE  \E h \in Map : h.type = p.type /\ p.members[i] \in h.cases
    <3>1. PICK group : p = Cluster(group) /\ OneKind(group, S)
      BY <2>2, PatternsAreClusters
    <3>2. PICK c \in S : p.members[i] = c.id /\ Counts(c) /\ c.evidence.type = p.type
      BY <2>2, <2>3, <3>1, ClusterOfAGroup
    <3> DEFINE s == SignalFromCase(c)
    <3>3. Eligible(c) /\ c \in CaseShape
      BY <2>2, <3>2 DEF Counts, Eligible, Excluded
    <3>4. /\ s.type = p.type /\ s.type # "unclear" /\ s.source = "citizen_report"
          /\ s.id = <<"case", c.id, 0, 0>>
      BY <3>2, <3>3, ReportSays
    <3>5. s \in ToSet(Visible)
      <4>1. s \in ReportSignals(cases)
        BY <3>3 DEF ReportSignals, S
      <4> QED
        BY <2>1, <4>1, VisibleHas DEF Visible
    <3> HIDE DEF s
    <3>6. PICK h \in Map : s \in Members(h)
      BY <3>5, MapHas
    <3>7. h.type = p.type
      BY <3>4, <3>6, MapHas
    <3>8. PICK j \in DOMAIN h.signals : h.signals[j] = s
      BY <3>6 DEF Members
    <3>9. c.id \in h.cases
      <4>1. s.id[2] = c.id
        BY <3>4
      <4>2. h.cases = CasesAmong(h.signals)
        BY MapHas
      <4> QED
        BY <3>4, <3>8, <4>1, <4>2 DEF CasesAmong
    <3> QED
      BY <3>2, <3>7, <3>9
  <2>4. ASSUME NEW i \in DOMAIN cases, NEW e \in Evidence,
               NEW p \in PatternOf([cases[i] EXCEPT !.evidence = e], AllCases)
        PROVE  /\ Cardinality(ToSet(p.members)) = p.reports
               /\ Position(p, cases[i].id) \in 1 .. p.reports
               /\ p.distinctReporters + p.anonymousReports <= p.reports
    <3> DEFINE case == [cases[i] EXCEPT !.evidence = e]
    <3>1. case \in CaseShape /\ case.id = cases[i].id
      <4>1. cases[i] \in CaseShape
        BY <2>1 DEF IsRecord
      <4>2. e \in EvidenceShape
        BY ObservationsAssumption
      <4> QED
        BY <4>1, <4>2 DEF CaseShape
    <3> HIDE DEF case
    <3>2. p \in Patterns(Pool(case, AllCases)) /\ Contains(p.members, case.id)
      BY <2>4 DEF PatternOf, case
    <3>3. PICK T : /\ Lists(Pool(case, AllCases), T) /\ T \subseteq CaseShape
                   /\ \A c, d \in T : c.id = d.id => c = d
      BY <2>2, <3>1, PoolLists
    <3>4. PICK group : p = Cluster(group) /\ OneKind(group, T)
      BY <3>2, <3>3, PatternsAreClusters
    <3>5. p.reports \in Nat /\ Len(p.members) = p.reports /\ Cardinality(ToSet(p.members)) = p.reports
      BY <3>3, <3>4, ClusterOfAGroup
    <3>6. Position(p, cases[i].id) \in 1 .. p.reports
      BY <3>1, <3>2, <3>5, PositionIsAPlace
    <3>7. p.distinctReporters + p.anonymousReports <= p.reports
      BY <3>4, ReportersAreCounted DEF OneKind
    <3> QED
      BY <3>5, <3>6, <3>7
  <2> QED
    BY <2>3, <2>4 DEF ClustersAreOnTheMap
<1> QED
  BY <1>1, ObservationsInvariant, PTL

-----------------------------------------------------------------------------
(* Types. *)

\* A request's record says by itself which of its shapes it has.
LEMMA ShapeOfTask ==
    ASSUME TypeOK, NEW h \in Handlers
    PROVE  /\ task[h].at = "drafting" => task[h] \in Drafting
           /\ task[h].at \in {"send", "save"} => task[h] \in Confirming
           /\ task[h].at \in {"reading", "keeping"} => task[h] \in BeingRead
  BY DEF TypeOK, Idle, Drafting, Confirming, BeingRead

\* latest_imagery answers with a reading, or with None.
LEMMA LatestType == Latest \in Reading \cup {None}
<1>1. CASE \E r \in Reading : IsNewest(r)
  BY <1>1 DEF Latest
<1>2. CASE ~ \E r \in Reading : IsNewest(r)
  BY <1>2 DEF Latest
<1> QED
  BY <1>1, <1>2

\* Reading a picture keeps the types.
LEMMA ReadingTypes ==
    ASSUME TypeOK, NEW h \in Handlers,
           AskForReading(h) \/ SaveImage(h) \/ SaveReading(h)
    PROVE  TypeOK'
<1>1. CASE AskForReading(h)
  <2>1. PICK d \in Dates, p \in Pictures :
          task' = [task EXCEPT ![h] = [at |-> "reading", date |-> d, picture |-> p]]
    BY <1>1 DEF AskForReading
  <2>2. [at |-> "reading", date |-> d, picture |-> p] \in BeingRead
    BY DEF BeingRead
  <2> QED
    BY <1>1, <2>1, <2>2 DEF AskForReading, TypeOK
<1>2. CASE SaveImage(h)
  <2>1. task[h] \in BeingRead
    BY <1>2, ShapeOfTask DEF SaveImage
  <2>2. [task[h] EXCEPT !.at = "keeping"] \in BeingRead
    BY <2>1 DEF BeingRead
  <2>3. imagery' \in [Dates -> [image : Pictures \cup {None}, reading : Pictures \cup {None}]]
    BY <1>2, <2>1 DEF SaveImage, TypeOK, BeingRead
  <2> QED
    BY <1>2, <2>2, <2>3 DEF SaveImage, TypeOK
<1>3. CASE SaveReading(h)
  <2>1. task[h] \in BeingRead
    BY <1>3, ShapeOfTask DEF SaveReading
  <2>2. imagery' \in [Dates -> [image : Pictures \cup {None}, reading : Pictures \cup {None}]]
    BY <1>3, <2>1 DEF SaveReading, TypeOK, BeingRead
  <2> QED
    BY <1>3, <2>2 DEF SaveReading, Finish, TypeOK
<1> QED
  BY <1>1, <1>2, <1>3

\* So does drafting.
LEMMA DraftingTypes ==
    ASSUME TypeOK, NEW h \in Handlers, AskForAlert(h) \/ SaveAlert(h) \/ ModelFails(h)
    PROVE  TypeOK'
<1>1. CASE AskForAlert(h)
  <2>1. [hotspot |-> hotspot, imagery |-> Latest] \in Facts
    BY <1>1, LatestType, AlertAssumption DEF AskForAlert, Facts
  <2>2. [at |-> "drafting", facts |-> [hotspot |-> hotspot, imagery |-> Latest]] \in Drafting
    BY <2>1 DEF Drafting
  <2> QED
    BY <1>1, <2>2 DEF AskForAlert, TypeOK
<1>2. CASE SaveAlert(h)
  <2>1. Stated(h) \in Facts
    BY <1>2, ShapeOfTask DEF SaveAlert, Drafting, Stated
  <2>2. [status |-> "awaiting_confirmation", facts |-> Stated(h)] \in Alert
    BY <2>1 DEF Alert
  <2>3. alerts' \in [AlertIds -> Alert \cup {None}]
    BY <1>2, <2>2 DEF SaveAlert, TypeOK
  <2> QED
    BY <1>2, <2>3 DEF SaveAlert, Finish, TypeOK
<1>3. CASE ModelFails(h)
  BY <1>3 DEF ModelFails, Finish, TypeOK
<1> QED
  BY <1>1, <1>2, <1>3

\* And confirming.
LEMMA ConfirmingTypes ==
    ASSUME TypeOK, NEW h \in Handlers, Confirm(h) \/ Send(h) \/ SaveSent(h)
    PROVE  TypeOK'
<1>1. CASE Confirm(h)
  <2>1. PICK a \in AlertIds :
          /\ Pending(a)
          /\ task' = [task EXCEPT ![h] = [at |-> "send", id |-> a, copy |-> alerts[a]]]
    BY <1>1 DEF Confirm
  <2>2. [at |-> "send", id |-> a, copy |-> alerts[a]] \in Confirming
    BY <2>1 DEF Pending, TypeOK, Confirming
  <2> QED
    BY <1>1, <2>1, <2>2 DEF Confirm, TypeOK
<1>2. CASE Send(h)
  <2>1. task[h] \in Confirming
    BY <1>2, ShapeOfTask DEF Send
  <2>2. task[h].copy \in Alert /\ task[h].id \in AlertIds /\ Rendered(h) \in Facts
    BY <2>1 DEF Confirming, Alert, Rendered
  <2>3. outbox' \in [AlertIds -> Facts \cup {None}]
    BY <1>2, <2>2 DEF Send, TypeOK
  <2>4. [task[h] EXCEPT !.at = "save", !.copy.status = "sent"] \in Confirming
    BY <2>1 DEF Confirming, Alert
  <2>5. task' \in [Handlers -> {Idle} \cup Drafting \cup Confirming \cup BeingRead]
    BY <1>2, <2>4 DEF Send, Finish, TypeOK
  <2> QED
    BY <1>2, <2>3, <2>5 DEF Send, TypeOK
<1>3. CASE SaveSent(h)
  <2>1. task[h].copy \in Alert
    BY <1>3, ShapeOfTask DEF SaveSent, Confirming
  <2>2. alerts' \in [AlertIds -> Alert \cup {None}]
    BY <1>3, <2>1 DEF SaveSent, TypeOK
  <2> QED
    BY <1>3, <2>2 DEF SaveSent, Finish, TypeOK
<1> QED
  BY <1>1, <1>2, <1>3

\* The environment touches neither the store nor the shape of a request.
LEMMA OtherTypes ==
    ASSUME TypeOK, Redetect \/ Restart \/ UNCHANGED vars
    PROVE  TypeOK'
  BY AlertAssumption DEF Redetect, Restart, vars, TypeOK

\* Every reachable state is typed, whatever the constants.
THEOREM TypeCorrect == Spec => []TypeOK
<1>1. Init => TypeOK
  BY AlertAssumption DEF Init, TypeOK
<1>2. TypeOK /\ [Next]_vars => TypeOK'
  BY ReadingTypes, DraftingTypes, ConfirmingTypes, OtherTypes DEF Next
<1> QED
  BY <1>1, <1>2, PTL DEF Spec

-----------------------------------------------------------------------------
(* The invariant. *)

\* Beside its types, what AlertInv says of one alert, one request and one date.
LEMMA ReadingInv ==
    ASSUME AlertInv, TypeOK', NEW h \in Handlers,
           AskForReading(h) \/ SaveImage(h) \/ SaveReading(h)
    PROVE  AlertInv'
<1> USE DEF AlertInv
<1>1. UNCHANGED <<alerts, outbox>>
  BY DEF AskForReading, SaveImage, SaveReading
<1>2. (EnvelopeMatchesAlert /\ OnlyCorroboratedIsAlerted)'
  BY <1>1 DEF EnvelopeMatchesAlert, OnlyCorroboratedIsAlerted
<1>3. CASE AskForReading(h)
  <2>1. /\ UNCHANGED imagery
        /\ task'[h].at = "reading"
        /\ \A g \in Handlers \ {h} : task'[g] = task[g]
    BY <1>3 DEF AskForReading, TypeOK
  <2>2. ASSUME NEW g \in Handlers
        PROVE  (DraftIsCorroborated(task[g]) /\ ConfirmationIsGood(task[g])
                  /\ KeepsItsPicture(task[g]))'
    BY <1>1, <2>1 DEF DraftIsCorroborated, ConfirmationIsGood, KeepsItsPicture
  <2> QED
    BY <1>2, <2>1, <2>2 DEF ReadingHasAPicture
<1>4. CASE SaveImage(h)
  <2>1. task[h] \in BeingRead
    BY <1>4, ShapeOfTask DEF SaveImage
  <2>2. /\ task'[h].at = "keeping"
        /\ task'[h].date = task[h].date /\ task'[h].picture = task[h].picture
        /\ \A g \in Handlers \ {h} : task'[g] = task[g] /\ task[g].at # "keeping"
    BY <1>4, <2>1 DEF SaveImage, TypeOK, BeingRead, LoopIsFree
  <2>3. imagery' = [imagery EXCEPT ![task[h].date].image = task[h].picture]
    BY <1>4 DEF SaveImage
  <2>4. ASSUME NEW g \in Handlers
        PROVE  (DraftIsCorroborated(task[g]) /\ ConfirmationIsGood(task[g])
                  /\ KeepsItsPicture(task[g]))'
    BY <1>1, <2>1, <2>2, <2>3
       DEF DraftIsCorroborated, ConfirmationIsGood, KeepsItsPicture, TypeOK, BeingRead
  <2>5. ReadingHasAPicture'
    BY <2>1, <2>3, AlertAssumption DEF ReadingHasAPicture, TypeOK, BeingRead
  <2> QED
    BY <1>2, <2>4, <2>5
<1>5. CASE SaveReading(h)
  <2>1. task[h] \in BeingRead
    BY <1>5, ShapeOfTask DEF SaveReading
  <2>2. /\ task'[h] = Idle
        /\ \A g \in Handlers \ {h} : task'[g] = task[g]
    BY <1>5 DEF SaveReading, Finish, TypeOK
  <2>3. imagery' = [imagery EXCEPT ![task[h].date].reading = task[h].picture]
    BY <1>5 DEF SaveReading
  <2>4. \A d \in Dates : imagery'[d].image = imagery[d].image
    BY <2>3 DEF TypeOK
  <2>5. ASSUME NEW g \in Handlers
        PROVE  (DraftIsCorroborated(task[g]) /\ ConfirmationIsGood(task[g])
                  /\ KeepsItsPicture(task[g]))'
    <3>1. task[g].at = "keeping" => task[g] \in BeingRead
      BY ShapeOfTask
    <3> QED
      BY <1>1, <2>2, <2>4, <3>1
         DEF DraftIsCorroborated, ConfirmationIsGood, KeepsItsPicture, Idle, BeingRead
  <2>6. ReadingHasAPicture'
    <3>1. imagery[task[h].date].image = task[h].picture
      BY <1>5 DEF SaveReading, KeepsItsPicture
    <3> QED
      BY <2>1, <2>3, <2>4, <3>1, AlertAssumption DEF ReadingHasAPicture, TypeOK, BeingRead
  <2> QED
    BY <1>2, <2>5, <2>6
<1> QED
  BY <1>3, <1>4, <1>5

LEMMA DraftingInv ==
    ASSUME AlertInv, TypeOK', NEW h \in Handlers,
           AskForAlert(h) \/ SaveAlert(h) \/ ModelFails(h)
    PROVE  AlertInv'
<1> USE DEF AlertInv
<1>1. UNCHANGED <<outbox, imagery>>
  BY DEF AskForAlert, SaveAlert, ModelFails
<1>2. ReadingHasAPicture'
  BY <1>1 DEF ReadingHasAPicture
<1>3. CASE AskForAlert(h)
  <2>1. /\ UNCHANGED alerts
        /\ task'[h] = [at |-> "drafting", facts |-> [hotspot |-> hotspot, imagery |-> Latest]]
        /\ hotspot \in Corroborated
        /\ \A g \in Handlers \ {h} : task'[g] = task[g]
    BY <1>3 DEF AskForAlert, TypeOK
  <2>2. (EnvelopeMatchesAlert /\ OnlyCorroboratedIsAlerted)'
    BY <1>1, <2>1 DEF EnvelopeMatchesAlert, OnlyCorroboratedIsAlerted
  <2>3. ASSUME NEW g \in Handlers
        PROVE  (DraftIsCorroborated(task[g]) /\ ConfirmationIsGood(task[g])
                  /\ KeepsItsPicture(task[g]))'
    BY <1>1, <2>1 DEF DraftIsCorroborated, ConfirmationIsGood, KeepsItsPicture
  <2> QED
    BY <1>2, <2>2, <2>3
<1>4. CASE SaveAlert(h)
  <2>1. PICK a \in AlertIds :
          /\ alerts[a] = None
          /\ alerts' = [alerts EXCEPT ![a] = [status |-> "awaiting_confirmation",
                                              facts |-> Stated(h)]]
    BY <1>4 DEF SaveAlert
  <2>2. /\ task'[h] = Idle
        /\ \A g \in Handlers \ {h} : task'[g] = task[g]
    BY <1>4 DEF SaveAlert, Finish, TypeOK
  <2>3. Stated(h).hotspot \in Corroborated
    BY <1>4 DEF SaveAlert, Stated, DraftIsCorroborated
  <2>4. /\ alerts'[a].status = "awaiting_confirmation"
        /\ alerts'[a].facts.hotspot \in Corroborated
        /\ \A b \in AlertIds \ {a} : alerts'[b] = alerts[b]
    BY <2>1, <2>3 DEF TypeOK
  <2>5. outbox[a] = None
    BY <2>1 DEF EnvelopeMatchesAlert
  <2>6. (EnvelopeMatchesAlert /\ OnlyCorroboratedIsAlerted)'
    BY <1>1, <2>4, <2>5 DEF EnvelopeMatchesAlert, OnlyCorroboratedIsAlerted
  <2>7. ASSUME NEW g \in Handlers
        PROVE  (DraftIsCorroborated(task[g]) /\ ConfirmationIsGood(task[g])
                  /\ KeepsItsPicture(task[g]))'
    <3>1. task[g].at \in {"send", "save"} => task[g].id \in AlertIds \ {a}
      BY <2>1, ShapeOfTask DEF ConfirmationIsGood, Confirming
    <3> QED
      BY <1>1, <2>2, <2>4, <3>1
         DEF DraftIsCorroborated, ConfirmationIsGood, KeepsItsPicture, Idle
  <2> QED
    BY <1>2, <2>6, <2>7
<1>5. CASE ModelFails(h)
  <2>1. /\ UNCHANGED alerts
        /\ task'[h] = Idle
        /\ \A g \in Handlers \ {h} : task'[g] = task[g]
    BY <1>5 DEF ModelFails, Finish, TypeOK
  <2>2. (EnvelopeMatchesAlert /\ OnlyCorroboratedIsAlerted)'
    BY <1>1, <2>1 DEF EnvelopeMatchesAlert, OnlyCorroboratedIsAlerted
  <2>3. ASSUME NEW g \in Handlers
        PROVE  (DraftIsCorroborated(task[g]) /\ ConfirmationIsGood(task[g])
                  /\ KeepsItsPicture(task[g]))'
    BY <1>1, <2>1 DEF DraftIsCorroborated, ConfirmationIsGood, KeepsItsPicture, Idle
  <2> QED
    BY <1>2, <2>2, <2>3
<1> QED
  BY <1>3, <1>4, <1>5

LEMMA ConfirmingInv ==
    ASSUME AlertInv, TypeOK', NEW h \in Handlers, Confirm(h) \/ Send(h) \/ SaveSent(h)
    PROVE  AlertInv'
<1> USE DEF AlertInv
<1>1. UNCHANGED imagery
  BY DEF Confirm, Send, SaveSent
<1>2. ReadingHasAPicture'
  BY <1>1 DEF ReadingHasAPicture
<1>3. CASE Confirm(h)
  <2>1. PICK a \in AlertIds :
          /\ Pending(a)
          /\ task' = [task EXCEPT ![h] = [at |-> "send", id |-> a, copy |-> alerts[a]]]
    BY <1>3 DEF Confirm
  <2>2. UNCHANGED <<alerts, outbox>>
    BY <1>3 DEF Confirm
  <2>3. /\ task'[h] = [at |-> "send", id |-> a, copy |-> alerts[a]]
        /\ \A g \in Handlers \ {h} : task'[g] = task[g]
    BY <2>1 DEF TypeOK
  <2>4. (EnvelopeMatchesAlert /\ OnlyCorroboratedIsAlerted)'
    BY <2>2 DEF EnvelopeMatchesAlert, OnlyCorroboratedIsAlerted
  <2>5. ASSUME NEW g \in Handlers
        PROVE  (DraftIsCorroborated(task[g]) /\ ConfirmationIsGood(task[g])
                  /\ KeepsItsPicture(task[g]))'
    BY <1>1, <2>1, <2>2, <2>3
       DEF DraftIsCorroborated, ConfirmationIsGood, KeepsItsPicture, Pending
  <2> QED
    BY <1>2, <2>4, <2>5
<1>4. CASE Send(h)
  <2> DEFINE id == task[h].id
  <2>1. task[h] \in Confirming /\ id \in AlertIds
    BY <1>4, ShapeOfTask DEF Send, Confirming
  <2>2. /\ alerts[id] # None
        /\ alerts[id].facts = task[h].copy.facts
        /\ task[h].copy.facts \in Facts
    BY <1>4, <2>1 DEF Send, ConfirmationIsGood, Confirming, Alert
  <2>3. UNCHANGED alerts /\ \A g \in Handlers \ {h} : task'[g] = task[g]
    BY <1>4 DEF Send, Finish, TypeOK
  <2>4. \/ task'[h] = Idle /\ UNCHANGED outbox
        \/ /\ task'[h] = [task[h] EXCEPT !.at = "save", !.copy.status = "sent"]
           /\ outbox'[id] = task[h].copy.facts
           /\ \A b \in AlertIds \ {id} : outbox'[b] = outbox[b]
    BY <1>4, <2>1 DEF Send, Finish, Rendered, TypeOK
  <2>5. None \notin Facts
    BY NoneAssumption
  <2>6. (EnvelopeMatchesAlert /\ OnlyCorroboratedIsAlerted)'
    BY <2>1, <2>2, <2>3, <2>4, <2>5 DEF EnvelopeMatchesAlert, OnlyCorroboratedIsAlerted
  <2>7. ASSUME NEW g \in Handlers
        PROVE  (DraftIsCorroborated(task[g]) /\ ConfirmationIsGood(task[g])
                  /\ KeepsItsPicture(task[g]))'
    <3>1. task[g].at \in {"send", "save"} => task[g].id \in AlertIds
      BY ShapeOfTask DEF Confirming
    <3>2. CASE g # h
      <4>1. task'[g] = task[g]
        BY <2>3, <3>2
      <4>2. \A b \in AlertIds : outbox[b] # None => outbox'[b] # None
        BY <2>1, <2>2, <2>4, <2>5
      <4> QED
        BY <1>1, <2>3, <3>1, <4>1, <4>2
           DEF DraftIsCorroborated, ConfirmationIsGood, KeepsItsPicture
    <3>3. CASE g = h /\ task'[h] = Idle
      BY <3>3 DEF DraftIsCorroborated, ConfirmationIsGood, KeepsItsPicture, Idle
    <3>4. CASE g = h /\ task'[h] # Idle
      <4>1. /\ task'[h] = [task[h] EXCEPT !.at = "save", !.copy.status = "sent"]
            /\ outbox'[id] # None
        BY <2>2, <2>4, <2>5, <3>4
      <4>2. /\ task'[h].at = "save" /\ task'[h].id = id
            /\ task'[h].copy.facts = task[h].copy.facts
        BY <2>1, <4>1 DEF Confirming, Alert
      <4> QED
        BY <2>2, <2>3, <3>4, <4>1, <4>2
           DEF DraftIsCorroborated, ConfirmationIsGood, KeepsItsPicture
    <3> QED
      BY <3>2, <3>3, <3>4
  <2> QED
    BY <1>2, <2>6, <2>7
<1>5. CASE SaveSent(h)
  <2> DEFINE id == task[h].id
  <2>1. task[h] \in Confirming /\ id \in AlertIds
    BY <1>5, ShapeOfTask DEF SaveSent, Confirming
  <2>2. /\ alerts[id] # None
        /\ alerts[id].facts = task[h].copy.facts
        /\ outbox[id] # None
    BY <1>5, <2>1 DEF SaveSent, ConfirmationIsGood
  <2>3. /\ UNCHANGED outbox
        /\ task'[h] = Idle
        /\ \A g \in Handlers \ {h} : task'[g] = task[g]
        /\ alerts'[id] = task[h].copy
        /\ \A b \in AlertIds \ {id} : alerts'[b] = alerts[b]
    BY <1>5, <2>1 DEF SaveSent, Finish, TypeOK
  <2>4. alerts'[id] # None
    BY <2>1, <2>3, NoneAssumption DEF Confirming
  <2>5. (EnvelopeMatchesAlert /\ OnlyCorroboratedIsAlerted)'
    BY <2>1, <2>2, <2>3, <2>4 DEF EnvelopeMatchesAlert, OnlyCorroboratedIsAlerted
  <2>6. ASSUME NEW g \in Handlers
        PROVE  (DraftIsCorroborated(task[g]) /\ ConfirmationIsGood(task[g])
                  /\ KeepsItsPicture(task[g]))'
    <3>1. task[g].at \in {"send", "save"} => task[g].id \in AlertIds
      BY ShapeOfTask DEF Confirming
    <3> QED
      BY <1>1, <2>1, <2>2, <2>3, <2>4, <3>1
         DEF DraftIsCorroborated, ConfirmationIsGood, KeepsItsPicture, Idle
  <2> QED
    BY <1>2, <2>5, <2>6
<1> QED
  BY <1>3, <1>4, <1>5

LEMMA OtherInv ==
    ASSUME AlertInv, TypeOK', Redetect \/ Restart \/ UNCHANGED vars
    PROVE  AlertInv'
<1>1. UNCHANGED <<alerts, outbox, imagery>>
  BY DEF Redetect, Restart, vars
<1>2. (EnvelopeMatchesAlert /\ OnlyCorroboratedIsAlerted /\ ReadingHasAPicture)'
  BY <1>1 DEF AlertInv, EnvelopeMatchesAlert, OnlyCorroboratedIsAlerted, ReadingHasAPicture
<1>3. ASSUME NEW g \in Handlers
      PROVE  (DraftIsCorroborated(task[g]) /\ ConfirmationIsGood(task[g])
                /\ KeepsItsPicture(task[g]))'
  <2>1. task'[g] = task[g] \/ task'[g] = Idle
    BY DEF Redetect, Restart, vars
  <2> QED
    BY <1>1, <2>1
       DEF AlertInv, DraftIsCorroborated, ConfirmationIsGood, KeepsItsPicture, Idle
<1> QED
  BY <1>2, <1>3 DEF AlertInv

-----------------------------------------------------------------------------
(* The theorems. *)

\* The inductive invariant holds in every reachable state.
THEOREM Inductive == Spec => []AlertInv
<1>1. Init /\ TypeOK => AlertInv
  BY DEF Init, AlertInv, EnvelopeMatchesAlert, OnlyCorroboratedIsAlerted, ReadingHasAPicture,
         DraftIsCorroborated, ConfirmationIsGood, KeepsItsPicture, Idle
<1>2. AlertInv /\ TypeOK' /\ [Next]_vars => AlertInv'
  BY ReadingInv, DraftingInv, ConfirmingInv, OtherInv DEF Next
<1> QED
  BY <1>1, <1>2, TypeCorrect, PTL DEF Spec

\* What an authority receives is what the stored alert says, and no alert says
\* it was sent without an envelope, under every race and restart.
THEOREM EnvelopeIsFaithful == Spec => []EnvelopeMatchesAlert
<1>1. AlertInv => EnvelopeMatchesAlert
  BY DEF AlertInv
<1> QED
  BY <1>1, Inductive, PTL

\* Nothing is alerted, or can be confirmed, that no instrument supported.
THEOREM CorroborationGate == Spec => []OnlyCorroboratedIsAlerted
<1>1. AlertInv => OnlyCorroboratedIsAlerted
  BY DEF AlertInv
<1> QED
  BY <1>1, Inductive, PTL

\* No reading is ever without a picture.
THEOREM PictureBesideReading == Spec => []ReadingHasAPicture
<1>1. AlertInv => ReadingHasAPicture
  BY DEF AlertInv
<1> QED
  BY <1>1, Inductive, PTL

\* Only the saving of a re-reading parts a reading from its picture.
THEOREM PictureStays == Spec => PictureIsTheOneRead
<1>1. ASSUME AlertInv, [Next]_vars, NEW d \in Dates, Torn(d)'
      PROVE  Torn(d) \/ BeingSaved(d)'
  <2>1. CASE UNCHANGED imagery
    BY <1>1, <2>1 DEF Torn
  <2>2. ASSUME NEW h \in Handlers, SaveImage(h) PROVE Torn(d) \/ BeingSaved(d)'
    <3>1. task[h] \in BeingRead
      BY <1>1, <2>2, ShapeOfTask DEF SaveImage, AlertInv
    <3>2. task'[h].at = "keeping" /\ task'[h].date = task[h].date
      BY <1>1, <2>2, <3>1 DEF SaveImage, AlertInv, TypeOK, BeingRead
    <3>3. d # task[h].date => imagery'[d] = imagery[d]
      BY <1>1, <2>2 DEF SaveImage, AlertInv, TypeOK
    <3> QED
      BY <1>1, <3>2, <3>3 DEF Torn, BeingSaved
  <2>3. ASSUME NEW h \in Handlers, SaveReading(h) PROVE Torn(d)
    <3>1. task[h] \in BeingRead /\ imagery[task[h].date].image = task[h].picture
      BY <1>1, <2>3, ShapeOfTask DEF SaveReading, AlertInv, KeepsItsPicture
    <3>2. imagery' = [imagery EXCEPT ![task[h].date].reading = task[h].picture]
      BY <2>3 DEF SaveReading
    <3>3. d = task[h].date => imagery'[d].reading = imagery'[d].image
      BY <1>1, <3>1, <3>2 DEF AlertInv, TypeOK
    <3>4. d # task[h].date => imagery'[d] = imagery[d]
      BY <1>1, <3>2 DEF AlertInv, TypeOK
    <3> QED
      BY <1>1, <3>3, <3>4 DEF Torn
  <2> QED
    BY <1>1, <2>1, <2>2, <2>3
       DEF Next, vars, AskForReading, AskForAlert, SaveAlert, ModelFails, Confirm, Send,
           SaveSent, Redetect, Restart
<1>2. AlertInv /\ [Next]_vars => [\A d \in Dates : Torn(d)' => Torn(d) \/ BeingSaved(d)']_vars
  BY <1>1
<1> QED
  BY <1>2, Inductive, PTL DEF Spec, PictureIsTheOneRead
=============================================================================
