--------------------------- MODULE OpenDataProofs ---------------------------
(***************************************************************************)
(* Proofs about the exports, for any nodes and feeds, read in any chain,   *)
(* any number of exports and loads, uploads that break off anywhere and    *)
(* directories that are written over: what is exported is the node's own,  *)
(* the signals back the map, a mark is worth what it says, and the current *)
(* views are the newest run's.                                             *)
(***************************************************************************)
EXTENDS OpenData, SequenceTheorems, WellFoundedInduction, TLAPS

-----------------------------------------------------------------------------
(* The inductive invariant. *)

NodeIds == {NodeId[n] : n \in Nodes}

Spots == [id : Observations, corroborated : BOOLEAN]

Feeds == [node : [nodeId : NodeIds, country : {Country[n] : n \in Nodes}],
          hotspots : SUBSET [hotspotId : Observations, nodeId : NodeIds, corroborated : BOOLEAN]]

Gathering == [at : {"idle", "neighbours", "signals", "alerts"}, next : Nat \ {0},
              neighbours : SUBSET Feeds, hotspots : SUBSET Spots,
              signals : SUBSET Observations, left : SUBSET Observations]

Exports == [node : Nodes, hotspots : SUBSET Spots, signals : SUBSET Observations,
            neighbours : SUBSET Feeds, alert : Nat, left : SUBSET Observations,
            marked : BOOLEAN, inherited : BOOLEAN, gone : BOOLEAN,
            copies : [TableNames -> Nat], untold : BOOLEAN, lost : BOOLEAN, old : BOOLEAN]

Uploadings == [of : Nat, step : 1 .. 8]

TypeOK ==
    /\ observed \in [Nodes -> [Observations -> {"unseen", "live", "past"}]]
    /\ stage \in [Nodes -> Nat]
    /\ expired \in [Nodes -> SUBSET Observations]
    /\ gathering \in [Nodes -> Gathering]
    /\ exports \in Seq(Exports)
    /\ uploading \in [Nodes -> Uploadings]

Seen(n, o) == observed[n][o] # "unseen"

\* What node n has gathered was detected where it says, and not here if it is a
\* neighbour's.
OwnRows(n, spots, feeds) ==
    /\ \A spot \in spots : Seen(n, spot.id)
    /\ \A feed \in feeds : \A spot \in feed.hotspots :
         /\ spot.nodeId # NodeId[n]
         /\ \E m \in Nodes : NodeId[m] = spot.nodeId /\ Seen(m, spot.hotspotId)

\* What has no signal was taken back between the two reads.
Backed(x) == \A spot \in x.hotspots :
                 spot.id \in x.signals \/ (spot.id = "report" /\ spot.id \in x.left)

GatherInv(n) ==
    LET g == gathering[n]
    IN /\ OwnRows(n, g.hotspots, g.neighbours)
       /\ g.at = "signals" =>
            \A spot \in g.hotspots : observed[n][spot.id] = "live" \/ spot.id \in g.left
       /\ g.at = "alerts" => Backed(g)

ContentInv(x) == OwnRows(x.node, x.hotspots, x.neighbours) /\ Backed(x)

\* Of the rows held, an export that is being loaded has those of the tables
\* before the step, and no mark; one with a mark of its own has them all - but
\* for runs that were dropped since.  Without a load that nobody told of it has
\* each once, the tables from the step on are empty of it, and before its upload
\* all are; and once the runs were dropped its own is not there.
Whole(x) == x.marked /\ ~x.inherited /\ ~x.lost

LoadInv(i, x, up, held) ==
    /\ up.of = i =>
         /\ ~x.marked
         /\ ~x.lost =>
              \A j \in 1 .. 5 : j < up.step /\ held[Tables[j]] # {} => x.copies[Tables[j]] > 0
    /\ Whole(x) => \A t \in TableNames : held[t] # {} => x.copies[t] > 0
    /\ ~x.untold =>
         /\ \A t \in TableNames : x.copies[t] <= 1
         /\ up.of = i => \A j \in 1 .. 5 : j >= up.step => x.copies[Tables[j]] = 0
         /\ up.of # i /\ (~x.marked \/ x.inherited) => \A t \in TableNames : x.copies[t] = 0
         /\ x.lost => x.copies["exports"] = 0 /\ (up.of = i => up.step > 1)

\* A node loads its own.
UploadInv(n) ==
    uploading[n].of # 0 =>
        uploading[n].of \in DOMAIN exports /\ exports[uploading[n].of].node = n

\* An alert goes one way, and so do the exports that hold its status.
AlertsInOrder ==
    /\ \A i \in DOMAIN exports : exports[i].alert <= stage[exports[i].node]
    /\ \A i, j \in DOMAIN exports :
         i <= j /\ exports[i].node = exports[j].node => exports[i].alert <= exports[j].alert

OpenDataInv ==
    /\ TypeOK
    /\ \A n \in Nodes : GatherInv(n) /\ UploadInv(n)
    /\ \A i \in DOMAIN exports : 
         /\ ContentInv(exports[i])
         /\ LoadInv(i, exports[i], uploading[exports[i].node], Held(exports[i]))
    /\ AlertsInOrder

-----------------------------------------------------------------------------
(* Tables, rows and maxima. *)

LEMMA TableFacts ==
    /\ Len(Tables) = 5 /\ DOMAIN Tables = 1 .. 5
    /\ TableNames = {"exports", "signals", "hotspots", "neighbours", "alerts"}
    /\ \A t \in TableNames : \E j \in 1 .. 5 : Tables[j] = t
    /\ \A i, j \in 1 .. 5 : Tables[i] = Tables[j] => i = j
    /\ \A j \in 1 .. 5 : Tables[j] \in TableNames
<1>1. Len(Tables) = 5 /\ DOMAIN Tables = 1 .. 5
  BY DEF Tables
<1>2. /\ Tables[1] = "exports" /\ Tables[2] = "signals" /\ Tables[3] = "hotspots"
      /\ Tables[4] = "neighbours" /\ Tables[5] = "alerts"
  BY DEF Tables
<1>3. \A j \in 1 .. 5 : j = 1 \/ j = 2 \/ j = 3 \/ j = 4 \/ j = 5
  OBVIOUS
<1> QED
  BY <1>1, <1>2, <1>3 DEF TableNames

\* Two versions of an export with the same content.
SameContent(x, y) ==
    /\ x.node = y.node /\ x.hotspots = y.hotspots /\ x.signals = y.signals
    /\ x.neighbours = y.neighbours /\ x.alert = y.alert /\ x.left = y.left

\* And with the same held of it.
SameHolding(x, y) == SameContent(x, y) /\ x.old = y.old

LEMMA HeldStays ==
    ASSUME NEW j, expired' = expired, SameHolding(exports'[j], exports[j])
    PROVE  Held(exports[j])' = Held(exports[j])
BY DEF SameHolding, SameContent, Held, ExportRows, HotspotRows, NeighbourRows, AlertRows

\* What is held of an export only grows less.
LEMMA HeldWanes ==
    ASSUME NEW j, SameContent(exports'[j], exports[j]), exports[j].old => exports'[j].old,
           expired[exports[j].node] \subseteq expired'[exports[j].node], NEW t \in TableNames,
           Held(exports[j])'[t] # {}
    PROVE  Held(exports[j])[t] # {}
<1> DEFINE x == exports'[j]
           y == exports[j]
<1>1. /\ ExportRows(x) = ExportRows(y) /\ HotspotRows(x) = HotspotRows(y)
      /\ NeighbourRows(x) = NeighbourRows(y) /\ AlertRows(x) = AlertRows(y)
  BY DEF SameContent, ExportRows, HotspotRows, NeighbourRows, AlertRows
<1>2. {SignalRow(o) : o \in x.signals \ expired'[x.node]}
        \subseteq {SignalRow(o) : o \in y.signals \ expired[y.node]}
  BY DEF SameContent
<1>3. t \in {"exports", "signals", "hotspots", "neighbours", "alerts"}
  BY TableFacts
<1>4. \A r1, r2 : (IF x.old THEN {} ELSE r1) # {} /\ r1 = r2 => (IF y.old THEN {} ELSE r2) # {}
  OBVIOUS
<1>5. CASE t = "signals"
  BY <1>2, <1>5 DEF Held
<1>6. CASE t = "exports"
  BY <1>1, <1>6 DEF Held
<1>7. CASE t = "hotspots"
  BY <1>1, <1>4, <1>7 DEF Held
<1>8. CASE t = "neighbours"
  BY <1>1, <1>4, <1>8 DEF Held
<1>9. CASE t = "alerts"
  BY <1>1, <1>4, <1>9 DEF Held
<1> QED
  BY <1>3, <1>5, <1>6, <1>7, <1>8, <1>9

\* The newest of a set of exports is in it, and none of it is newer.
LEMMA NewestIsLast ==
    ASSUME NEW n \in Nat, NEW S, S \subseteq 1 .. n, S # {}
    PROVE  Newest(S) \in S /\ \A j \in S : j <= Newest(S)
<1> DEFINE T == {n - i : i \in S}
<1>0. \A i \in S : i \in 1 .. n /\ i \in Int /\ n - i \in Nat
  <2>1. \A i \in 1 .. n : i \in Int /\ n - i \in Nat
    OBVIOUS
  <2> QED
    BY <2>1
<1>1. T \subseteq Nat /\ T # {}
  BY <1>0
<1>2. PICK x \in T : \A y \in T : ~ (<<y, x>> \in OpToRel(<, Nat))
  BY <1>1, NatLessThanWellFounded, WFMin
<1>3. x \in Nat /\ \A y \in T : ~(y < x)
  BY <1>1, <1>2 DEF OpToRel
<1>4. PICK i \in S : x = n - i
  OBVIOUS
<1>5. \A j \in S : j <= i
  <2> SUFFICES ASSUME NEW j \in S PROVE j <= i
    OBVIOUS
  <2>1. n - j \in T /\ j \in Int /\ i \in Int
    BY <1>0
  <2>2. ~(n - j < n - i)
    BY <1>3, <1>4, <2>1
  <2>3. ASSUME NEW a \in Int, NEW b \in Int, ~(n - a < n - b) PROVE a <= b
    BY <2>3
  <2> QED
    BY <2>1, <2>2, <2>3
<1> QED
  BY <1>5 DEF Newest

-----------------------------------------------------------------------------
(* What a step may do to the exports. *)

\* One export is altered.
LEMMA Alters ==
    ASSUME TypeOK, NEW i \in DOMAIN exports, NEW x \in Exports,
           exports' = [exports EXCEPT ![i] = x]
    PROVE  /\ exports' \in Seq(Exports) /\ DOMAIN exports' = DOMAIN exports
           /\ exports'[i] = x
           /\ \A j \in DOMAIN exports : j # i => exports'[j] = exports[j]
<1>1. exports \in Seq(Exports)
  BY DEF TypeOK
<1>2. i \in 1 .. Len(exports) /\ DOMAIN exports = 1 .. Len(exports)
  BY <1>1, LenProperties
<1>3. exports' \in Seq(Exports) /\ Len(exports') = Len(exports)
  BY <1>1, <1>2, ExceptSeq
<1> QED
  BY <1>1, <1>2, <1>3, LenProperties

\* The exports are of their type, and there is none before the first.
LEMMA ExportTypes ==
    ASSUME TypeOK
    PROVE  /\ Len(exports) \in Nat /\ DOMAIN exports = 1 .. Len(exports)
           /\ \A i \in DOMAIN exports : exports[i] \in Exports
           /\ 0 \notin DOMAIN exports
<1>1. exports \in Seq(Exports)
  BY DEF TypeOK
<1>2. Len(exports) \in Nat /\ DOMAIN exports = 1 .. Len(exports)
  BY <1>1, LenProperties
<1> QED
  BY <1>1, <1>2, ElementOfSeq

\* What was seen stays seen, so what was a node's own stays so.
LEMMA OwnStays ==
    ASSUME NEW n \in Nodes, NEW spots, NEW feeds, OwnRows(n, spots, feeds),
           \A m \in Nodes : \A o : Seen(m, o) => Seen(m, o)'
    PROVE  OwnRows(n, spots, feeds)'
BY DEF OwnRows

\* A step of the loading alters no content.
Reloads ==
    /\ UNCHANGED <<observed, stage, gathering>>
    /\ DOMAIN exports' = DOMAIN exports
    /\ \A i \in DOMAIN exports : SameContent(exports'[i], exports[i])

LEMMA ReloadKeeps ==
    ASSUME OpenDataInv, Reloads
    PROVE  /\ \A n \in Nodes : GatherInv(n)'
           /\ \A i \in DOMAIN exports : ContentInv(exports[i])'
           /\ AlertsInOrder'
<1>1. ASSUME NEW n \in Nodes PROVE GatherInv(n)'
  <2>1. GatherInv(n) /\ UNCHANGED <<observed, gathering>>
    BY DEF OpenDataInv, Reloads
  <2> QED
    BY <2>1 DEF GatherInv, OwnRows, Seen, Backed
<1>2. ASSUME NEW i \in DOMAIN exports PROVE ContentInv(exports[i])'
  <2>1. ContentInv(exports[i]) /\ SameContent(exports'[i], exports[i]) /\ observed' = observed
    BY DEF OpenDataInv, Reloads
  <2> QED
    BY <2>1 DEF ContentInv, SameContent, OwnRows, Seen, Backed
<1>3. AlertsInOrder'
  <2>1. AlertsInOrder /\ stage' = stage /\ DOMAIN exports' = DOMAIN exports
        /\ \A i \in DOMAIN exports : exports'[i].node = exports[i].node /\ exports'[i].alert = exports[i].alert
    BY DEF OpenDataInv, Reloads, SameContent
  <2> QED
    BY <2>1 DEF AlertsInOrder
<1> QED
  BY <1>1, <1>2, <1>3

-----------------------------------------------------------------------------
(* Loading: what each step does to the export it loads. *)

LEMMA LoadStarts ==
    ASSUME NEW i, NEW x \in Exports, NEW up, NEW held, LoadInv(i, x, up, held), up.of # i,
           ~x.marked, NEW up2, up2.of = i, up2.step = 1,
           NEW y \in Exports, y.marked = x.marked, y.inherited = x.inherited, ~y.lost,
           y.untold = x.untold, y.copies = x.copies
    PROVE  LoadInv(i, y, up2, held)
<1>1. \A j \in 1 .. 5 : Tables[j] \in TableNames /\ ~(j < 1)
  BY TableFacts
<1> QED
  BY <1>1 DEF LoadInv, Whole

LEMMA LoadGoesOn ==
    ASSUME NEW i, NEW x \in Exports, NEW up \in Uploadings, NEW held,
           LoadInv(i, x, up, held), up.of = i, up.step <= 5,
           NEW up2, up2.of = i, up2.step = up.step + 1,
           NEW y \in Exports, y.marked = x.marked, y.inherited = x.inherited,
           y.lost = x.lost, y.untold = x.untold,
           y.copies = [x.copies EXCEPT ![Tables[up.step]] =
                         IF held[Tables[up.step]] = {} THEN @ ELSE @ + 1]
    PROVE  LoadInv(i, y, up2, held)
<1> DEFINE k == up.step
<1>1. k \in 1 .. 5 /\ Tables[k] \in TableNames /\ "exports" = Tables[1] /\ 1 \in 1 .. 5
  BY TableFacts DEF Uploadings, Tables
<1>2. x.copies \in [TableNames -> Nat] /\ y.copies \in [TableNames -> Nat]
  BY DEF Exports
<1>3. /\ y.copies[Tables[k]] = IF held[Tables[k]] = {} THEN x.copies[Tables[k]]
                               ELSE x.copies[Tables[k]] + 1
      /\ \A t \in TableNames : t # Tables[k] => y.copies[t] = x.copies[t]
  BY <1>1, <1>2
<1>4. ~x.marked /\ ~Whole(x) /\ ~Whole(y)
  BY DEF LoadInv, Whole
<1>5. ASSUME ~y.lost, NEW j \in 1 .. 5, j < k + 1, held[Tables[j]] # {}
      PROVE  y.copies[Tables[j]] > 0
  <2>1. CASE j = k
    BY <1>1, <1>2, <1>3, <1>5, <2>1
  <2>2. CASE j # k
    <3>1. j < k /\ Tables[j] \in TableNames /\ Tables[j] # Tables[k]
      BY <1>1, <1>5, <2>2, TableFacts
    <3> QED
      BY <1>2, <1>3, <1>5, <3>1 DEF LoadInv
  <2> QED
    BY <2>1, <2>2
<1>6. ASSUME ~x.untold, NEW j \in 1 .. 5, j >= k + 1
      PROVE  y.copies[Tables[j]] = 0
  <2>1. j >= k /\ Tables[j] \in TableNames /\ Tables[j] # Tables[k]
    BY <1>1, <1>6, TableFacts
  <2> QED
    BY <1>3, <1>6, <2>1 DEF LoadInv
<1>7. ASSUME ~x.untold PROVE \A t \in TableNames : y.copies[t] <= 1
  <2>1. x.copies[Tables[k]] = 0
    BY <1>1, <1>7 DEF LoadInv
  <2>2. \A t \in TableNames : x.copies[t] <= 1
    BY <1>7 DEF LoadInv
  <2> QED
    BY <1>3, <2>1, <2>2
<1>8. ASSUME ~x.untold, x.lost PROVE y.copies["exports"] = 0 /\ up2.step > 1
  <2>1. x.copies["exports"] = 0 /\ k > 1
    BY <1>8 DEF LoadInv
  <2>2. "exports" # Tables[k] /\ "exports" \in TableNames
    BY <1>1, <2>1, TableFacts
  <2> QED
    BY <1>1, <1>3, <2>1, <2>2
<1> QED
  BY <1>4, <1>5, <1>6, <1>7, <1>8 DEF LoadInv

\* The views are made when every table is there.
LEMMA LoadPast ==
    ASSUME NEW i, NEW x \in Exports, NEW up \in Uploadings, NEW held,
           LoadInv(i, x, up, held), up.of = i,
           up.step > 5, NEW up2, up2.of = i, up2.step = up.step + 1
    PROVE  LoadInv(i, x, up2, held)
<1>1. up.step \in 1 .. 8
  BY DEF Uploadings
<1>2. (\A j \in 1 .. 5 : j < up.step /\ j < up2.step /\ ~(j >= up2.step)) /\ up2.step > 1
  BY <1>1
<1> QED
  BY <1>2 DEF LoadInv

LEMMA LoadIsMarked ==
    ASSUME NEW i, NEW x \in Exports, NEW up \in Uploadings, NEW held,
           LoadInv(i, x, up, held), up.of = i, up.step = 8, NEW up2, up2.of # i,
           NEW y \in Exports, y.marked, ~y.inherited,
           y.lost = x.lost, y.untold = x.untold, y.copies = x.copies
    PROVE  LoadInv(i, y, up2, held)
<1>1. ~x.lost => \A t \in TableNames : held[t] # {} => x.copies[t] > 0
  <2>1. ~x.lost => \A j \in 1 .. 5 : held[Tables[j]] # {} => x.copies[Tables[j]] > 0
    <3>1. \A j \in 1 .. 5 : j < up.step
      OBVIOUS
    <3> QED
      BY <3>1 DEF LoadInv
  <2> QED
    BY <2>1, TableFacts
<1> QED
  BY <1>1 DEF LoadInv, Whole

\* An upload that breaks off, or one made by hand, is one nobody told of.
LEMMA LoadUntold ==
    ASSUME NEW i, NEW x \in Exports, NEW up, NEW held, LoadInv(i, x, up, held),
           NEW up2, up2.of # i,
           NEW y \in Exports, y.marked = x.marked,
           y.inherited = x.inherited, y.lost = x.lost, y.untold,
           \A t \in TableNames : y.copies[t] >= x.copies[t]
    PROVE  LoadInv(i, y, up2, held)
<1>1. x.copies \in [TableNames -> Nat] /\ y.copies \in [TableNames -> Nat]
  BY DEF Exports
<1>2. Whole(y) => \A t \in TableNames : held[t] # {} => y.copies[t] > 0
  BY <1>1 DEF LoadInv, Whole
<1> QED
  BY <1>2 DEF LoadInv

\* The runs are dropped, with this one.
LEMMA LoadIsLost ==
    ASSUME NEW i, NEW x \in Exports, NEW up \in Uploadings, NEW held,
           LoadInv(i, x, up, held), x.copies["exports"] > 0,
           NEW y \in Exports, y.marked = x.marked,
           y.inherited = x.inherited, y.lost, y.untold = x.untold,
           y.copies["exports"] = 0,
           \A t \in TableNames : t # "exports" => y.copies[t] = x.copies[t]
    PROVE  LoadInv(i, y, up, held)
<1>1. /\ "exports" \in TableNames /\ x.copies["exports"] \in Nat
      /\ Tables[1] = "exports" /\ \A j \in 1 .. 5 : Tables[j] \in TableNames
      /\ up.step \in 1 .. 8
  BY TableFacts DEF Exports, Tables, Uploadings
<1>2. ~x.untold /\ up.of = i => up.step > 1
  BY <1>1 DEF LoadInv
<1>3. \A t \in TableNames : x.copies[t] = 0 => y.copies[t] = 0
  BY <1>1
<1>4. ~x.untold => \A t \in TableNames : y.copies[t] <= 1
  <2>1. ~x.untold => \A t \in TableNames : x.copies[t] <= 1
    BY DEF LoadInv
  <2> QED
    BY <2>1
<1>5. ~x.untold /\ up.of = i => \A j \in 1 .. 5 : j >= up.step => y.copies[Tables[j]] = 0
  BY <1>1, <1>3 DEF LoadInv
<1>6. ~x.untold /\ up.of # i /\ (~x.marked \/ x.inherited) =>
        \A t \in TableNames : y.copies[t] = 0
  BY <1>3 DEF LoadInv
<1>7. up.of = i => ~x.marked
  BY DEF LoadInv
<1> QED
  BY <1>2, <1>4, <1>5, <1>6, <1>7 DEF LoadInv, Whole

\* Less is held of an export.
LEMMA LoadWanes ==
    ASSUME NEW i, NEW x, NEW up, NEW held, NEW held2, LoadInv(i, x, up, held),
           \A t \in TableNames : held2[t] # {} => held[t] # {},
           NEW y, y.marked = x.marked, y.inherited = x.inherited, y.lost = x.lost,
           y.untold = x.untold, y.copies = x.copies
    PROVE  LoadInv(i, y, up, held2)
<1>1. \A j \in 1 .. 5 : Tables[j] \in TableNames
  BY TableFacts
<1> QED
  BY <1>1 DEF LoadInv, Whole


-----------------------------------------------------------------------------
(* Loading: the other exports, and the invariant. *)

\* A node's step alters one export of its own, or none, and its own upload.
LEMMA LoadingStep ==
    ASSUME OpenDataInv, NEW n \in Nodes, NEW i \in DOMAIN exports, exports[i].node = n,
           NEW y \in Exports, SameHolding(y, exports[i]),
           NEW up \in Uploadings, LoadInv(i, y, up, Held(exports[i])),
           (uploading[n].of \in {0, i} /\ up.of \in {0, i}) \/ up = uploading[n],
           exports' = [exports EXCEPT ![i] = y],
           uploading' = [uploading EXCEPT ![n] = up],
           UNCHANGED <<observed, stage, gathering, expired>>
    PROVE  OpenDataInv'
<1>1. TypeOK /\ uploading \in [Nodes -> Uploadings]
  BY DEF OpenDataInv, TypeOK
<1>2. /\ exports' \in Seq(Exports) /\ DOMAIN exports' = DOMAIN exports
      /\ exports'[i] = y
      /\ \A j \in DOMAIN exports : j # i => exports'[j] = exports[j]
  BY <1>1, Alters
<1>3. /\ uploading' \in [Nodes -> Uploadings] /\ uploading'[n] = up
      /\ \A m \in Nodes : m # n => uploading'[m] = uploading[m]
  BY <1>1
<1>4. TypeOK'
  BY <1>1, <1>2, <1>3 DEF TypeOK
<1>5. \A j \in DOMAIN exports : SameHolding(exports'[j], exports[j])
  BY <1>2 DEF SameHolding, SameContent
<1>6. \A j \in DOMAIN exports : exports'[j].node = exports[j].node
  BY <1>5 DEF SameHolding, SameContent
<1>7. ASSUME NEW j \in DOMAIN exports'
      PROVE  LoadInv(j, exports'[j], uploading'[exports'[j].node], Held(exports[j])')
  <2>0. Held(exports[j])' = Held(exports[j])
    BY <1>2, <1>5, HeldStays
  <2>1. CASE j = i
    BY <1>2, <1>3, <1>6, <2>0, <2>1
  <2>2. CASE j # i
    <3>1. j \in DOMAIN exports /\ exports'[j] = exports[j] /\ j # 0
      BY <1>1, <1>2, <2>2, ExportTypes
    <3>2. LoadInv(j, exports[j], uploading[exports[j].node], Held(exports[j])) /\ exports[j].node \in Nodes
      BY <1>1, <3>1, ExportTypes DEF OpenDataInv, Exports
    <3>3. CASE exports[j].node # n \/ up = uploading[n]
      BY <1>3, <2>0, <3>1, <3>2, <3>3
    <3>4. CASE exports[j].node = n /\ up # uploading[n]
      <4>1. uploading[n].of # j /\ uploading'[n].of # j
        BY <1>3, <2>2, <3>1, <3>4
      <4> QED
        BY <2>0, <3>1, <3>2, <3>4, <4>1 DEF LoadInv
    <3> QED
      BY <3>3, <3>4
  <2> QED
    BY <2>1, <2>2
<1>8. ASSUME NEW m \in Nodes PROVE UploadInv(m)'
  <2>1. UploadInv(m) /\ UploadInv(n)
    BY DEF OpenDataInv
  <2>2. uploading'[m].of # 0 => uploading'[m].of \in DOMAIN exports
                                /\ exports[uploading'[m].of].node = m
    BY <1>3, <2>1 DEF UploadInv
  <2> QED
    BY <1>2, <1>6, <2>2 DEF UploadInv
<1>9. Reloads
  BY <1>2, <1>5 DEF Reloads, SameHolding
<1> QED
  BY <1>2, <1>4, <1>7, <1>8, <1>9, ReloadKeeps DEF OpenDataInv

\* What the invariant says of the export a node loads.
LEMMA TheOneLoaded ==
    ASSUME OpenDataInv, NEW n \in Nodes, uploading[n].of # 0
    PROVE  LET i == uploading[n].of
           IN /\ i \in DOMAIN exports /\ exports[i] \in Exports /\ exports[i].node = n
              /\ uploading[n] \in Uploadings /\ LoadInv(i, exports[i], uploading[n], Held(exports[i]))
<1>1. UploadInv(n) /\ TypeOK
  BY DEF OpenDataInv
<1>2. uploading[n].of \in DOMAIN exports /\ exports[uploading[n].of].node = n
  BY <1>1 DEF UploadInv
<1>3. exports[uploading[n].of] \in Exports /\ uploading[n] \in Uploadings
  BY <1>1, <1>2, ExportTypes DEF TypeOK
<1> QED
  BY <1>2, <1>3 DEF OpenDataInv

\* An export nobody alters.
LEMMA Unaltered ==
    ASSUME TypeOK, NEW i \in DOMAIN exports, UNCHANGED exports
    PROVE  exports' = [exports EXCEPT ![i] = exports[i]] /\ SameHolding(exports[i], exports[i])
<1>1. exports \in Seq(Exports)
  BY DEF TypeOK
<1>2. exports \in [DOMAIN exports -> Exports]
  BY <1>1, LenProperties
<1> QED
  BY <1>2 DEF SameHolding, SameContent

LEMMA StartKeeps ==
    ASSUME OpenDataInv, NEW n \in Nodes, NEW i \in DOMAIN exports, StartUpload(n, i)
    PROVE  OpenDataInv'
<1> DEFINE x == exports[i]
           y == [x EXCEPT !.lost = FALSE]
           up == [of |-> i, step |-> 1]
<1>1. TypeOK /\ x \in Exports /\ i \in Nat /\ i # 0
  BY ExportTypes DEF OpenDataInv
<1>2. /\ uploading[n] = NoUpload /\ x.node = n /\ ~x.marked
      /\ uploading' = [uploading EXCEPT ![n] = up]
      /\ exports' = [exports EXCEPT ![i] = y]
      /\ UNCHANGED <<observed, stage, gathering, expired>>
  BY DEF StartUpload, Marked
<1>3. uploading[n].of = 0 /\ up \in Uploadings /\ up.of = i /\ up.step = 1
  BY <1>1, <1>2 DEF NoUpload, Uploadings
<1>4. LoadInv(i, x, uploading[n], Held(x))
  BY <1>2 DEF OpenDataInv
<1>5. /\ y \in Exports /\ SameHolding(y, x) /\ y.copies = x.copies /\ y.marked = x.marked
      /\ y.inherited = x.inherited /\ ~y.lost /\ y.untold = x.untold
  BY <1>1 DEF Exports, SameHolding, SameContent
<1> HIDE DEF up, y
<1>6. LoadInv(i, y, up, Held(x))
  BY <1>1, <1>2, <1>3, <1>4, <1>5, LoadStarts
<1> QED
  BY <1>1, <1>2, <1>3, <1>5, <1>6, LoadingStep

LEMMA LoadTableKeeps ==
    ASSUME OpenDataInv, NEW n \in Nodes, LoadTable(n)
    PROVE  OpenDataInv'
<1> DEFINE i == uploading[n].of
           x == exports[i]
           up == uploading[n]
           t == Tables[up.step]
           copies == [x.copies EXCEPT ![t] = IF Held(x)[t] = {} THEN @ ELSE @ + 1]
           y == [x EXCEPT !.copies = copies]
           up2 == [up EXCEPT !.step = @ + 1]
<1>1. /\ i # 0 /\ up.step <= 5
      /\ exports' = [exports EXCEPT ![i].copies[t] = IF Held(x)[t] = {} THEN @ ELSE @ + 1]
      /\ uploading' = [uploading EXCEPT ![n].step = @ + 1]
      /\ UNCHANGED <<observed, stage, gathering, expired>>
  BY TableFacts DEF LoadTable, Appended
<1>2. TypeOK /\ i \in DOMAIN exports /\ x \in Exports /\ x.node = n /\ up \in Uploadings
      /\ LoadInv(i, x, up, Held(x))
  BY <1>1, TheOneLoaded DEF OpenDataInv
<1>3. /\ exports' = [exports EXCEPT ![i] = y]
      /\ uploading' = [uploading EXCEPT ![n] = up2]
  BY <1>1
<1>4. t \in TableNames
  BY <1>1, <1>2, TableFacts DEF Uploadings
<1>5. copies \in [TableNames -> Nat]
  BY <1>2, <1>4 DEF Exports
<1>6. up2 \in Uploadings /\ up2.of = i /\ up2.step = up.step + 1
  BY <1>1, <1>2 DEF Uploadings
<1>7. copies = [x.copies EXCEPT ![Tables[up.step]] =
                  IF Held(x)[Tables[up.step]] = {} THEN @ ELSE @ + 1]
  OBVIOUS
<1> HIDE DEF copies
<1>8. /\ y \in Exports /\ SameHolding(y, x) /\ y.copies = copies /\ y.marked = x.marked
      /\ y.inherited = x.inherited /\ y.lost = x.lost /\ y.untold = x.untold
  BY <1>2, <1>5 DEF Exports, SameHolding, SameContent
<1> HIDE DEF y, up2
<1>9. LoadInv(i, y, up2, Held(x))
  <2>1. y.copies = [x.copies EXCEPT ![Tables[up.step]] =
                      IF Held(x)[Tables[up.step]] = {} THEN @ ELSE @ + 1]
    BY <1>7, <1>8
  <2>2. up.of = i /\ up.step <= 5
    BY <1>1
  <2> HIDE DEF x, up, i
  <2> QED
    BY <1>2, <1>6, <1>8, <2>1, <2>2, LoadGoesOn
<1>10. UNCHANGED <<observed, stage, gathering, expired>> /\ up.of \in {0, i} /\ up2.of \in {0, i}
  BY <1>1, <1>6
<1> QED
  BY <1>2, <1>3, <1>6, <1>8, <1>9, <1>10, LoadingStep

LEMMA ViewsKeep ==
    ASSUME OpenDataInv, NEW n \in Nodes, DropViews(n) \/ MakeViews(n)
    PROVE  OpenDataInv'
<1> DEFINE i == uploading[n].of
           up == uploading[n]
           up2 == [up EXCEPT !.step = @ + 1]
<1>1. /\ i # 0 /\ up.step \in 6 .. 7
      /\ uploading' = [uploading EXCEPT ![n] = up2]
      /\ UNCHANGED <<observed, stage, gathering, expired, exports>>
  BY TableFacts DEF DropViews, MakeViews, Going
<1>2. TypeOK /\ i \in DOMAIN exports /\ exports[i] \in Exports /\ exports[i].node = n
      /\ up \in Uploadings /\ LoadInv(i, exports[i], up, Held(exports[i]))
  BY <1>1, TheOneLoaded DEF OpenDataInv
<1>3. up2 \in Uploadings /\ up2.of = i /\ up2.step = up.step + 1
  BY <1>1, <1>2 DEF Uploadings
<1> HIDE DEF up2
<1>4. LoadInv(i, exports[i], up2, Held(exports[i]))
  BY <1>1, <1>2, <1>3, LoadPast
<1>5. exports' = [exports EXCEPT ![i] = exports[i]] /\ SameHolding(exports[i], exports[i])
  BY <1>1, <1>2, Unaltered
<1>6. UNCHANGED <<observed, stage, gathering, expired>> /\ up.of \in {0, i} /\ up2.of \in {0, i}
  BY <1>1, <1>3
<1> QED
  BY <1>1, <1>2, <1>3, <1>4, <1>5, <1>6, LoadingStep

LEMMA MarkKeeps ==
    ASSUME OpenDataInv, NEW n \in Nodes, Mark(n)
    PROVE  OpenDataInv'
<1> DEFINE i == uploading[n].of
           x == exports[i]
           y == [x EXCEPT !.marked = TRUE, !.inherited = FALSE]
<1>1. /\ i # 0 /\ uploading[n].step = 8
      /\ exports' = [exports EXCEPT ![i].marked = TRUE, ![i].inherited = FALSE]
      /\ uploading' = [uploading EXCEPT ![n] = NoUpload]
      /\ UNCHANGED <<observed, stage, gathering, expired>>
  BY TableFacts DEF Mark, Going
<1>2. TypeOK /\ i \in DOMAIN exports /\ x \in Exports /\ x.node = n
      /\ uploading[n] \in Uploadings /\ LoadInv(i, x, uploading[n], Held(x))
  BY <1>1, TheOneLoaded DEF OpenDataInv
<1>3. exports' = [exports EXCEPT ![i] = y]
  BY <1>1, <1>2
<1>4. NoUpload \in Uploadings /\ NoUpload.of = 0
  BY DEF NoUpload, Uploadings
<1>5. /\ y \in Exports /\ SameHolding(y, x) /\ y.copies = x.copies /\ y.marked
      /\ ~y.inherited /\ y.lost = x.lost /\ y.untold = x.untold
  BY <1>2 DEF Exports, SameHolding, SameContent
<1> HIDE DEF y
<1>6. LoadInv(i, y, NoUpload, Held(x))
  BY <1>1, <1>2, <1>4, <1>5, LoadIsMarked
<1> QED
  BY <1>1, <1>2, <1>3, <1>4, <1>5, <1>6, LoadingStep

LEMMA BreakOffKeeps ==
    ASSUME OpenDataInv, NEW n \in Nodes, BreakOff(n)
    PROVE  OpenDataInv'
<1> DEFINE i == uploading[n].of
           x == exports[i]
           y == [x EXCEPT !.untold = TRUE]
<1>1. /\ i # 0
      /\ exports' = [exports EXCEPT ![i] = y]
      /\ uploading' = [uploading EXCEPT ![n] = NoUpload]
      /\ UNCHANGED <<observed, stage, gathering, expired>>
  BY DEF BreakOff
<1>2. TypeOK /\ i \in DOMAIN exports /\ x \in Exports /\ x.node = n
      /\ LoadInv(i, x, uploading[n], Held(x))
  BY <1>1, TheOneLoaded DEF OpenDataInv
<1>3. NoUpload \in Uploadings /\ NoUpload.of = 0
  BY DEF NoUpload, Uploadings
<1>4. /\ y \in Exports /\ SameHolding(y, x) /\ y.copies = x.copies /\ y.marked = x.marked
      /\ y.inherited = x.inherited /\ y.lost = x.lost /\ y.untold
  BY <1>2 DEF Exports, SameHolding, SameContent
<1> HIDE DEF y
<1>5. \A t \in TableNames : y.copies[t] >= x.copies[t]
  <2>1. \A t \in TableNames : x.copies[t] \in Nat
    BY <1>2 DEF Exports
  <2> QED
    BY <1>4, <2>1
<1>6. LoadInv(i, y, NoUpload, Held(x))
  BY <1>1, <1>2, <1>3, <1>4, <1>5, LoadUntold
<1> QED
  BY <1>1, <1>2, <1>3, <1>4, <1>6, LoadingStep

LEMMA ByHandKeeps ==
    ASSUME OpenDataInv, NEW n \in Nodes, NEW i \in DOMAIN exports, LoadByHand(n, i)
    PROVE  OpenDataInv'
<1> DEFINE x == exports[i]
           copies == [t \in TableNames |-> IF Held(x)[t] = {} THEN x.copies[t] ELSE x.copies[t] + 1]
           y == [x EXCEPT !.copies = copies, !.untold = TRUE]
<1>1. TypeOK /\ x \in Exports /\ i # 0
  BY ExportTypes DEF OpenDataInv
<1>2. /\ uploading[n] = NoUpload /\ x.node = n
      /\ exports' = [exports EXCEPT
            ![i].copies = [t \in TableNames |-> Appended(exports[i], t)],
            ![i].untold = TRUE]
      /\ UNCHANGED <<observed, stage, gathering, expired, uploading>>
  BY DEF LoadByHand
<1>3. exports' = [exports EXCEPT ![i] = y]
  BY <1>1, <1>2 DEF Appended
<1>4. NoUpload.of = 0 /\ uploading[n] \in Uploadings
  BY <1>1 DEF NoUpload, TypeOK
<1>5. /\ copies \in [TableNames -> Nat]
      /\ \A t \in TableNames : copies[t] >= x.copies[t]
  BY <1>1 DEF Exports
<1> HIDE DEF copies
<1>6. /\ y \in Exports /\ SameHolding(y, x) /\ y.copies = copies /\ y.marked = x.marked
      /\ y.inherited = x.inherited /\ y.lost = x.lost /\ y.untold
  BY <1>1, <1>5 DEF Exports, SameHolding, SameContent
<1> HIDE DEF y
<1>7. LoadInv(i, x, uploading[n], Held(x))
  BY <1>2 DEF OpenDataInv
<1>8. LoadInv(i, y, uploading[n], Held(x))
  BY <1>1, <1>2, <1>4, <1>5, <1>6, <1>7, LoadUntold
<1>9. uploading' = [uploading EXCEPT ![n] = uploading[n]]
  BY <1>1, <1>2 DEF TypeOK
<1>10. UNCHANGED <<observed, stage, gathering, expired>> /\ x.node = n
  BY <1>2
<1> QED
  BY <1>1, <1>3, <1>4, <1>6, <1>8, <1>9, <1>10, LoadingStep

\* The table of the runs goes, with all that were in it.
LEMMA DropKeeps ==
    ASSUME OpenDataInv, DropRuns
    PROVE  OpenDataInv'
<1> DEFINE Gone(j) == exports[j].copies["exports"] > 0
           y(j) == [exports[j] EXCEPT !.copies["exports"] = 0, !.lost = TRUE]
<1>1. /\ exports' = [j \in DOMAIN exports |-> IF Gone(j) THEN y(j) ELSE exports[j]]
      /\ UNCHANGED <<observed, stage, gathering, expired, uploading>>
  BY DEF DropRuns
<1>2. /\ TypeOK /\ Len(exports) \in Nat /\ DOMAIN exports = 1 .. Len(exports)
      /\ \A j \in DOMAIN exports : exports[j] \in Exports
  BY ExportTypes DEF OpenDataInv
<1>3. ASSUME NEW j \in DOMAIN exports
      PROVE  /\ y(j) \in Exports /\ SameHolding(y(j), exports[j])
             /\ y(j).marked = exports[j].marked /\ y(j).inherited = exports[j].inherited
             /\ y(j).untold = exports[j].untold /\ y(j).lost
             /\ y(j).copies["exports"] = 0
             /\ \A t \in TableNames : t # "exports" => y(j).copies[t] = exports[j].copies[t]
  <2>1. exports[j] \in Exports /\ "exports" \in TableNames
        /\ exports[j].copies \in [TableNames -> Nat]
    BY <1>2, TableFacts DEF Exports
  <2>2. [exports[j].copies EXCEPT !["exports"] = 0] \in [TableNames -> Nat]
    BY <2>1
  <2>3. y(j).copies = [exports[j].copies EXCEPT !["exports"] = 0]
    BY <2>1 DEF Exports
  <2>4. y(j) \in Exports
    BY <2>1, <2>2 DEF Exports
  <2>5. SameHolding(y(j), exports[j])
    BY <2>1 DEF Exports, SameHolding, SameContent
  <2>6. /\ y(j).marked = exports[j].marked /\ y(j).inherited = exports[j].inherited
        /\ y(j).untold = exports[j].untold /\ y(j).lost
    BY <2>1 DEF Exports
  <2> QED
    BY <2>1, <2>3, <2>4, <2>5, <2>6
<1> HIDE DEF y
<1>4. \A j \in DOMAIN exports : /\ exports'[j] = IF Gone(j) THEN y(j) ELSE exports[j]
                                /\ exports'[j] \in Exports
                                /\ SameHolding(exports'[j], exports[j])
  BY <1>1, <1>2, <1>3 DEF SameHolding, SameContent
<1>5. DOMAIN exports' = DOMAIN exports /\ exports' \in Seq(Exports)
  <2>1. exports' \in [1 .. Len(exports) -> Exports]
    BY <1>1, <1>2, <1>4
  <2> QED
    BY <1>1, <1>2, <2>1, SeqDef
<1>6. TypeOK'
  BY <1>1, <1>2, <1>5 DEF TypeOK
<1>7. ASSUME NEW j \in DOMAIN exports
      PROVE  LoadInv(j, exports'[j], uploading'[exports'[j].node], Held(exports[j])')
  <2>1. /\ Held(exports[j])' = Held(exports[j]) /\ exports'[j].node = exports[j].node
        /\ uploading' = uploading
    BY <1>1, <1>4, HeldStays DEF SameHolding, SameContent
  <2>2. /\ LoadInv(j, exports[j], uploading[exports[j].node], Held(exports[j]))
        /\ exports[j] \in Exports /\ uploading[exports[j].node] \in Uploadings
    BY <1>2 DEF OpenDataInv, TypeOK, Exports
  <2>3. CASE ~Gone(j)
    BY <1>4, <2>1, <2>2, <2>3
  <2>4. CASE Gone(j)
    <3>1. LoadInv(j, y(j), uploading[exports[j].node], Held(exports[j]))
      BY <1>3, <2>2, <2>4, LoadIsLost
    <3> QED
      BY <1>4, <2>1, <2>4, <3>1
  <2> QED
    BY <2>3, <2>4
<1>8. \A n \in Nodes : UploadInv(n)'
  BY <1>1, <1>4, <1>5 DEF OpenDataInv, UploadInv, SameHolding, SameContent
<1>9. Reloads
  BY <1>1, <1>4, <1>5 DEF Reloads, SameHolding
<1> QED
  BY <1>5, <1>6, <1>7, <1>8, <1>9, ReloadKeeps DEF OpenDataInv

-----------------------------------------------------------------------------
(* Growing old. *)

\* An export is as it was, or older.
AsItWas(y, x) ==
    /\ SameContent(y, x) /\ (x.old => y.old)
    /\ y.marked = x.marked /\ y.inherited = x.inherited /\ y.lost = x.lost
    /\ y.untold = x.untold /\ y.copies = x.copies

LEMMA AgeingStep ==
    ASSUME OpenDataInv, UNCHANGED <<observed, stage, gathering, uploading>>,
           expired' \in [Nodes -> SUBSET Observations],
           \A n \in Nodes : expired[n] \subseteq expired'[n],
           exports' \in Seq(Exports), DOMAIN exports' = DOMAIN exports,
           \A j \in DOMAIN exports : AsItWas(exports'[j], exports[j])
    PROVE  OpenDataInv'
<1>1. TypeOK /\ \A j \in DOMAIN exports : exports[j].node \in Nodes
  BY ExportTypes DEF OpenDataInv, Exports
<1>2. TypeOK'
  BY <1>1 DEF TypeOK
<1>3. Reloads
  BY DEF Reloads, AsItWas
<1>4. ASSUME NEW j \in DOMAIN exports
      PROVE  LoadInv(j, exports'[j], uploading'[exports'[j].node], Held(exports[j])')
  <2>1. /\ LoadInv(j, exports[j], uploading[exports[j].node], Held(exports[j]))
        /\ AsItWas(exports'[j], exports[j]) /\ exports'[j].node = exports[j].node
        /\ uploading' = uploading
    BY DEF OpenDataInv, AsItWas, SameContent
  <2>2. \A t \in TableNames : Held(exports[j])'[t] # {} => Held(exports[j])[t] # {}
    BY <1>1, <2>1, HeldWanes DEF AsItWas
  <2> DEFINE held == Held(exports[j])
             held2 == Held(exports[j])'
             x == exports[j]
             y == exports'[j]
             up == uploading[exports[j].node]
  <2>3. LoadInv(j, x, up, held) /\ \A t \in TableNames : held2[t] # {} => held[t] # {}
    BY <2>1, <2>2
  <2>4. /\ y.marked = x.marked /\ y.inherited = x.inherited /\ y.lost = x.lost
        /\ y.untold = x.untold /\ y.copies = x.copies
    BY <2>1 DEF AsItWas
  <2>5. uploading'[exports'[j].node] = up
    BY <2>1
  <2> HIDE DEF held, held2, x, y, up
  <2>6. LoadInv(j, y, up, held2)
    BY <2>3, <2>4, LoadWanes
  <2> QED
    BY <2>5, <2>6 DEF held2, y
<1>5. \A n \in Nodes : UploadInv(n)'
  BY DEF OpenDataInv, UploadInv, AsItWas, SameContent
<1> QED
  BY <1>2, <1>3, <1>4, <1>5, ReloadKeeps DEF OpenDataInv

LEMMA AgeKeeps ==
    ASSUME OpenDataInv, NEW n \in Nodes, NEW o \in Observations, Age(n, o)
    PROVE  OpenDataInv'
<1>1. /\ expired' = [expired EXCEPT ![n] = @ \cup {o}]
      /\ UNCHANGED <<observed, stage, gathering, uploading, exports>>
  BY DEF Age
<1>2. TypeOK
  BY DEF OpenDataInv
<1>3. /\ expired' \in [Nodes -> SUBSET Observations]
      /\ \A m \in Nodes : expired[m] \subseteq expired'[m]
  BY <1>1, <1>2 DEF TypeOK
<1>4. \A j \in DOMAIN exports : AsItWas(exports'[j], exports[j])
  BY <1>1 DEF AsItWas, SameContent
<1> QED
  BY <1>1, <1>2, <1>3, <1>4, AgeingStep DEF TypeOK

LEMMA AgeExportKeeps ==
    ASSUME OpenDataInv, NEW i \in DOMAIN exports, AgeExport(i)
    PROVE  OpenDataInv'
<1> DEFINE n == exports[i].node
           before == {j \in 1 .. i : exports[j].node = n}
           seen == UNION {exports[j].signals : j \in before}
           y(j) == [exports[j] EXCEPT !.old = exports[j].old \/ j \in before]
<1>1. /\ expired' = [expired EXCEPT ![n] = @ \cup seen]
      /\ exports' = [j \in DOMAIN exports |-> y(j)]
      /\ UNCHANGED <<observed, stage, gathering, uploading>>
  BY DEF AgeExport
<1>2. /\ TypeOK /\ Len(exports) \in Nat /\ DOMAIN exports = 1 .. Len(exports)
      /\ \A j \in DOMAIN exports : exports[j] \in Exports
      /\ expired \in [Nodes -> SUBSET Observations]
  BY ExportTypes DEF OpenDataInv, TypeOK
<1>3. seen \subseteq Observations
  <2>1. \A j \in before : j \in DOMAIN exports
    BY <1>2
  <2> QED
    BY <1>2, <2>1 DEF Exports
<1>4. ASSUME NEW j \in DOMAIN exports PROVE y(j) \in Exports /\ AsItWas(y(j), exports[j])
  <2>1. exports[j] \in Exports /\ (exports[j].old \/ j \in before) \in BOOLEAN
    BY <1>2 DEF Exports
  <2> QED
    BY <2>1 DEF Exports, AsItWas, SameContent
<1> HIDE DEF y, seen
<1>5. /\ expired' \in [Nodes -> SUBSET Observations]
      /\ \A m \in Nodes : expired[m] \subseteq expired'[m]
  BY <1>1, <1>2, <1>3
<1>6. DOMAIN exports' = DOMAIN exports /\ exports' \in Seq(Exports)
  <2>1. exports' \in [1 .. Len(exports) -> Exports]
    BY <1>1, <1>2, <1>4
  <2> QED
    BY <1>1, <1>2, <2>1, SeqDef
<1> QED
  BY <1>1, <1>4, <1>5, <1>6, AgeingStep

-----------------------------------------------------------------------------
(* The nodes: what is observed, and what is gathered. *)

\* A step of the nodes touches no export and no upload.
AtTheNodes ==
    /\ UNCHANGED <<exports, uploading, expired>>
    /\ \A m \in Nodes : \A o : Seen(m, o) => Seen(m, o)'
    /\ \A m \in Nodes : stage[m] <= stage'[m]

LEMMA NodeStep ==
    ASSUME OpenDataInv, AtTheNodes,
           stage' \in [Nodes -> Nat], gathering' \in [Nodes -> Gathering],
           observed' \in [Nodes -> [Observations -> {"unseen", "live", "past"}]],
           \A n \in Nodes : GatherInv(n)'
    PROVE  OpenDataInv'
<1>1. TypeOK /\ UNCHANGED <<exports, uploading, expired>>
  BY DEF OpenDataInv, AtTheNodes
<1>2. TypeOK'
  BY <1>1 DEF TypeOK
<1>3. ASSUME NEW i \in DOMAIN exports PROVE ContentInv(exports[i])'
  <2>1. ContentInv(exports[i]) /\ exports[i].node \in Nodes
    BY <1>1, ExportTypes DEF OpenDataInv, Exports
  <2>2. OwnRows(exports[i].node, exports[i].hotspots, exports[i].neighbours)'
    <3>1. PICK x : x = exports[i]
      OBVIOUS
    <3>2. OwnRows(x.node, x.hotspots, x.neighbours)'
      BY <2>1, <3>1, OwnStays DEF ContentInv, AtTheNodes
    <3> QED
      BY <1>1, <3>1, <3>2
  <2> QED
    BY <1>1, <2>1, <2>2 DEF ContentInv, Backed
<1>4. ASSUME NEW i \in DOMAIN exports'
      PROVE  LoadInv(i, exports'[i], uploading'[exports'[i].node], Held(exports[i])')
  <2>1. Held(exports[i])' = Held(exports[i])
    BY <1>1, HeldStays DEF SameHolding, SameContent
  <2> QED
    BY <1>1, <2>1 DEF OpenDataInv
<1>5. \A n \in Nodes : UploadInv(n)'
  BY <1>1 DEF OpenDataInv, UploadInv
<1>6. AlertsInOrder'
  <2>1. \A i \in DOMAIN exports : /\ exports[i].node \in Nodes /\ exports[i].alert \in Nat
                                  /\ exports[i].alert <= stage[exports[i].node]
    BY <1>1, ExportTypes DEF OpenDataInv, AlertsInOrder, Exports
  <2>2. \A m \in Nodes : stage[m] \in Nat /\ stage'[m] \in Nat /\ stage[m] <= stage'[m]
    BY <1>1 DEF AtTheNodes, TypeOK
  <2>3. \A i \in DOMAIN exports : exports[i].alert <= stage'[exports[i].node]
    BY <2>1, <2>2
  <2> QED
    BY <1>1, <2>3 DEF OpenDataInv, AlertsInOrder
<1> QED
  BY <1>1, <1>2, <1>3, <1>4, <1>5, <1>6 DEF OpenDataInv

\* The nodes that a step leaves alone keep what they have gathered.
LEMMA OthersKeep ==
    ASSUME OpenDataInv, NEW n \in Nodes, gathering'[n] = gathering[n],
           \A m \in Nodes : \A o : Seen(m, o) => Seen(m, o)',
           \A o : observed'[n][o] = observed[n][o]
    PROVE  GatherInv(n)'
<1> DEFINE g == gathering[n]
<1>1. GatherInv(n)
  BY DEF OpenDataInv
<1>2. OwnRows(n, gathering[n].hotspots, gathering[n].neighbours)'
  <2>1. PICK s, f : s = g.hotspots /\ f = g.neighbours
    OBVIOUS
  <2>2. OwnRows(n, s, f)'
    BY <1>1, <2>1, OwnStays DEF GatherInv
  <2> QED
    BY <2>1, <2>2
<1> QED
  BY <1>1, <1>2 DEF GatherInv, Backed

LEMMA ObserveKeeps ==
    ASSUME OpenDataInv, NEW n \in Nodes, NEW o \in Observations, Observe(n, o)
    PROVE  OpenDataInv'
<1>1. /\ observed[n][o] = "unseen"
      /\ observed' = [observed EXCEPT ![n][o] = "live"]
      /\ UNCHANGED <<stage, gathering, exports, uploading, expired>>
  BY DEF Observe
<1>2. TypeOK
  BY DEF OpenDataInv
<1>3. /\ observed' \in [Nodes -> [Observations -> {"unseen", "live", "past"}]]
      /\ \A m \in Nodes : \A p : observed'[m][p] = IF m = n /\ p = o THEN "live" ELSE observed[m][p]
  BY <1>1, <1>2 DEF TypeOK
<1>4. \A m \in Nodes : \A p : Seen(m, p) => Seen(m, p)'
  BY <1>3 DEF Seen
<1>5. ASSUME NEW m \in Nodes PROVE GatherInv(m)'
  <2>1. GatherInv(m)
    BY DEF OpenDataInv
  <2>2. OwnRows(m, gathering[m].hotspots, gathering[m].neighbours)'
    <3>1. PICK s, f : s = gathering[m].hotspots /\ f = gathering[m].neighbours
      OBVIOUS
    <3>2. OwnRows(m, s, f)'
      BY <1>4, <2>1, <3>1, OwnStays DEF GatherInv
    <3> QED
      BY <1>1, <3>1, <3>2
  <2> QED
    BY <1>1, <1>3, <2>1, <2>2 DEF GatherInv, Backed
<1>6. AtTheNodes
  BY <1>1, <1>2, <1>4 DEF AtTheNodes, TypeOK
<1> QED
  BY <1>1, <1>2, <1>3, <1>5, <1>6, NodeStep DEF TypeOK

LEMMA PassKeeps ==
    ASSUME OpenDataInv, NEW n \in Nodes, NEW o \in Observations, Pass(n, o)
    PROVE  OpenDataInv'
<1> DEFINE left == IF gathering[n].at = "idle" THEN {} ELSE gathering[n].left \cup {o}
           g2 == [gathering[n] EXCEPT !.left = left]
<1>1. /\ observed[n][o] = "live"
      /\ observed' = [observed EXCEPT ![n][o] = "past"]
      /\ gathering' = [gathering EXCEPT ![n] = g2]
      /\ UNCHANGED <<stage, exports, uploading, expired>>
  BY DEF Pass
<1>2. TypeOK /\ gathering[n] \in Gathering
  BY DEF OpenDataInv, TypeOK
<1>3. /\ observed' \in [Nodes -> [Observations -> {"unseen", "live", "past"}]]
      /\ \A m \in Nodes : \A p : observed'[m][p] = IF m = n /\ p = o THEN "past" ELSE observed[m][p]
  BY <1>1, <1>2 DEF TypeOK
<1>4. \A m \in Nodes : \A p : Seen(m, p) => Seen(m, p)'
  BY <1>3 DEF Seen
<1>5. /\ g2 \in Gathering /\ g2.at = gathering[n].at /\ g2.hotspots = gathering[n].hotspots
      /\ g2.neighbours = gathering[n].neighbours /\ g2.signals = gathering[n].signals
      /\ g2.left = left
  BY <1>2 DEF Gathering
<1> HIDE DEF g2
<1>6. /\ gathering' \in [Nodes -> Gathering] /\ gathering'[n] = g2
      /\ \A m \in Nodes : m # n => gathering'[m] = gathering[m]
  BY <1>1, <1>2, <1>5 DEF TypeOK
<1>7. GatherInv(n)'
  <2>1. GatherInv(n)
    BY DEF OpenDataInv
  <2>2. OwnRows(n, gathering[n].hotspots, gathering[n].neighbours)'
    <3>1. PICK s, f : s = gathering[n].hotspots /\ f = gathering[n].neighbours
      OBVIOUS
    <3>2. OwnRows(n, s, f)'
      BY <1>4, <2>1, <3>1, OwnStays DEF GatherInv
    <3> QED
      BY <1>5, <1>6, <3>1, <3>2
  <2> QED
    BY <1>3, <1>5, <1>6, <2>1, <2>2 DEF GatherInv, Backed
<1>8. ASSUME NEW m \in Nodes, m # n PROVE GatherInv(m)'
  BY <1>3, <1>4, <1>6, <1>8, OthersKeep
<1>9. AtTheNodes
  BY <1>1, <1>2, <1>4 DEF AtTheNodes, TypeOK
<1> QED
  BY <1>1, <1>2, <1>3, <1>6, <1>7, <1>8, <1>9, NodeStep DEF TypeOK

LEMMA AdvanceKeeps ==
    ASSUME OpenDataInv, NEW n \in Nodes, Advance(n)
    PROVE  OpenDataInv'
<1>1. TypeOK /\ stage' = [stage EXCEPT ![n] = @ + 1]
      /\ UNCHANGED <<observed, gathering, exports, uploading, expired>>
  BY DEF Advance, OpenDataInv
<1>2. stage' \in [Nodes -> Nat] /\ \A m \in Nodes : stage[m] <= stage'[m]
  BY <1>1 DEF TypeOK
<1>3. \A m \in Nodes : \A o : Seen(m, o) => Seen(m, o)'
  BY <1>1 DEF Seen
<1>4. \A m \in Nodes : GatherInv(m)'
  BY <1>1, <1>3, OthersKeep
<1>5. AtTheNodes
  BY <1>1, <1>2, <1>3 DEF AtTheNodes
<1> QED
  BY <1>1, <1>2, <1>4, <1>5, NodeStep DEF TypeOK

\* An export is gathered a read at a time.
LEMMA GatheringStep ==
    ASSUME OpenDataInv, NEW n \in Nodes, NEW g \in Gathering,
           gathering' = [gathering EXCEPT ![n] = g],
           UNCHANGED <<observed, stage, exports, uploading, expired>>,
           OwnRows(n, g.hotspots, g.neighbours),
           g.at = "signals" =>
             \A spot \in g.hotspots : observed[n][spot.id] = "live" \/ spot.id \in g.left,
           g.at = "alerts" => Backed(g)
    PROVE  OpenDataInv'
<1>1. TypeOK
  BY DEF OpenDataInv
<1>2. /\ gathering' \in [Nodes -> Gathering] /\ gathering'[n] = g
      /\ \A m \in Nodes : m # n => gathering'[m] = gathering[m]
  BY <1>1 DEF TypeOK
<1>3. \A m \in Nodes : \A o : Seen(m, o) => Seen(m, o)'
  BY DEF Seen
<1>4. GatherInv(n)'
  BY <1>2 DEF GatherInv, OwnRows, Seen, Backed
<1>5. ASSUME NEW m \in Nodes, m # n PROVE GatherInv(m)'
  BY <1>2, <1>3, <1>5, OthersKeep
<1>6. AtTheNodes
  BY <1>1, <1>3 DEF AtTheNodes, TypeOK
<1> QED
  BY <1>1, <1>2, <1>4, <1>5, <1>6, NodeStep DEF TypeOK

LEMMA HotspotsAreSeen ==
    ASSUME TypeOK, NEW n \in Nodes
    PROVE  /\ Hotspots(n) \subseteq Spots
           /\ \A spot \in Hotspots(n) : observed[n][spot.id] = "live" /\ Seen(n, spot.id)
<1> SUFFICES ASSUME NEW spot \in Hotspots(n)
             PROVE  spot \in Spots /\ observed[n][spot.id] = "live" /\ Seen(n, spot.id)
  OBVIOUS
<1>1. PICK o \in Live(n) : spot = [id |-> o, corroborated |-> o = "detection"]
  BY DEF Hotspots
<1>2. o \in Observations /\ observed[n][o] = "live"
  BY DEF Live
<1>3. spot.id = o /\ spot \in Spots
  BY <1>1, <1>2 DEF Spots
<1> QED
  BY <1>2, <1>3 DEF Seen

\* What is taken of a feed is its node's, and that is another.
LEMMA FeedsAreOwn ==
    ASSUME TypeOK, NEW n \in Nodes, NEW server \in Nodes, NEW answer,
           NEW feed, feed = FetchNeighbour(n, server, answer, Hotspots(server)), feed # Unread
    PROVE  LET row == [node |-> feed.node, hotspots |-> feed.hotspots]
           IN row \in Feeds /\ OwnRows(n, {}, {row})
<1> DEFINE row == [node |-> feed.node, hotspots |-> feed.hotspots]
           spots == {FeedHotspot(server, spot) : spot \in Hotspots(server)}
<1>1. /\ feed = Validated(Publish(server, Hotspots(server)), answer)
      /\ feed.node.nodeId # NodeId[n]
  BY DEF FetchNeighbour
<1>2. feed.node = Identity(server) /\ feed.hotspots = spots
  BY <1>1 DEF Validated, Publish
<1>3. Identity(server) = [nodeId |-> NodeId[server], country |-> Country[server]]
  BY DEF Identity
<1>4. ASSUME NEW row2 \in spots
      PROVE  /\ row2 \in [hotspotId : Observations, nodeId : NodeIds, corroborated : BOOLEAN]
             /\ row2.nodeId = NodeId[server] /\ Seen(server, row2.hotspotId)
  <2>1. PICK spot \in Hotspots(server) : row2 = FeedHotspot(server, spot)
    OBVIOUS
  <2>2. spot \in Spots /\ Seen(server, spot.id)
    BY HotspotsAreSeen
  <2> QED
    BY <2>1, <2>2 DEF FeedHotspot, Spots, NodeIds
<1> HIDE DEF spots
<1>5. row \in Feeds
  <2>1. row.node = Identity(server) /\ row.hotspots = spots
    BY <1>2
  <2>2. Identity(server) \in [nodeId : NodeIds, country : {Country[m] : m \in Nodes}]
    BY <1>3 DEF NodeIds
  <2>3. spots \in SUBSET [hotspotId : Observations, nodeId : NodeIds, corroborated : BOOLEAN]
    BY <1>4
  <2> QED
    BY <2>1, <2>2, <2>3, <1>2 DEF Feeds
<1>6. OwnRows(n, {}, {row})
  <2>1. NodeId[server] # NodeId[n]
    BY <1>1, <1>2, <1>3
  <2> QED
    BY <1>2, <1>4, <2>1 DEF OwnRows
<1> QED
  BY <1>5, <1>6

LEMMA BeginKeeps ==
    ASSUME OpenDataInv, NEW n \in Nodes, Begin(n)
    PROVE  OpenDataInv'
<1> DEFINE g == gathering[n]
           g2 == [g EXCEPT !.at = "neighbours"]
<1>1. gathering' = [gathering EXCEPT ![n] = g2] /\ UNCHANGED <<observed, stage, exports, uploading, expired>>
  BY DEF Begin
<1>2. g \in Gathering /\ OwnRows(n, g.hotspots, g.neighbours)
  BY DEF OpenDataInv, TypeOK, GatherInv
<1>3. /\ g2 \in Gathering /\ g2.at = "neighbours"
      /\ g2.hotspots = g.hotspots /\ g2.neighbours = g.neighbours
  BY <1>2 DEF Gathering
<1> HIDE DEF g2
<1> QED
  BY <1>1, <1>2, <1>3, GatheringStep

LEMMA ReadNeighbourKeeps ==
    ASSUME OpenDataInv, NEW n \in Nodes, ReadNeighbour(n)
    PROVE  OpenDataInv'
<1> DEFINE g == gathering[n]
           server == NeighbourFeeds[n][g.next]
<1>1. /\ g.at = "neighbours" /\ g.next <= Len(NeighbourFeeds[n])
      /\ UNCHANGED <<observed, stage, exports, uploading, expired>>
  BY DEF ReadNeighbour
<1>2. TypeOK /\ g \in Gathering /\ OwnRows(n, g.hotspots, g.neighbours)
  BY DEF OpenDataInv, TypeOK, GatherInv
<1>3. server \in Nodes
  <2>1. NeighbourFeeds[n] \in Seq(Nodes)
    BY FederationAssumption
  <2>2. g.next \in 1 .. Len(NeighbourFeeds[n])
    BY <1>1, <1>2, <2>1, LenProperties DEF Gathering
  <2> QED
    BY <2>1, <2>2, ElementOfSeq
<1>4. PICK answer \in Answers :
        LET feed == FetchNeighbour(n, server, answer, Hotspots(server))
            read == IF feed = Unread THEN {} ELSE {[node |-> feed.node, hotspots |-> feed.hotspots]}
        IN gathering' = [gathering EXCEPT ![n].next = @ + 1, ![n].neighbours = @ \cup read]
  BY DEF ReadNeighbour
<1> DEFINE feed == FetchNeighbour(n, server, answer, Hotspots(server))
           read == IF feed = Unread THEN {} ELSE {[node |-> feed.node, hotspots |-> feed.hotspots]}
           g2 == [g EXCEPT !.next = @ + 1, !.neighbours = @ \cup read]
<1>5. gathering' = [gathering EXCEPT ![n] = g2]
  BY <1>2, <1>4 DEF TypeOK
<1>6. read \subseteq Feeds /\ OwnRows(n, {}, read)
  <2>1. CASE feed = Unread
    BY <2>1 DEF OwnRows
  <2>2. CASE feed # Unread
    BY <1>2, <1>3, <2>2, FeedsAreOwn
  <2> QED
    BY <2>1, <2>2
<1> HIDE DEF server, feed, read
<1>7. /\ g2 \in Gathering /\ g2.at = "neighbours"
      /\ g2.hotspots = g.hotspots /\ g2.neighbours = g.neighbours \cup read
  <2>1. g.next \in Nat \ {0} /\ g.next + 1 \in Nat \ {0} /\ g.neighbours \cup read \in SUBSET Feeds
    BY <1>2, <1>6 DEF Gathering
  <2> QED
    BY <1>1, <1>2, <2>1 DEF Gathering
<1> HIDE DEF g2
<1>8. OwnRows(n, g2.hotspots, g2.neighbours)
  BY <1>2, <1>6, <1>7 DEF OwnRows
<1> QED
  BY <1>1, <1>5, <1>7, <1>8, GatheringStep

LEMMA ReadHotspotsKeeps ==
    ASSUME OpenDataInv, NEW n \in Nodes, ReadHotspots(n)
    PROVE  OpenDataInv'
<1> DEFINE g == gathering[n]
           g2 == [g EXCEPT !.at = "signals", !.hotspots = Hotspots(n), !.left = {}]
<1>1. gathering' = [gathering EXCEPT ![n] = g2] /\ UNCHANGED <<observed, stage, exports, uploading, expired>>
  BY DEF ReadHotspots
<1>2. TypeOK /\ g \in Gathering /\ OwnRows(n, g.hotspots, g.neighbours)
  BY DEF OpenDataInv, TypeOK, GatherInv
<1>3. /\ Hotspots(n) \subseteq Spots
      /\ \A spot \in Hotspots(n) : observed[n][spot.id] = "live" /\ Seen(n, spot.id)
  BY <1>2, HotspotsAreSeen
<1>4. /\ g2 \in Gathering /\ g2.at = "signals"
      /\ g2.hotspots = Hotspots(n) /\ g2.neighbours = g.neighbours
  BY <1>2, <1>3 DEF Gathering
<1> HIDE DEF g2
<1>5. OwnRows(n, g2.hotspots, g2.neighbours)
  BY <1>2, <1>3, <1>4 DEF OwnRows
<1> QED
  BY <1>1, <1>3, <1>4, <1>5, GatheringStep

LEMMA ReadSignalsKeeps ==
    ASSUME OpenDataInv, NEW n \in Nodes, ReadSignals(n)
    PROVE  OpenDataInv'
<1> DEFINE g == gathering[n]
           g2 == [g EXCEPT !.at = "alerts", !.signals = AllSignals(n)]
<1>1. /\ g.at = "signals" /\ gathering' = [gathering EXCEPT ![n] = g2]
      /\ UNCHANGED <<observed, stage, exports, uploading, expired>>
  BY DEF ReadSignals
<1>2. /\ TypeOK /\ g \in Gathering /\ OwnRows(n, g.hotspots, g.neighbours)
      /\ \A spot \in g.hotspots : observed[n][spot.id] = "live" \/ spot.id \in g.left
  BY <1>1 DEF OpenDataInv, TypeOK, GatherInv
<1>3. AllSignals(n) \subseteq Observations
  BY DEF AllSignals, Live
<1>4. /\ g2 \in Gathering /\ g2.at = "alerts" /\ g2.signals = AllSignals(n)
      /\ g2.hotspots = g.hotspots /\ g2.neighbours = g.neighbours /\ g2.left = g.left
  BY <1>2, <1>3 DEF Gathering
<1> HIDE DEF g2
<1>5. Backed(g2)
  <2> SUFFICES ASSUME NEW spot \in g.hotspots
               PROVE  spot.id \in AllSignals(n) \/ (spot.id = "report" /\ spot.id \in g.left)
    BY <1>4 DEF Backed
  <2>1. spot.id \in {"report", "detection"} /\ observed[n][spot.id] # "unseen"
    BY <1>2 DEF Gathering, Spots, Observations, OwnRows, Seen
  <2>2. CASE spot.id = "detection"
    BY <2>1, <2>2 DEF AllSignals, Observations
  <2>3. CASE spot.id = "report"
    BY <1>2, <2>1, <2>3 DEF AllSignals, Live, Observations
  <2> QED
    BY <2>1, <2>2, <2>3
<1> QED
  BY <1>1, <1>2, <1>4, <1>5, GatheringStep

-----------------------------------------------------------------------------
(* A directory is written. *)

\* The new export is the last, and has what its node gathered and none of its rows
\* loaded; of the others at most the directory of one is gone.
LEMMA WriteKeeps ==
    ASSUME OpenDataInv, NEW n \in Nodes, Write(n)
    PROVE  OpenDataInv'
<1> DEFINE g == gathering[n]
           none == [t \in TableNames |-> 0]
           New(m) == [node |-> n, hotspots |-> g.hotspots, signals |-> g.signals,
                      neighbours |-> g.neighbours, alert |-> stage[n], left |-> g.left,
                      marked |-> m, inherited |-> m, gone |-> FALSE, copies |-> none,
                      untold |-> FALSE, lost |-> FALSE, old |-> FALSE]
           last == Len(exports) + 1
<1>1. /\ TypeOK /\ g \in Gathering /\ g.at = "alerts" /\ stage[n] \in Nat
      /\ gathering' = [gathering EXCEPT ![n] = Nothing]
      /\ UNCHANGED <<observed, stage, uploading, expired>>
  BY DEF OpenDataInv, TypeOK, Write
<1>2. PICK old, m : /\ exports' = Append(old, New(m))
                    /\ \/ old = exports /\ m = FALSE
                       \/ \E i \in DOMAIN exports :
                            /\ old = [exports EXCEPT ![i].gone = TRUE]
                            /\ m = exports[i].marked
  BY DEF Write
<1>3. /\ \A i \in DOMAIN exports : exports[i] \in Exports
      /\ Len(exports) \in Nat /\ DOMAIN exports = 1 .. Len(exports)
      /\ exports \in Seq(Exports)
  BY <1>1, ExportTypes DEF TypeOK
<1>4. m \in BOOLEAN
  BY <1>2, <1>3 DEF Exports
<1>5. /\ New(m) \in Exports /\ New(m).node = n
      /\ New(m).hotspots = g.hotspots /\ New(m).signals = g.signals
      /\ New(m).neighbours = g.neighbours /\ New(m).alert = stage[n] /\ New(m).left = g.left
      /\ New(m).marked = m /\ New(m).inherited = m /\ ~New(m).lost /\ ~New(m).untold
      /\ \A t \in TableNames : New(m).copies[t] = 0
  BY <1>1, <1>4 DEF Exports, Gathering
<1>6. PICK y : y = New(m)
  OBVIOUS
<1> HIDE DEF New, none
\* Of an earlier export only its directory may be gone.
<1> DEFINE Same(x, z) ==
             /\ SameHolding(x, z) /\ x.copies = z.copies
             /\ x.marked = z.marked /\ x.inherited = z.inherited
             /\ x.untold = z.untold /\ x.lost = z.lost
<1>7. /\ old \in Seq(Exports) /\ Len(old) = Len(exports)
      /\ \A j \in DOMAIN exports : Same(old[j], exports[j])
  <2>1. CASE old = exports
    BY <1>3, <2>1 DEF SameHolding, SameContent
  <2>2. CASE \E i \in DOMAIN exports : old = [exports EXCEPT ![i].gone = TRUE]
    <3>1. PICK i \in DOMAIN exports : old = [exports EXCEPT ![i].gone = TRUE]
      BY <2>2
    <3> DEFINE z == [exports[i] EXCEPT !.gone = TRUE]
    <3>2. z \in Exports /\ Same(z, exports[i])
      BY <1>3 DEF Exports, SameHolding, SameContent
    <3>3. old = [exports EXCEPT ![i] = z]
      BY <3>1
    <3> HIDE DEF z
    <3>4. /\ old \in Seq(Exports) /\ Len(old) = Len(exports)
          /\ \A j \in 1 .. Len(exports) : old[j] = IF j = i THEN z ELSE exports[j]
      BY <1>3, <3>2, <3>3, ExceptSeq
    <3>5. ASSUME NEW j \in DOMAIN exports PROVE Same(old[j], exports[j])
      <4>1. CASE j = i
        BY <1>3, <3>2, <3>4, <4>1
      <4>2. CASE j # i
        BY <1>3, <3>4, <4>2 DEF SameHolding, SameContent
      <4> QED
        BY <4>1, <4>2
    <3> QED
      BY <3>4, <3>5
  <2> QED
    BY <1>2, <2>1, <2>2
<1>8. /\ exports' \in Seq(Exports) /\ DOMAIN exports' = DOMAIN exports \cup {last}
      /\ last \notin DOMAIN exports /\ \A j \in DOMAIN exports : j < last
      /\ exports'[last] = y
      /\ \A j \in DOMAIN exports : exports'[j] = old[j]
  <2>1. /\ exports' \in Seq(Exports) /\ Len(exports') = Len(old) + 1
        /\ exports'[Len(old) + 1] = y
        /\ \A j \in 1 .. Len(old) : exports'[j] = old[j]
    BY <1>2, <1>5, <1>6, <1>7, AppendProperties
  <2>2. DOMAIN exports' = 1 .. Len(exports')
    BY <2>1, LenProperties
  <2> QED
    BY <1>3, <1>7, <2>1, <2>2
<1>9. /\ gathering' \in [Nodes -> Gathering] /\ gathering'[n] = Nothing
      /\ \A p \in Nodes : p # n => gathering'[p] = gathering[p]
  BY <1>1 DEF TypeOK, Nothing, Gathering
<1>10. TypeOK'
  BY <1>1, <1>8, <1>9 DEF TypeOK
<1>11. ASSUME NEW p \in Nodes PROVE GatherInv(p)' /\ UploadInv(p)'
  <2>1. ASSUME p = n PROVE GatherInv(p)'
    <3>1. gathering'[p].at = "idle" /\ gathering'[p].hotspots = {} /\ gathering'[p].neighbours = {}
      BY <1>9, <2>1 DEF Nothing
    <3> QED
      BY <3>1 DEF GatherInv, OwnRows
  <2>2. ASSUME p # n PROVE GatherInv(p)'
    <3>1. gathering'[p] = gathering[p] /\ observed' = observed
      BY <1>1, <1>9, <2>2
    <3> QED
      BY <3>1, OthersKeep DEF Seen
  <2>3. GatherInv(p)'
    BY <2>1, <2>2
  <2>4. UploadInv(p)'
    <3>1. UploadInv(p)
      BY DEF OpenDataInv
    <3> QED
      BY <1>1, <1>7, <1>8, <3>1 DEF UploadInv, SameHolding, SameContent
  <2> QED
    BY <2>3, <2>4
<1>12. ASSUME NEW j \in DOMAIN exports' PROVE ContentInv(exports[j])'
  <2>1. CASE j = last
    <3>1. OwnRows(n, g.hotspots, g.neighbours) /\ Backed(g)
      BY <1>1 DEF OpenDataInv, GatherInv
    <3> QED
      BY <1>1, <1>5, <1>6, <1>8, <2>1, <3>1 DEF ContentInv, OwnRows, Seen, Backed
  <2>2. CASE j # last
    <3>1. j \in DOMAIN exports /\ SameContent(exports'[j], exports[j]) /\ ContentInv(exports[j])
      BY <1>7, <1>8, <2>2 DEF OpenDataInv, SameHolding
    <3> QED
      BY <1>1, <3>1 DEF ContentInv, SameContent, OwnRows, Seen, Backed
  <2> QED
    BY <2>1, <2>2
<1>13. ASSUME NEW j \in DOMAIN exports'
       PROVE  LoadInv(j, exports'[j], uploading'[exports'[j].node], Held(exports[j])')
  <2>1. CASE j = last
    <3>1. UploadInv(n) /\ last # 0
      BY <1>3 DEF OpenDataInv
    <3>2. uploading[n].of # last
      BY <1>8, <3>1 DEF UploadInv
    <3> QED
      BY <1>1, <1>5, <1>6, <1>8, <2>1, <3>2 DEF LoadInv, Whole
  <2>2. CASE j # last
    <3>1. /\ j \in DOMAIN exports /\ exports'[j] = old[j]
          /\ SameHolding(old[j], exports[j])
          /\ LoadInv(j, exports[j], uploading[exports[j].node], Held(exports[j]))
      BY <1>7, <1>8, <2>2 DEF OpenDataInv
    <3>2. Held(exports[j])' = Held(exports[j]) /\ old[j].node = exports[j].node
      BY <1>1, <3>1, HeldStays DEF SameHolding, SameContent
    <3> QED
      BY <1>1, <1>7, <3>1, <3>2 DEF LoadInv, Whole
  <2> QED
    BY <2>1, <2>2
<1>14. AlertsInOrder'
  <2>1. \A j \in DOMAIN exports : /\ exports'[j].node = exports[j].node
                                  /\ exports'[j].alert = exports[j].alert
    BY <1>7, <1>8 DEF SameHolding, SameContent
  <2>2. exports'[last].node = n /\ exports'[last].alert = stage[n]
    BY <1>5, <1>6, <1>8
  <2>3. AlertsInOrder /\ stage' = stage /\ stage[n] <= stage[n]
    BY <1>1 DEF OpenDataInv
  <2>4. \A j \in DOMAIN exports' : exports'[j].alert <= stage'[exports'[j].node]
    BY <1>8, <2>1, <2>2, <2>3 DEF AlertsInOrder
  <2>5. ASSUME NEW i \in DOMAIN exports', NEW j \in DOMAIN exports', i <= j,
               exports'[i].node = exports'[j].node
        PROVE  exports'[i].alert <= exports'[j].alert
    <3>1. CASE i \in DOMAIN exports /\ j \in DOMAIN exports
      BY <2>1, <2>3, <2>5, <3>1 DEF AlertsInOrder
    <3>2. CASE j = last
      BY <1>8, <2>2, <2>3, <2>4, <2>5, <3>2
    <3>3. ~(i = last /\ j \in DOMAIN exports)
      BY <1>3, <1>8, <2>5
    <3> QED
      BY <1>8, <3>1, <3>2, <3>3
  <2> QED
    BY <2>4, <2>5 DEF AlertsInOrder
<1> QED
  BY <1>10, <1>11, <1>12, <1>13, <1>14 DEF OpenDataInv

-----------------------------------------------------------------------------
(* The theorems. *)

LEMMA OpenDataInitially == Init => OpenDataInv
<1> SUFFICES ASSUME Init PROVE OpenDataInv
  OBVIOUS
<1>1. /\ DOMAIN exports = {} /\ exports \in Seq(Exports)
      /\ observed = [n \in Nodes |-> [o \in Observations |-> "unseen"]]
      /\ stage = [n \in Nodes |-> 0] /\ expired = [n \in Nodes |-> {}]
      /\ gathering = [n \in Nodes |-> Nothing] /\ uploading = [n \in Nodes |-> NoUpload]
  BY EmptySeq DEF Init
<1>2. Nothing \in Gathering /\ NoUpload \in Uploadings /\ NoUpload.of = 0
  BY DEF Nothing, Gathering, NoUpload, Uploadings
<1>3. TypeOK
  BY <1>1, <1>2 DEF TypeOK
<1>4. ASSUME NEW n \in Nodes PROVE GatherInv(n) /\ UploadInv(n)
  <2>1. gathering[n] = Nothing /\ uploading[n] = NoUpload
    BY <1>1
  <2>2. GatherInv(n)
    BY <2>1 DEF GatherInv, OwnRows, Nothing
  <2>3. UploadInv(n)
    BY <1>2, <2>1 DEF UploadInv
  <2> QED
    BY <2>2, <2>3
<1>5. AlertsInOrder
  BY <1>1 DEF AlertsInOrder
<1> QED
  BY <1>1, <1>3, <1>4, <1>5 DEF OpenDataInv

LEMMA OpenDataStep == OpenDataInv /\ [Next]_vars => OpenDataInv'
<1> SUFFICES ASSUME OpenDataInv, [Next]_vars PROVE OpenDataInv'
  OBVIOUS
<1>1. ASSUME NEW n \in Nodes, NEW o \in Observations, Observe(n, o) \/ Pass(n, o) \/ Age(n, o)
      PROVE  OpenDataInv'
  BY <1>1, ObserveKeeps, PassKeeps, AgeKeeps
<1>2. ASSUME NEW n \in Nodes,
             \/ Advance(n)
             \/ Begin(n) \/ ReadNeighbour(n) \/ ReadHotspots(n) \/ ReadSignals(n) \/ Write(n)
      PROVE  OpenDataInv'
  BY <1>2, AdvanceKeeps, BeginKeeps, ReadNeighbourKeeps, ReadHotspotsKeeps, ReadSignalsKeeps,
     WriteKeeps
<1>3. ASSUME NEW n \in Nodes,
             LoadTable(n) \/ DropViews(n) \/ MakeViews(n) \/ Mark(n) \/ BreakOff(n)
      PROVE  OpenDataInv'
  BY <1>3, LoadTableKeeps, ViewsKeep, MarkKeeps, BreakOffKeeps
<1>4. ASSUME NEW n \in Nodes, NEW i \in DOMAIN exports, StartUpload(n, i) \/ LoadByHand(n, i)
      PROVE  OpenDataInv'
  BY <1>4, StartKeeps, ByHandKeeps
<1>5. ASSUME NEW i \in DOMAIN exports, AgeExport(i) PROVE OpenDataInv'
  BY <1>5, AgeExportKeeps
<1>6. CASE DropRuns
  BY <1>6, DropKeeps
<1>7. CASE UNCHANGED vars
  <2>1. /\ UNCHANGED <<observed, stage, gathering, uploading, expired, exports>> /\ TypeOK
        /\ \A j \in DOMAIN exports : AsItWas(exports'[j], exports[j])
    BY <1>7 DEF vars, AsItWas, SameContent, OpenDataInv
  <2> QED
    BY <2>1, AgeingStep DEF TypeOK
<1> QED
  BY <1>1, <1>2, <1>3, <1>4, <1>5, <1>6, <1>7 DEF Next

\* export.collect, write and upload: what the gathering, the directory and the
\* dataset have of a run agree, whatever broke off and in whatever order.
THEOREM OpenDataInductive == Spec => []OpenDataInv
<1>1. Init => OpenDataInv
  BY OpenDataInitially
<1>2. OpenDataInv /\ [Next]_vars => OpenDataInv'
  BY OpenDataStep
<1> QED
  BY <1>1, <1>2, PTL DEF Spec

\* fetch_neighbour and neighbour_hotspot_rows: along no chain of feeds, however long
\* and whatever comes back, is a detection passed on as another node's.
THEOREM FeedsAreHonest == Spec => []DetectionsAreTheirOwn
<1>1. OpenDataInv => DetectionsAreTheirOwn
  <2> SUFFICES ASSUME OpenDataInv, NEW i \in DOMAIN exports
               PROVE  LET x == exports[i]
                          Detected(id, o) == \E m \in Nodes : NodeId[m] = id /\ observed[m][o] # "unseen"
                      IN /\ \A o \in HotspotRows(x) : observed[x.node][o] # "unseen"
                         /\ \A row \in NeighbourRows(x) :
                              row[1] # NodeId[x.node] /\ Detected(row[1], row[2])
    BY DEF DetectionsAreTheirOwn
  <2>1. OwnRows(exports[i].node, exports[i].hotspots, exports[i].neighbours)
    BY DEF OpenDataInv, ContentInv
  <2>2. \A o \in HotspotRows(exports[i]) : observed[exports[i].node][o] # "unseen"
    BY <2>1 DEF HotspotRows, OwnRows, Seen
  <2>3. ASSUME NEW row \in NeighbourRows(exports[i])
        PROVE  /\ row[1] # NodeId[exports[i].node]
               /\ \E m \in Nodes : NodeId[m] = row[1] /\ observed[m][row[2]] # "unseen"
    <3>1. PICK feed \in exports[i].neighbours :
            \E spot \in feed.hotspots : row = <<spot.nodeId, spot.hotspotId>>
      BY DEF NeighbourRows
    <3> QED
      BY <2>1, <3>1 DEF OwnRows, Seen
  <2> QED
    BY <2>2, <2>3
<1> QED
  BY <1>1, OpenDataInductive, PTL

\* _all_signals: a hotspot without its signal is a report that was taken back
\* between the two reads, and nothing else is.
THEOREM SignalsAreThere == Spec => []SignalsBackTheMap
<1>1. OpenDataInv => SignalsBackTheMap
  <2> SUFFICES ASSUME OpenDataInv, NEW i \in DOMAIN exports,
                      NEW o \in HotspotRows(exports[i])
                                  \ {row.signal : row \in SignalRows(exports[i])}
               PROVE  o = "report" /\ o \in exports[i].left
    BY DEF SignalsBackTheMap
  <2>1. Backed(exports[i])
    BY DEF OpenDataInv, ContentInv
  <2>2. PICK spot \in exports[i].hotspots : o = spot.id
    BY DEF HotspotRows
  <2>3. o \notin exports[i].signals
    <3>1. \A s \in exports[i].signals : SignalRow(s) \in SignalRows(exports[i]) /\ SignalRow(s).signal = s
      BY DEF SignalRows, SignalRow
    <3> QED
      BY <3>1
  <2> QED
    BY <2>1, <2>2, <2>3 DEF Backed
<1> QED
  BY <1>1, OpenDataInductive, PTL

\* upload: the mark it leaves is worth what it says, and no row is there twice that
\* the code could know of.
THEOREM MarksAreWorthIt == Spec => []UploadsAreWhole
<1>1. OpenDataInv => UploadsAreWhole
  BY DEF OpenDataInv, LoadInv, Whole, UploadsAreWhole
<1> QED
  BY <1>1, OpenDataInductive, PTL

\* VIEWS: if no two nodes go by one name, the current views are those of the newest
\* run that is there, in whatever order the runs were loaded.
DistinctIds == \A m, n \in Nodes : NodeId[m] = NodeId[n] => m = n

THEOREM NewestIsCurrent ==
    ASSUME DistinctIds
    PROVE  Spec => []CurrentIsTheNewest
<1>1. OpenDataInv => CurrentIsTheNewest
  <2> SUFFICES ASSUME OpenDataInv, NEW n \in Nodes
               PROVE  /\ \A i \in LatestExport(n) :
                           LET x == exports[i]
                           IN x.marked /\ ~x.untold =>
                                /\ ~x.old => HotspotsCurrent(n) = [row \in HotspotRows(x) |-> 1]
                                /\ \A j \in DOMAIN exports :
                                     /\ exports[j].node = n /\ exports[j].marked
                                     /\ ~exports[j].inherited /\ ~exports[j].lost
                                     => j <= i
                      /\ \A i \in DOMAIN exports :
                           /\ exports[i].node = n /\ ~exports[i].old
                           /\ exports[i].copies["alerts"] > 0
                           => exports[i].alert <= AlertsCurrent(n)
    BY DEF CurrentIsTheNewest
  <2>1. /\ TypeOK /\ Len(exports) \in Nat /\ DOMAIN exports = 1 .. Len(exports)
        /\ \A i \in DOMAIN exports : exports[i] \in Exports
        /\ \A i \in DOMAIN exports : LoadInv(i, exports[i], uploading[exports[i].node], Held(exports[i]))
    BY ExportTypes DEF OpenDataInv
  <2>2. {"exports", "alerts", "hotspots"} \subseteq TableNames
    BY TableFacts
  <2> DEFINE Loaded(t) == {i \in DOMAIN exports : /\ NodeId[exports[i].node] = NodeId[n]
                                                  /\ exports[i].copies[t] > 0}
  <2>3. ASSUME NEW i \in LatestExport(n), exports[i].marked, ~exports[i].untold
        PROVE  /\ ~exports[i].old => HotspotsCurrent(n) = [row \in HotspotRows(exports[i]) |-> 1]
               /\ \A j \in DOMAIN exports :
                    /\ exports[j].node = n /\ exports[j].marked
                    /\ ~exports[j].inherited /\ ~exports[j].lost
                    => j <= i
    <3> DEFINE x == exports[i]
               S == Loaded("exports")
    <3>1. S # {} /\ LatestExport(n) = {i} /\ i = Newest(S)
      BY DEF LatestExport
    <3>2. i \in S /\ \A j \in S : j <= i
      BY <2>1, <3>1, NewestIsLast
    <3>3. /\ x \in Exports /\ x.copies["exports"] > 0
          /\ LoadInv(i, x, uploading[x.node], Held(x))
          /\ x.copies["exports"] \in Nat
      BY <2>1, <2>2, <3>2 DEF Exports
    <3>4. Whole(x) /\ \A t \in TableNames : x.copies[t] <= 1
      <4> DEFINE up == uploading[x.node]
                 held == Held(x)
      <4>1. x.marked /\ ~x.untold /\ "exports" \in TableNames /\ ~(x.copies["exports"] = 0)
        BY <2>2, <2>3, <3>3
      <4>2. LoadInv(i, x, up, held)
        BY <3>3
      <4> HIDE DEF x, up, held
      <4> QED
        BY <4>1, <4>2 DEF LoadInv, Whole
    <3>5. Held(x).hotspots # {} => x.copies["hotspots"] = 1
      <4>1. Held(x)["hotspots"] = Held(x).hotspots
        OBVIOUS
      <4>2. x.copies["hotspots"] \in Nat
        BY <2>2, <3>3 DEF Exports
      <4> QED
        BY <2>2, <3>3, <3>4, <4>1, <4>2 DEF LoadInv
    <3>6. ~x.old => HotspotsCurrent(n) = [row \in HotspotRows(x) |-> 1]
      <4>1. UNION {Held(exports[j]).hotspots : j \in LatestExport(n)} = Held(x).hotspots
        BY <3>1
      <4>2. (CHOOSE j \in LatestExport(n) : TRUE) = i
        BY <3>1
      <4>3. HotspotsCurrent(n) = [row \in Held(x).hotspots |-> x.copies["hotspots"]]
        BY <4>1, <4>2 DEF HotspotsCurrent
      <4>4. ~x.old => Held(x).hotspots = HotspotRows(x)
        BY DEF Held
      <4> QED
        BY <3>5, <4>3, <4>4
    <3>7. ASSUME NEW j \in DOMAIN exports, exports[j].node = n, exports[j].marked,
                 ~exports[j].inherited, ~exports[j].lost
          PROVE  j <= i
      <4>1. Held(exports[j])["exports"] # {}
        BY DEF Held, ExportRows
      <4>2. exports[j].copies["exports"] > 0
        BY <2>1, <2>2, <3>7, <4>1 DEF LoadInv, Whole
      <4> QED
        BY <3>2, <3>7, <4>2
    <3> QED
      BY <3>6, <3>7
  <2>4. ASSUME NEW i \in DOMAIN exports, exports[i].node = n, ~exports[i].old,
               exports[i].copies["alerts"] > 0
        PROVE  exports[i].alert <= AlertsCurrent(n)
    <3> DEFINE S == {j \in Loaded("alerts") : ~exports[j].old}
    <3>1. i \in S /\ AlertsCurrent(n) = exports[Newest(S)].alert
      BY <2>4 DEF AlertsCurrent
    <3>2. Newest(S) \in S /\ i <= Newest(S)
      BY <2>1, <3>1, NewestIsLast
    <3>3. Newest(S) \in DOMAIN exports /\ exports[Newest(S)].node = n
      BY <2>1, <3>2 DEF DistinctIds, Exports
    <3> QED
      BY <2>4, <3>1, <3>2, <3>3 DEF OpenDataInv, AlertsInOrder
  <2> QED
    BY <2>3, <2>4
<1> QED
  BY <1>1, OpenDataInductive, PTL
=============================================================================
