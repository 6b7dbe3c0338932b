------------------------------ MODULE OpenData ------------------------------
(***************************************************************************)
(* export.py and scripts/export_bigquery.py, on a network of nodes that    *)
(* read one another's feeds and load their exports into one dataset.  An   *)
(* export is gathered by a process of its own while the node goes on, read *)
(* by read; it is written to a directory, and an upload loads the tables   *)
(* one by one, makes the views again, and then leaves a mark that says     *)
(* where the directory was loaded.  An upload may break off anywhere, and  *)
(* be asked for again; directories may be loaded in any order and written  *)
(* over.  The dataset keeps nothing for longer than sixty days: not the    *)
(* partition of a day that long ago, whose rows a load drops and still     *)
(* succeeds, and not a table without partitions that was made then.        *)
(*                                                                         *)
(* A node observes two things: a report, whose signal is derived from its  *)
(* case while that counts, and a detection, whose signal is stored for     *)
(* good but makes a hotspot only while it is recent.  stage is how far its *)
(* alert has come; a forecast's outcome goes the same one way.             *)
(***************************************************************************)
EXTENDS Federation

CONSTANTS MaxStage, MaxEvents, MaxExports, MaxLoads

ASSUME OpenDataAssumption == {MaxStage, MaxEvents, MaxExports, MaxLoads} \subseteq Nat

VARIABLES
    observed,   \* of each node: "unseen", then "live", then "past"
    stage,
    events,     \* bounds what happens at the nodes and what grows old
    gathering,  \* of each node: the export being gathered
    expired,    \* of each node: what it observed over sixty days ago
    exports,    \* the exports written, by the moment each was stamped with
    loads,      \* how many uploads were begun
    uploading,  \* of each node: the export being loaded, and the step
    views       \* are the views there?

vars == <<observed, stage, events, expired, gathering, exports, loads, uploading, views>>

Observations == {"report", "detection"}

\* The tables in the order they are loaded.
Tables == <<"exports", "signals", "hotspots", "neighbours", "alerts">>
TableNames == {Tables[i] : i \in DOMAIN Tables}

Nothing == [at |-> "idle", next |-> 1, neighbours |-> {}, hotspots |-> {}, signals |-> {},
            left |-> {}]
NoUpload == [of |-> 0, step |-> 1]

Init ==
    /\ observed = [n \in Nodes |-> [o \in Observations |-> "unseen"]]
    /\ stage = [n \in Nodes |-> 0]
    /\ events = 0
    /\ expired = [n \in Nodes |-> {}]
    /\ gathering = [n \in Nodes |-> Nothing]
    /\ exports = <<>>
    /\ loads = 0
    /\ uploading = [n \in Nodes |-> NoUpload]
    /\ views = FALSE

Live(n) == {o \in Observations : observed[n][o] = "live"}

\* hotspots.current, at a node
Hotspots(n) == {[id |-> o, corroborated |-> o = "detection"] : o \in Live(n)}

\* Faulty: what is derived from a case is not there.
AllSignals_Stored(n) == {"detection"} \cap {o \in Observations : observed[n][o] # "unseen"}

\* Everything stored, old or not, and what the cases that count stand for.
AllSignals(n) ==
    ({"report"} \cap Live(n))
        \cup ({"detection"} \cap {o \in Observations : observed[n][o] # "unseen"})

-----------------------------------------------------------------------------
(* The nodes. *)

Observe(n, o) ==
    /\ events < MaxEvents
    /\ events' = events + 1
    /\ observed[n][o] = "unseen"
    /\ observed' = [observed EXCEPT ![n][o] = "live"]
    /\ UNCHANGED <<stage, gathering, exports, uploading, views, loads, expired>>

\* A report is taken back, or a detection is history.
Pass(n, o) ==
    /\ events < MaxEvents
    /\ events' = events + 1
    /\ observed[n][o] = "live"
    /\ observed' = [observed EXCEPT ![n][o] = "past"]
    /\ gathering' = [gathering EXCEPT ![n].left = IF gathering[n].at = "idle" THEN {} ELSE @ \cup {o}]
    /\ UNCHANGED <<stage, exports, uploading, views, loads, expired>>

Advance(n) ==
    /\ events < MaxEvents
    /\ events' = events + 1
    /\ stage[n] < MaxStage
    /\ stage' = [stage EXCEPT ![n] = @ + 1]
    /\ UNCHANGED <<observed, gathering, exports, uploading, views, loads, expired>>

\* A detection is history long before that, and a report may be as old when it comes.
Age(n, o) ==
    /\ events < MaxEvents
    /\ events' = events + 1
    /\ observed[n][o] \in IF o = "detection" THEN {"past"} ELSE {"live", "past"}
    /\ o \notin expired[n]
    /\ expired' = [expired EXCEPT ![n] = @ \cup {o}]
    /\ UNCHANGED <<observed, stage, gathering, exports, loads, uploading, views>>

\* With an export grow old what it was made from and what its node made before.
AgeExport(i) ==
    LET n == exports[i].node
        before == {j \in 1 .. i : exports[j].node = n}
        seen == UNION {exports[j].signals : j \in before}
    IN /\ events < MaxEvents
       /\ events' = events + 1
       /\ ~exports[i].old
       /\ "detection" \in seen => observed[n]["detection"] = "past"
       /\ expired' = [expired EXCEPT ![n] = @ \cup seen]
       /\ exports' = [j \in DOMAIN exports |->
                         [exports[j] EXCEPT !.old = exports[j].old \/ j \in before]]
       /\ UNCHANGED <<observed, stage, gathering, loads, uploading, views>>

-----------------------------------------------------------------------------
(* Gathering: each store is read once, and the node goes on between two reads. *)

Begin(n) ==
    /\ gathering[n].at = "idle"
    /\ Len(exports) + Cardinality({m \in Nodes : gathering[m].at # "idle"}) < MaxExports
    /\ gathering' = [gathering EXCEPT ![n].at = "neighbours"]
    /\ UNCHANGED <<observed, stage, events, exports, uploading, views, loads, expired>>

\* The neighbours are asked in turn; one that cannot be read is passed over.
ReadNeighbour(n) ==
    LET g == gathering[n]
    IN /\ g.at = "neighbours"
       /\ g.next <= Len(NeighbourFeeds[n])
       /\ \E answer \in Answers :
            LET server == NeighbourFeeds[n][g.next]
                feed == FetchNeighbour(n, server, answer, Hotspots(server))
                read == IF feed = Unread THEN {} ELSE {[node |-> feed.node, hotspots |-> feed.hotspots]}
            IN gathering' = [gathering EXCEPT ![n].next = @ + 1,
                                              ![n].neighbours = @ \cup read]
       /\ UNCHANGED <<observed, stage, events, exports, uploading, views, loads, expired>>

\* The stamp is taken between the neighbours and this node's own stores.
ReadHotspots(n) ==
    /\ gathering[n].at = "neighbours"
    /\ gathering[n].next > Len(NeighbourFeeds[n])
    /\ gathering' = [gathering EXCEPT ![n].at = "signals", ![n].hotspots = Hotspots(n),
                                      ![n].left = {}]
    /\ UNCHANGED <<observed, stage, events, exports, uploading, views, loads, expired>>

ReadSignals(n) ==
    /\ gathering[n].at = "signals"
    /\ gathering' = [gathering EXCEPT ![n].at = "alerts", ![n].signals = AllSignals(n)]
    /\ UNCHANGED <<observed, stage, events, exports, uploading, views, loads, expired>>

\* A citizen's signal goes out under a digest, to the nearest kilometre.
SignalRow(o) == [signal |-> o, coarse |-> o = "report"]

SignalRows(x) == {SignalRow(o) : o \in x.signals}

HotspotRows(x) == {spot.id : spot \in x.hotspots}

\* A row says whose detection it is.
NeighbourRows(x) ==
    UNION {{<<spot.nodeId, spot.hotspotId>> : spot \in feed.hotspots} : feed \in x.neighbours}

AlertRows(x) == {x.alert} \ {0}

\* One row for the run, so that a map with nothing on it is one too.
ExportRows(x) == {x.node}

\* The rows there is a place for: the signals by the day they were observed,
\* and what a run found out by the day of the run.
Held(x) ==
    LET OfTheRun(rows) == IF x.old THEN {} ELSE rows
    IN [exports |-> ExportRows(x),
        signals |-> {SignalRow(o) : o \in x.signals \ expired[x.node]},
        hotspots |-> OfTheRun(HotspotRows(x)),
        neighbours |-> OfTheRun(NeighbourRows(x)),
        alerts |-> OfTheRun(AlertRows(x))]

\* The alerts are read, and the directory written: a new one, or over an earlier
\* one, whose mark stays.
Write(n) ==
    LET g == gathering[n]
        over == {i \in DOMAIN exports : exports[i].node = n /\ ~exports[i].gone /\ uploading[n].of # i}
        Export(marked) ==
            [node |-> n, hotspots |-> g.hotspots, signals |-> g.signals, neighbours |-> g.neighbours,
             alert |-> stage[n], left |-> g.left, marked |-> marked, inherited |-> marked,
             gone |-> FALSE, copies |-> [t \in TableNames |-> 0], untold |-> FALSE,
             lost |-> FALSE, old |-> FALSE]
    IN /\ g.at = "alerts"
       /\ \/ exports' = Append(exports, Export(FALSE))
          \/ \E i \in over : exports' = Append([exports EXCEPT ![i].gone = TRUE], Export(exports[i].marked))
       /\ gathering' = [gathering EXCEPT ![n] = Nothing]
       /\ UNCHANGED <<observed, stage, events, uploading, views, loads, expired>>

-----------------------------------------------------------------------------
(* Loading. *)

\* Faulty: nobody looks whether the export is there already.
Marked_Never(x) == FALSE

\* uploaded.json names the dataset.
Marked(x) == x.marked

\* An export is loaded by its node: the newest or any other, for the first time or again.
StartUpload(n, i) ==
    /\ uploading[n] = NoUpload
    /\ exports[i].node = n
    /\ ~exports[i].gone
    /\ ~Marked(exports[i])
    /\ loads < MaxLoads
    /\ loads' = loads + 1
    /\ uploading' = [uploading EXCEPT ![n] = [of |-> i, step |-> 1]]
    /\ exports' = [exports EXCEPT ![i].lost = FALSE]
    /\ UNCHANGED <<observed, stage, events, expired, gathering, views>>

Going(n, step) == uploading[n].of # 0 /\ uploading[n].step = step

\* The rows of a table were loaded once more.
Appended(x, t) == IF Held(x)[t] = {} THEN x.copies[t] ELSE x.copies[t] + 1

\* A load job appends the rows there is a place for, and succeeds if there is for
\* none; a table without any is made and not loaded.
LoadTable(n) ==
    LET i == uploading[n].of
    IN /\ i # 0
       /\ uploading[n].step <= Len(Tables)
       /\ LET t == Tables[uploading[n].step]
          IN exports' = [exports EXCEPT ![i].copies[t] = Appended(exports[i], t)]
       /\ uploading' = [uploading EXCEPT ![n].step = @ + 1]
       /\ UNCHANGED <<observed, stage, events, gathering, views, loads, expired>>

DropViews(n) ==
    /\ Going(n, Len(Tables) + 1)
    /\ views' = FALSE
    /\ uploading' = [uploading EXCEPT ![n].step = @ + 1]
    /\ UNCHANGED <<observed, stage, events, gathering, exports, loads, expired>>

\* A view another upload has made meanwhile is an error.
MakeViews(n) ==
    /\ Going(n, Len(Tables) + 2)
    /\ ~views
    /\ views' = TRUE
    /\ uploading' = [uploading EXCEPT ![n].step = @ + 1]
    /\ UNCHANGED <<observed, stage, events, gathering, exports, loads, expired>>

Mark(n) ==
    /\ Going(n, Len(Tables) + 3)
    /\ exports' = [exports EXCEPT ![uploading[n].of].marked = TRUE,
                                  ![uploading[n].of].inherited = FALSE]
    /\ uploading' = [uploading EXCEPT ![n] = NoUpload]
    /\ UNCHANGED <<observed, stage, events, gathering, views, loads, expired>>

\* A job fails, a view is there, the process dies.
BreakOff(n) ==
    /\ uploading[n].of # 0
    /\ exports' = [exports EXCEPT ![uploading[n].of].untold = TRUE]
    /\ uploading' = [uploading EXCEPT ![n] = NoUpload]
    /\ UNCHANGED <<observed, stage, events, gathering, views, loads, expired>>

\* The commands the script prints load a directory whatever its mark says, and
\* leave none.
LoadByHand(n, i) ==
    /\ uploading[n] = NoUpload
    /\ exports[i].node = n
    /\ ~exports[i].gone
    /\ loads < MaxLoads
    /\ loads' = loads + 1
    /\ exports' = [exports EXCEPT
          ![i].copies = [t \in TableNames |-> Appended(exports[i], t)],
          ![i].untold = TRUE]
    /\ views' = TRUE
    /\ UNCHANGED <<observed, stage, events, gathering, uploading, expired>>

\* The table of the runs has no partitions, and goes with every run in it sixty
\* days after the first was loaded; a view goes too.  The marks stay.
DropRuns ==
    LET there == {i \in DOMAIN exports : exports[i].copies["exports"] > 0}
    IN /\ \E i \in there : exports[i].old
       /\ exports' = [i \in DOMAIN exports |->
                         IF i \in there
                         THEN [exports[i] EXCEPT !.copies["exports"] = 0, !.lost = TRUE]
                         ELSE exports[i]]
       /\ views' \in {views, FALSE}
       /\ UNCHANGED <<observed, stage, events, expired, gathering, loads, uploading>>

Next ==
    \/ \E n \in Nodes, o \in Observations : Observe(n, o) \/ Pass(n, o) \/ Age(n, o)
    \/ \E n \in Nodes :
         \/ Advance(n)
         \/ Begin(n) \/ ReadNeighbour(n) \/ ReadHotspots(n) \/ ReadSignals(n) \/ Write(n)
         \/ LoadTable(n) \/ DropViews(n) \/ MakeViews(n) \/ Mark(n) \/ BreakOff(n)
         \/ \E i \in DOMAIN exports : StartUpload(n, i) \/ LoadByHand(n, i)
    \/ \E i \in DOMAIN exports : AgeExport(i)
    \/ DropRuns

Spec == Init /\ [][Next]_vars

-----------------------------------------------------------------------------
(* The views. *)

\* Faulty: the run a node made first.
Newest_First(S) == CHOOSE i \in S : \A j \in S : i <= j

\* ORDER BY exported_at DESC: one node's exports are written in the order they were stamped.
Newest(S) == CHOOSE i \in S : \A j \in S : j <= i

\* latest_exports: the run a node made last, of those loaded; or none.
LatestExport(n) ==
    LET S == {i \in DOMAIN exports : /\ NodeId[exports[i].node] = NodeId[n]
                                     /\ exports[i].copies["exports"] > 0}
    IN IF S = {} THEN {} ELSE {Newest(S)}

\* hotspots_current: a node's map as of that run, with how often each row comes.
HotspotsCurrent(n) ==
    [row \in UNION {Held(exports[i]).hotspots : i \in LatestExport(n)} |->
        exports[CHOOSE i \in LatestExport(n) : TRUE].copies["hotspots"]]

\* alerts_current: the status of a node's alert as of the newest run that has it.
AlertsCurrent(n) ==
    LET S == {i \in DOMAIN exports : /\ NodeId[exports[i].node] = NodeId[n]
                                     /\ exports[i].copies["alerts"] > 0
                                     /\ ~exports[i].old}
    IN IF S = {} THEN 0 ELSE exports[Newest(S)].alert

-----------------------------------------------------------------------------
(* Properties. *)

\* Nobody's detection is passed on as anyone else's: a hotspot a node exports,
\* and each it exports as a neighbour's, was detected by the node the row
\* names, a neighbour is never this node itself, and nothing read from a feed
\* comes back as a hotspot - through no chain of nodes that read one another
\* (federation.fetch_neighbour, export.neighbour_hotspot_rows).
DetectionsAreTheirOwn ==
    \A i \in DOMAIN exports :
        LET x == exports[i]
            Detected(id, o) == \E m \in Nodes : NodeId[m] = id /\ observed[m][o] # "unseen"
        IN /\ \A o \in HotspotRows(x) : observed[x.node][o] # "unseen"
           /\ \A row \in NeighbourRows(x) : row[1] # NodeId[x.node] /\ Detected(row[1], row[2])

\* "the signals table holds everything the hotspots were built from", unless it
\* was taken back between the two reads of the stores (export._all_signals).
SignalsBackTheMap ==
    \A i \in DOMAIN exports :
        \A o \in HotspotRows(exports[i]) \ {row.signal : row \in SignalRows(exports[i])} :
            o = "report" /\ o \in exports[i].left

\* The mark of a directory is worth what it says - unless the directory was
\* written over after it was marked, or the table of the runs was dropped since
\* its upload began: every table has those of its rows there is a place for,
\* so that all that is missing is what was too old; and none twice unless it
\* was loaded by hand or by an upload that broke off before it could leave its
\* mark (export.upload, export.TABLES).
UploadsAreWhole ==
    \A i \in DOMAIN exports :
        LET x == exports[i]
        IN /\ x.marked /\ ~x.inherited /\ ~x.lost =>
                \A t \in TableNames : Held(x)[t] # {} => x.copies[t] > 0
           /\ ~x.untold => \A t \in TableNames : x.copies[t] <= 1

\* In whatever order its runs were loaded, the current map of a node is that of
\* one run, the newest that was loaded and not dropped: all of it, each hotspot
\* once, and nothing where there was none - unless the run was sixty days ago,
\* its upload is under way, or it was loaded by hand or by an upload that broke
\* off.  And nothing loaded late or in part takes the status of an alert back,
\* nor what the dataset has dropped (export.VIEWS, export.export_rows).
CurrentIsTheNewest ==
    \A n \in Nodes :
        /\ \A i \in LatestExport(n) :
             LET x == exports[i]
             IN x.marked /\ ~x.untold =>
                  /\ ~x.old => HotspotsCurrent(n) = [row \in HotspotRows(x) |-> 1]
                  /\ \A j \in DOMAIN exports :
                       /\ exports[j].node = n /\ exports[j].marked
                       /\ ~exports[j].inherited /\ ~exports[j].lost
                       => j <= i
        /\ \A i \in DOMAIN exports :
             /\ exports[i].node = n /\ ~exports[i].old
             /\ exports[i].copies["alerts"] > 0
             => exports[i].alert <= AlertsCurrent(n)
=============================================================================
