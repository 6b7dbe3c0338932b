----------------------------- MODULE Federation -----------------------------
(***************************************************************************)
(* federation.py: what a node publishes, and what it takes from the feeds  *)
(* of its neighbours.  Definitions only.  A hotspot is a record with an id *)
(* and what else the feed's projection passes on; its id is a digest of    *)
(* what it was first seen by, so two nodes that see one fire give it one   *)
(* id.  Where it lies and how bad it is are left out.                      *)
(***************************************************************************)
EXTENDS Integers, FiniteSets, Sequences

CONSTANTS
    Nodes, NodeId, Country, PublishesFeed,
    NeighbourFeeds      \* the feeds a node reads in turn, each named by the node it serves

ASSUME FederationAssumption ==
    /\ {NodeId[n] : n \in Nodes} \cap {""} = {}
    /\ \A n \in Nodes : PublishesFeed[n] \in BOOLEAN
    /\ \A n \in Nodes : NeighbourFeeds[n] \in Seq(Nodes)

Identity(n) == [nodeId |-> NodeId[n], country |-> Country[n]]

\* The projection: no signals, no cases, nobody's exposure.
FeedHotspot(n, spot) ==
    [hotspotId |-> spot.id, nodeId |-> NodeId[n], corroborated |-> spot.corroborated]

\* Everything a node detects is published, what nothing corroborates too.
Publish(n, spots) ==
    [node |-> Identity(n), hotspots |-> {FeedHotspot(n, spot) : spot \in spots},
     forecaster |-> n]

Unread == [node |-> [nodeId |-> "", country |-> ""], hotspots |-> {}, forecaster |-> "none"]

\* What comes of asking a peer: it is down or answers no feed at all, or a feed
\* whose forecaster no one can read, which loses the forecaster only.
Answers == {"down", "garbage", "odd_forecaster", "feed"}

Validated(feed, answer) ==
    IF answer = "odd_forecaster" THEN [feed EXCEPT !.forecaster = "none"] ELSE feed

\* Faulty: whatever answers is a neighbour.
FetchNeighbour_Own(reader, server, answer, spots) ==
    IF answer \in {"down", "garbage"} \/ ~PublishesFeed[server] THEN Unread
    ELSE Validated(Publish(server, spots), answer)

\* A neighbour's feed, and never this node's own come back.
FetchNeighbour(reader, server, answer, spots) ==
    IF answer \in {"down", "garbage"} \/ ~PublishesFeed[server] THEN Unread
    ELSE LET feed == Validated(Publish(server, spots), answer)
         IN IF feed.node.nodeId = NodeId[reader] THEN Unread ELSE feed
=============================================================================
