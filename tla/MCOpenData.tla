----------------------------- MODULE MCOpenData -----------------------------
(***************************************************************************)
(* OpenData with two nodes that read each other.  One of them also reads a *)
(* feed that turns out to be its own.                                      *)
(***************************************************************************)
EXTENDS OpenData

MCNodeId == [north |-> "IN-N", south |-> "IN-S"]
MCCountry == [north |-> "IN", south |-> "IN"]
MCPublishesFeed == [north |-> TRUE, south |-> TRUE]
MCNeighbourFeeds == [north |-> <<"south", "north">>, south |-> <<"north">>]
=============================================================================
