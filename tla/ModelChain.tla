----------------------------- MODULE ModelChain -----------------------------
(***************************************************************************)
(* models.py: the model call every stage makes.  A call walks its tier's   *)
(* chain of models and moves on when a model cannot answer; a model that   *)
(* could not is skipped for a while, by every call of the process.         *)
(***************************************************************************)
EXTENDS Integers, Sequences

CONSTANTS
    Models,
    Chain,      \* model_chain_for("fast")
    Cooldown    \* THROTTLE_COOLDOWN_SECONDS

ASSUME ChainAssumption == Chain \in Seq(Models) /\ Chain # <<>>
ASSUME CooldownAssumption == Cooldown \in Nat

\* _throttled_at before a model has failed: long enough ago not to matter.
LongAgo == -1 - Cooldown

\* What is a model's own failure: its quota is spent (429), it is overloaded
\* (503), it was retired (404), it broke down (500).
ModelFaults == {"quota", "overloaded", "retired", "broken"}

\* _worth_another_model.  "refused" is anything the request is to blame for.
WorthAnother(fault) == fault \in ModelFaults

\* Faulty: nothing is asked of a model that ever failed, while another is left.
Candidates_ForGood(throttled, now) ==
    LET fresh == {k \in DOMAIN Chain : throttled[Chain[k]] = LongAgo}
    IN IF fresh = {} THEN DOMAIN Chain ELSE fresh

\* _candidates, as places in the chain: the models not cooling down, or all of
\* them when all are.
Candidates(throttled, now) ==
    LET fresh == {k \in DOMAIN Chain : now - throttled[Chain[k]] > Cooldown}
    IN IF fresh = {} THEN DOMAIN Chain ELSE fresh

-----------------------------------------------------------------------------
(* An agent's conversation: turns, each of which walks the chain anew.  In   *)
(* all but the last the model asks for its tools, which run where they are   *)
(* called, so that the next turn begins at once.                             *)

Walking(throttled, now) ==
    [at |-> "asking", left |-> Candidates(throttled, now), began |-> now]

\* The conversation is over, or has not begun, and keeps no chain.
Resting(at) == [at |-> at, left |-> {}, began |-> 0]

\* The place the walk is at: the first it has left.
Asked(talk) == {k \in talk.left : \A j \in talk.left : k <= j}

\* _model_busy: a failure the operator is told to try again after.
Raised(fault) == Resting(IF fault \in {"quota", "overloaded"} THEN "busy" ELSE "failed")

\* generate_content_async, on a failure: the next model is asked, if the failure
\* is this model's own and there is another, and otherwise it is raised.
Failed(talk, fault) ==
    IF ~WorthAnother(fault) \/ talk.left = Asked(talk)
    THEN Raised(fault)
    ELSE [talk EXCEPT !.left = @ \ Asked(talk)]
=============================================================================
