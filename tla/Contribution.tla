---------------------------- MODULE Contribution ----------------------------
(***************************************************************************)
(* contribution.py: what the tracker knows when it builds the settlement's *)
(* contribution list, and the counterfactual that marks an agent           *)
(* load-bearing.  The tracker's own state is two variables of              *)
(* PeerDeliberation: the participants are the recorded proposals, `acks`   *)
(* is `_acknowledged`.  Its `_flagged` set has no caller in this           *)
(* repository and stays empty.                                             *)
(***************************************************************************)
EXTENDS Orchestrator

RecordOneAcknowledgement(acks, agent) == [acks EXCEPT ![agent] = 1]

\* _acknowledged.get(agent, 0) + 1
RecordAcknowledgement(acks, agent) == [acks EXCEPT ![agent] = @ + 1]

LoadBearingWithOwnWeight(tally, ballots) ==
    {a \in DOMAIN ballots :
        /\ tally.thresholdMet
        /\ ballots[a] = "approve"
        /\ Weight[a] # 0
        /\ ~ApprovalMet(tally.approve, tally.reject)}

\* compute_load_bearing_agents: the arithmetic shortcut the code takes, on
\* the final tally and without a second call of the orchestrator.
LoadBearingAgents(tally, ballots) ==
    {a \in DOMAIN ballots :
        /\ tally.thresholdMet
        /\ ballots[a] = "approve"
        /\ Weight[a] # 0
        /\ ~ApprovalMet(tally.approve - Weight[a], tally.reject)}

\* ContributionTracker.build
Build(participants, acks, loadBearing) ==
    [a \in participants |-> [acknowledged |-> acks[a],
                             loadBearing  |-> a \in loadBearing]]
-----------------------------------------------------------------------------
Without(ballots, a) == [b \in DOMAIN ballots \ {a} |-> ballots[b]]

\* The same counterfactual by its meaning: tally the other ballots again.
CounterfactualApprovers(ballots) ==
    {a \in Voters(ballots, "approve") :
        /\ Tally(ballots).thresholdMet
        /\ ~Tally(Without(ballots, a)).thresholdMet}
=============================================================================
