---------------------------- MODULE Orchestrator ----------------------------
(***************************************************************************)
(* The part of adp_manifest.DeliberationOrchestrator that PeerDeliberation *)
(* calls: `tally`, `determine_termination` and `get_threshold`.  The       *)
(* library is not in this repository, so everything here is EXTERNAL: it   *)
(* is modelled from the fields of TallyResult the source and its tests     *)
(* read, and from the thresholds `_build_tally_record` writes down.        *)
(*                                                                         *)
(* A ballot box is a function from the agents whose proposal was recorded  *)
(* to their current votes.  Weights are naturals and a fraction num/den is *)
(* compared by cross-multiplication.                                       *)
(***************************************************************************)
EXTENDS Naturals, Functions

CONSTANTS
    Agents,        \* every agent that may take part
    Weight,        \* compute_weight(...) of each agent, [Agents -> Nat]
    Tier,          \* the action's reversibility tier
    VetoHolders    \* agents whose reject is a domain veto (domain_vetoes_clear)

Tiers == {"reversible", "partially_reversible", "irreversible"}

ASSUME OrchestratorAssumption ==
    /\ Weight \in [Agents -> Nat]
    /\ Tier \in Tiers
    /\ VetoHolders \subseteq Agents

Vote == {"approve", "reject", "abstain"}

BallotBox == UNION {[S -> Vote] : S \in SUBSET Agents}

Status == {"converged", "partial_commit", "deadlocked"}
-----------------------------------------------------------------------------
\* {agent : ballots[agent] = vote}
Voters(ballots, vote) == {a \in DOMAIN ballots : ballots[a] = vote}

WeightOf(S) == SumFunctionOnSet(Weight, S)

\* get_threshold(tier) as a pair <<numerator, denominator>>.
Threshold ==
    [ reversible           |-> <<501, 1000>>,
      partially_reversible |-> <<3, 5>>,
      irreversible         |-> <<2, 3>> ][Tier]

\* approval_fraction >= threshold; the fraction of an empty vote is 0.
ApprovalMet(approve, reject) ==
    /\ approve + reject > 0
    /\ approve * Threshold[2] >= Threshold[1] * (approve + reject)

\* participation_fraction >= 1/2, of the weight of the recorded agents.
FloorMet(approve, reject, abstain) ==
    /\ approve + reject + abstain > 0
    /\ 2 * (approve + reject) >= approve + reject + abstain

VetoesClear(ballots) == Voters(ballots, "reject") \cap VetoHolders = {}

\* orchestrator.tally(proposals_by_agent, weights, tier)
Tally(ballots) ==
    LET approve == WeightOf(Voters(ballots, "approve"))
        reject  == WeightOf(Voters(ballots, "reject"))
        abstain == WeightOf(Voters(ballots, "abstain"))
    IN  [ approve      |-> approve,
          reject       |-> reject,
          abstain      |-> abstain,
          thresholdMet |-> ApprovalMet(approve, reject),
          converged    |-> /\ ApprovalMet(approve, reject)
                           /\ FloorMet(approve, reject, abstain)
                           /\ VetoesClear(ballots) ]

\* determine_termination(tally, has_reversible_subset)
Termination(tally, reversibleSubset) ==
    IF tally.converged THEN "converged"
    ELSE IF reversibleSubset THEN "partial_commit"
    ELSE "deadlocked"
=============================================================================
