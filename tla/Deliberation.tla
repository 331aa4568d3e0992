---------------------------- MODULE Deliberation ----------------------------
(***************************************************************************)
(* What one deliberation promises, without the network, the journal or the *)
(* falsification protocol: a ballot box is filled once, rejecters may      *)
(* withdraw to `abstain` in at most MaxRounds belief-update rounds that    *)
(* are only held while the vote has not converged, and the outcome is a    *)
(* function of the last ballots.  A deliberation may also be aborted, and  *)
(* then it has no outcome; a decision, once taken, is final.               *)
(*                                                                         *)
(* PeerDeliberation is shown to implement this specification.              *)
(***************************************************************************)
EXTENDS Naturals

CONSTANTS
    Agents,        \* every agent that may vote
    Self,          \* the initiator: nothing is decided without its ballot
    MaxRounds,     \* the most belief-update rounds a deliberation may hold
    Converged(_),  \* have these ballots converged?
    Outcomes(_)    \* the termination states these ballots may lead to

VARIABLES
    stage,        \* "collecting", "deliberating", "decided" or "aborted"
    ballots,      \* the ballot box
    moves,        \* rounds in which some ballot changed
    outcome       \* the termination state, "none" until decided

vars == <<stage, ballots, moves, outcome>>

Vote == {"approve", "reject", "abstain"}

EmptyBox == [a \in {} |-> "abstain"]

Init ==
    /\ stage = "collecting"
    /\ ballots = EmptyBox
    /\ moves = 0
    /\ outcome = "none"

\* The agents that answered vote, and the initiator is one of them.
Open ==
    /\ stage = "collecting"
    /\ \E S \in SUBSET Agents :
          /\ Self \in S
          /\ ballots' \in [S -> Vote]
    /\ stage' = "deliberating"
    /\ UNCHANGED <<moves, outcome>>

Rejecters(box) == {a \in DOMAIN box : box[a] = "reject"}

Soften(box, S) == [a \in DOMAIN box |-> IF a \in S THEN "abstain" ELSE box[a]]

\* A round in which the rejecters in S give up their dissent.
Round ==
    /\ stage = "deliberating"
    /\ ~Converged(ballots)
    /\ moves < MaxRounds
    /\ \E S \in SUBSET Rejecters(ballots) :
          /\ S # {}
          /\ ballots' = Soften(ballots, S)
    /\ moves' = moves + 1
    /\ UNCHANGED <<stage, outcome>>

Decide ==
    /\ stage = "deliberating"
    /\ outcome' \in Outcomes(ballots)
    /\ stage' = "decided"
    /\ UNCHANGED <<ballots, moves>>

Abort ==
    /\ stage \in {"collecting", "deliberating"}
    /\ stage' = "aborted"
    /\ UNCHANGED <<ballots, moves, outcome>>

Next == Open \/ Round \/ Decide \/ Abort

Spec == Init /\ [][Next]_vars
=============================================================================
