------------------------- MODULE MCPeerDeliberation -------------------------
(***************************************************************************)
(* Small instances of PeerDeliberation for TLC.                            *)
(***************************************************************************)
EXTENDS PeerDeliberationProps, TLC

CONSTANTS me, p1, p2, p3, c1, c2

TwoPeers == {me, p1, p2}
ThreePeers == {me, p1, p2, p3}

\* The initiator is light, so that one peer's move decides.
UnevenWeight == (me :> 1) @@ (p1 :> 2) @@ (p2 :> 2)
EqualWeight == [a \in Agents |-> 1]

\* Everything an agent may offer.
AllOffers == [vote : Vote, conds : SUBSET Conditions]

\* Conditions matter to rejecters only.
PlainOffers ==
    {[vote |-> v, conds |-> {}] : v \in Vote}
    \cup [vote : {"reject"}, conds : SUBSET Conditions]

NoHolders == {}
OneHolder == {p1}
\* The peers weigh the same and hold no veto; an agent's conditions are alike.
Symmetry == Permutations({p1, p2}) \cup Permutations({c1, c2})
=============================================================================
