------------------------ MODULE PeerDeliberationProof ------------------------
(***************************************************************************)
(* Theorems about PeerDeliberation, for every number of agents, weight,    *)
(* tier, budget and offer: first the inductive invariant with the          *)
(* properties that follow from it and the refinement of Deliberation, then *)
(* how votes may change, how many rounds are held, what the transcript may *)
(* ask, that it accounts for every credit, that a store with a decision    *)
(* explains it, that the settlement pays what was earned, and that every   *)
(* step uses something up.  But for the settlement, Tally is unfolded only *)
(* to see that its `converged` is a Boolean: nothing else here depends on  *)
(* the external rule.                                                      *)
(***************************************************************************)
EXTENDS PeerDeliberationProps, FiniteSetTheorems, TLAPS

-----------------------------------------------------------------------------
(* The inductive invariant. *)

Before  == {"discover", "collect", "self"}
InRound == {"visit", "test", "answer"}
Ending  == {"close", "settle", "persist", "gossip", "done"}

\* What is received is fresh, and only conditions of the proposal are marked.
ProposalInv ==
    /\ \A a \in Agents : /\ replies[a].falsified = {}
                         /\ replies[a].revisions = 0
                         /\ proposals[a].falsified \subseteq proposals[a].conds
    /\ phase = "self" => replies[Self].vote # "none"

\* A rejecter still to be visited rejects; and as long as nothing it was
\* asked was refused, what it has not acknowledged is still to be tested.
VisitInv ==
    /\ phase \in InRound =>
          \A r \in rejecters : proposals[r].vote = "reject" /\ proposals[r].revisions = 0
    /\ phase \in {"test", "answer"} =>
          /\ current \in rejecters
          /\ active \subseteq proposals[current].conds
          /\ allFalsified => /\ proposals[current].conds # {}
                             /\ Unfalsified(proposals[current]) \subseteq active
    /\ phase = "answer" => asked \in active /\ evidence \in Agents

\* The votes differ from the last tallied ballots by the softening of this
\* round, and from nothing at all outside a round.
TallyInv ==
    /\ phase \in Before => tallies = <<>>
    /\ phase \in InRound \cup Ending \cup {"round"} =>
          /\ tallies # <<>>
          /\ LastTally = Tally(tallied)
          /\ DOMAIN tallied = Recorded(proposals)
    /\ phase \in Ending \cup {"round"} => tallied = Ballots(proposals)
    /\ phase \in InRound =>
          /\ ~LastTally.converged
          /\ \A a \in Recorded(proposals) :
                \/ CurrentVote(proposals[a]) = tallied[a]
                \/ /\ revised
                   /\ tallied[a] = "reject"
                   /\ CurrentVote(proposals[a]) = "abstain"
          /\ revised => \E a \in Recorded(proposals) :
                           /\ tallied[a] = "reject"
                           /\ CurrentVote(proposals[a]) = "abstain"

\* Each round but the current one has left a tally behind.
RoundInv ==
    /\ rounds <= MaxRounds
    /\ phase \in Before => rounds = 0
    /\ phase = "round" => Len(tallies) = rounds + 1
    /\ phase \in InRound => Len(tallies) = rounds

\* Only the last entry closes, and with the last tally's termination.
EntryInv ==
    /\ \A i \in 1 .. Len(entries) : entries[i].type = "deliberation_closed" =>
          i = Len(entries) /\ phase \in {"settle", "persist", "gossip"} \cup Final
    /\ phase \in {"settle", "persist", "gossip", "done"} =>
          /\ Decided(entries)
          /\ \E subset \in BOOLEAN :
                entries[Len(entries)].status = Termination(LastTally, subset)

\* The closing entry reaches the store last, and a run that raised left none.
JournalInv ==
    /\ phase \notin {"persist", "gossip"} \cup Final => persisted = 0
    /\ phase \notin {"persist", "gossip", "done", "crashed"} => ~Decided(journal)
    /\ phase = "persist" => (Decided(journal) <=> persisted = Len(entries))
    /\ phase \in {"gossip", "done"} => Decided(journal) /\ persisted = Len(entries)
    /\ delivered # {} => phase \in {"gossip"} \cup Final
    /\ GossipIsDurable

IInv ==
    /\ TypeOK
    /\ ProposalInv
    /\ JustifiedRevisions
    /\ VisitInv
    /\ TallyInv
    /\ RoundInv
    /\ EntryInv
    /\ JournalInv
-----------------------------------------------------------------------------
(* Types. *)

\* The votes of well-typed proposals form a ballot box (_current_vote,
\* peer_deliberation.py:519-520).
LEMMA BallotsType ==
    ASSUME NEW ps \in [Agents -> Proposals]
    PROVE  /\ Ballots(ps) \in BallotBox
           /\ Tally(Ballots(ps)) \in Tallies
  <1>1. Ballots(ps) \in [Recorded(ps) -> Vote]
    BY DEF Ballots, Recorded, CurrentVote, Proposals, Vote
  <1>2. Recorded(ps) \in SUBSET Agents
    BY DEF Recorded
  <1>3. Ballots(ps) \in BallotBox
    BY <1>1, <1>2 DEF BallotBox
  <1> QED
    BY <1>3 DEF Tallies

\* Whatever the tally, the termination is one of the three states.
LEMMA TerminationType ==
    ASSUME NEW tally \in Tallies, NEW b \in BOOLEAN
    PROVE  Termination(tally, b) \in Status
  <1>1. \A box : Tally(box).converged \in BOOLEAN
    BY Zenon DEF Tally
  <1>2. tally.converged \in BOOLEAN
    BY <1>1 DEF Tallies
  <1> QED
    BY <1>2 DEF Termination, Status

\* What the run appends to its transcript is an entry.
LEMMA EntryTypes ==
    ASSUME TypeOK
    PROVE  /\ Opened \in Entries
           /\ \A a \in Agents, p \in Proposals : Emitted(a, p) \in Entries
           /\ \A kind \in Kinds, a \in Agents \cup {NoOne}, t \in Agents \cup {NoOne},
                 c \in Conditions \cup {NoOne} : RoundEvent(kind, a, t, c) \in Entries
           /\ \A status \in Status : tallies # <<>> => Closed(status) \in Entries
  <1>1. Opened \in Entries
    BY PeerDeliberationAssumption DEF TypeOK, Opened, Entries, Peers
  <1>2. \A a \in Agents, p \in Proposals : Emitted(a, p) \in Entries
    BY DEF Emitted, Entries, Proposals
  <1>3. \A kind \in Kinds, a \in Agents \cup {NoOne}, t \in Agents \cup {NoOne},
           c \in Conditions \cup {NoOne} : RoundEvent(kind, a, t, c) \in Entries
    BY DEF TypeOK, RoundEvent, Entries
  <1>4. ASSUME NEW status \in Status, tallies # <<>>
        PROVE  Closed(status) \in Entries
    <2>1. tallies[Len(tallies)] \in Tallies
      BY <1>4 DEF TypeOK
    <2> QED
      BY <2>1 DEF TypeOK, Closed, Entries, Recorded
  <1> QED
    BY <1>1, <1>2, <1>3, <1>4

LEMMA TypeInit == Init => TypeOK
  <1> SUFFICES ASSUME Init PROVE TypeOK
    OBVIOUS
  <1>1. NoProposal \in Proposals
    BY DEF NoProposal, Proposals
  <1>2. tallied \in BallotBox
    <2>1. [a \in {} |-> "abstain"] \in [{} -> Vote]
      OBVIOUS
    <2> QED
      BY <2>1 DEF Init, BallotBox
  <1>3. /\ replies \in [Agents -> Proposals]
        /\ proposals \in [Agents -> Proposals]
        /\ acks \in [Agents -> Nat]
    BY <1>1 DEF Init
  <1>4. tallies \in Seq(Tallies) /\ entries \in Seq(Entries) /\ journal \in Seq(Entries)
        /\ persisted \in 0 .. Len(entries)
    BY DEF Init
  <1>5. DOMAIN settlement \subseteq Agents
    BY DEF Init, NoSettlement
  <1> QED
    BY <1>2, <1>3, <1>4, <1>5 DEF Init, TypeOK, Phases, Final, Peers

\* Every step of the run, and its death, preserves the types.
LEMMA TypeNext == IInv /\ [Next]_vars => TypeOK'
  <1> SUFFICES ASSUME IInv, [Next]_vars PROVE TypeOK'
    OBVIOUS
  <1> USE DEF TypeOK
  <1>0. TypeOK
    BY DEF IInv
  <1>a. /\ \A offer \in Offers : Submitted(offer) \in Proposals
        /\ NoProposal \in Proposals
    BY PeerDeliberationAssumption DEF Submitted, Proposals, NoProposal
  <1>b. Self \in Agents /\ Peers \subseteq Agents
    BY PeerDeliberationAssumption DEF Peers
  <1>1. ASSUME NEW p \in Peers, Discover(p) PROVE TypeOK'
    BY <1>0, <1>1, <1>b DEF Discover, Phases, deciding, looping, visit, output
  <1>2. CASE Open
    <2>1. CASE OverBudget
      BY <1>0, <1>2, <2>1 DEF Open, Phases, Final, deciding, looping, visit, output
    <2>2. CASE ~OverBudget
      <3>1. /\ phase' = "collect" /\ pending' = manifests
            /\ entries' = Append(entries, Opened)
            /\ UNCHANGED <<manifests, replies, deciding, looping, output>>
        BY <1>2, <2>2 DEF Open, Log
      <3>2. entries' \in Seq(Entries) /\ persisted \in 0 .. Len(entries')
        BY <1>0, <3>1, EntryTypes
      <3> QED
        BY <1>0, <1>b, <3>1, <3>2 DEF Phases, deciding, looping, visit, output
    <2> QED
      BY <1>0, <2>1, <2>2
  <1>3. ASSUME NEW p \in Peers, Request(p) PROVE TypeOK'
    BY <1>0, <1>3, <1>a, <1>b DEF Request, deciding, looping, visit, output
  <1>4. ASSUME NEW p \in Peers, Record(p) PROVE TypeOK'
    <2>1. Emitted(p, replies[p]) \in Entries
      BY <1>0, <1>b, EntryTypes
    <2> QED
      BY <1>0, <1>4, <2>1, <1>a, <1>b DEF Record, Log, looping, visit, output
  <1>5. CASE OwnHandler
    <2>1. PICK offer \in Offers :
             /\ replies' = [replies EXCEPT ![Self] = Submitted(offer)]
             /\ journal' = Append(journal, Emitted(Self, Submitted(offer)))
      BY <1>0, <1>5 DEF OwnHandler
    <2>2. Emitted(Self, Submitted(offer)) \in Entries
      BY <1>0, <1>a, <1>b, EntryTypes
    <2> QED
      BY <1>0, <1>5, <2>1, <2>2, <1>a, <1>b DEF OwnHandler, Phases, deciding, looping, visit
  <1>6. CASE RecordSelf
    <2>1. Emitted(Self, replies[Self]) \in Entries
      BY <1>0, <1>b, EntryTypes
    <2>2. proposals' \in [Agents -> Proposals]
      BY <1>0, <1>6, <1>b DEF RecordSelf
    <2>3. tallied' \in BallotBox /\ Tally(tallied') \in Tallies
      BY <1>0, <1>6, <2>2, BallotsType DEF RecordSelf
    <2> QED
      BY <1>0, <1>6, <2>1, <2>2, <2>3, <1>a, <1>b DEF RecordSelf, Log, Phases, looping, visit, output
  <1>7. CASE SelfFails
    BY <1>0, <1>7 DEF SelfFails, Phases, Final, collecting, deciding, looping, visit, output
  <1>8. CASE StartRound
    <2>1. Voters(Ballots(proposals), "approve") \subseteq Agents
      BY <1>0 DEF Voters, Ballots, Recorded
    <2>2. Voters(Ballots(proposals), "reject") \subseteq Agents
      BY <1>0 DEF Voters, Ballots, Recorded
    <2>3. evidence' \in Agents \cup {NoOne}
      BY <1>0, <1>8, <2>1 DEF StartRound, EvidenceAgents
    <2> QED
      <3>1. rejecters' \subseteq Agents /\ rounds' \in Nat /\ revised' \in BOOLEAN
            /\ phase' \in Phases
        <4>1. /\ rejecters' = Voters(Ballots(proposals), "reject")
              /\ rounds' = rounds + 1 /\ revised' = FALSE /\ phase' = "visit"
          BY <1>8 DEF StartRound
        <4>2. phase' \in Phases
          BY <4>1 DEF Phases
        <4>3. rejecters' \subseteq Agents
          BY <2>2, <4>1
        <4>4. rounds' \in Nat
          BY <1>0, <4>1
        <4>5. revised' \in BOOLEAN
          BY <4>1
        <4> QED
          BY <4>2, <4>3, <4>4, <4>5
      <3>2. UNCHANGED <<collecting, deciding, visit, entries, output>>
        BY <1>0, <1>8 DEF StartRound
      <3> QED
        BY <1>0, <3>1, <3>2, <2>3 DEF collecting, deciding, visit, output
  <1>9. CASE EndRounds
    BY <1>0, <1>9 DEF EndRounds, Phases, collecting, deciding, looping, visit, output
  <1>10. ASSUME NEW r \in Agents, Visit(r) PROVE TypeOK'
    <2>1. Unfalsified(proposals[r]) \subseteq Conditions
      BY <1>0 DEF Unfalsified, Proposals
    <2> QED
      BY <1>0, <1>10, <2>1 DEF Visit, Phases, collecting, deciding, output
  <1>11. ASSUME NEW c \in Conditions, NoEvidence(c) PROVE TypeOK'
    BY <1>0, <1>11 DEF NoEvidence, collecting, deciding, output
  <1>12. ASSUME NEW c \in Conditions, SendFalsification(c) PROVE TypeOK'
    <2>1. RoundEvent("falsification_evidence", evidence, current, c) \in Entries
      BY <1>0, EntryTypes DEF Kinds
    <2> QED
      BY <1>0, <1>12, <2>1 DEF SendFalsification, Log, Phases, collecting, deciding, output
  <1>13. CASE Answer
    <2>1. PICK action \in Responses(current) :
             /\ Log(RoundEvent(ResponseKind(action), current, NoOne, asked))
             /\ IF action = "acknowledge" THEN Acknowledged ELSE Refused
      BY <1>0, <1>13 DEF Answer
    <2>2. RoundEvent(ResponseKind(action), current, NoOne, asked) \in Entries
      BY <1>0, EntryTypes DEF Kinds, ResponseKind
    <2>3. entries' \in Seq(Entries) /\ persisted \in 0 .. Len(entries')
      BY <1>0, <2>1, <2>2 DEF Log
    <2>4. /\ proposals' \in [Agents -> Proposals]
          /\ acks' \in [Agents -> Nat]
          /\ allFalsified' \in BOOLEAN
      <3>1. CASE Acknowledged
        <4>1. asked \in Conditions
          BY <1>0, <1>13 DEF IInv, VisitInv, Answer
        <4>2. acks' \in [Agents -> Nat]
          <5>1. acks' = [acks EXCEPT ![evidence] = acks[evidence] + 1]
            BY <3>1 DEF Acknowledged, RecordAcknowledgement
          <5>2. evidence \in Agents
            BY <1>13 DEF IInv, VisitInv, Answer
          <5>3. acks[evidence] + 1 \in Nat
            BY <1>0, <5>2
          <5> QED
            BY <1>0, <5>1, <5>3
        <4> QED
          BY <1>0, <3>1, <4>1, <4>2 DEF Acknowledged, MarkFalsified, Proposals
      <3>2. CASE Refused
        BY <1>0, <3>2 DEF Refused
      <3> QED
        BY <1>0, <3>1, <3>2, <2>1
    <2> QED
      BY <1>0, <1>13, <2>3, <2>4 DEF Answer, Phases, collecting, output
  <1>14. CASE FinishVisit
    <2>1. RoundEvent("revise", current, NoOne, NoOne) \in Entries
      BY <1>0, EntryTypes DEF Kinds
    <2>2. /\ entries' \in Seq(Entries) /\ persisted \in 0 .. Len(entries')
          /\ proposals' \in [Agents -> Proposals]
          /\ revised' \in BOOLEAN
      <3>1. CASE allFalsified
        <4>1. /\ proposals' = ReviseToAbstain(proposals, current)
              /\ revised' = TRUE
              /\ entries' = Append(entries, RoundEvent("revise", current, NoOne, NoOne))
          BY <1>14, <3>1 DEF FinishVisit, Log
        <4>2. proposals' \in [Agents -> Proposals]
          <5>1. current \in Agents
            BY <1>0, <1>14 DEF IInv, VisitInv, FinishVisit
          <5> QED
            BY <1>0, <4>1, <5>1 DEF ReviseToAbstain, Proposals
        <4> QED
          BY <1>0, <2>1, <4>1, <4>2
      <3>2. CASE ~allFalsified
        BY <1>0, <1>14, <3>2 DEF FinishVisit
      <3> QED
        BY <3>1, <3>2
    <2> QED
      BY <1>0, <1>14, <2>2 DEF FinishVisit, Phases, collecting, output
  <1>15. CASE FinishRound
    <2>1. tallied' \in BallotBox /\ tallies' \in Seq(Tallies)
      <3>1. CASE revised
        <4>1. tallied' = Ballots(proposals) /\ tallies' = Append(tallies, Tally(tallied'))
          BY <1>15, <3>1 DEF FinishRound, TallyAgain
        <4> QED
          BY <1>0, <4>1, BallotsType
      <3>2. CASE ~revised
        BY <1>0, <1>15, <3>2 DEF FinishRound
      <3> QED
        BY <3>1, <3>2
    <2>2. phase' \in Phases
      BY <1>0, <1>15 DEF FinishRound, Phases
    <2> QED
      BY <1>0, <1>15, <2>1, <2>2 DEF FinishRound, collecting, looping, visit, output
  <1>16. CASE Close
    <2>1. PICK b \in BOOLEAN : Log(Closed(Termination(LastTally, b)))
      BY <1>16 DEF Close
    <2>2. tallies # <<>>
      BY <1>16 DEF IInv, TallyInv, Ending, Close
    <2>3. LastTally \in Tallies
      BY <1>0, <2>2 DEF LastTally
    <2>4. Closed(Termination(LastTally, b)) \in Entries
      BY <1>0, <2>2, <2>3, TerminationType, EntryTypes
    <2>5. entries' \in Seq(Entries) /\ persisted \in 0 .. Len(entries')
      BY <1>0, <2>1, <2>4 DEF Log
    <2> QED
      BY <1>0, <1>16, <2>5 DEF Close, Phases, collecting, deciding, looping, visit, output
  <1>17. CASE Settle
    BY <1>0, <1>17 DEF Settle, Build, Recorded, NoSettlement, Phases, collecting, deciding, looping, visit
  <1>18. CASE RunRaises
    BY <1>0, <1>18 DEF RunRaises, Phases, Final, collecting, deciding, looping, visit, output
  <1>19. CASE Persist
    BY <1>0, <1>19 DEF Persist, collecting, deciding, looping, visit
  <1>20. CASE PersistFails
    BY <1>0, <1>20 DEF PersistFails, Phases, Final, collecting, deciding, looping, visit, output
  <1>21. CASE StartGossip
    BY <1>0, <1>21 DEF StartGossip, Phases, deciding, looping, visit, output
  <1>22. ASSUME NEW t \in Agents, Push(t) PROVE TypeOK'
    BY <1>0, <1>22 DEF Push, Peers, Phases, deciding, looping, visit
  <1>23. CASE Return
    BY <1>0, <1>23 DEF Return, Phases, Final, collecting, deciding, looping, visit, output
  <1>24. CASE Crash
    BY <1>0, <1>24 DEF Crash, Phases, Final, collecting, deciding, looping, visit, output
  <1>25. CASE UNCHANGED vars
    BY <1>0, <1>25 DEF vars, collecting, deciding, looping, visit, output
  <1> QED
    BY <1>1, <1>2, <1>3, <1>4, <1>5, <1>6, <1>7, <1>8, <1>9, <1>10, <1>11, <1>12, <1>13,
       <1>14, <1>15, <1>16, <1>17, <1>18, <1>19, <1>20, <1>21, <1>22, <1>23, <1>24, <1>25
    DEF Next, Step, Collect, Update, Conclude
-----------------------------------------------------------------------------
(* Proposals and revisions. *)

\* Marking a condition falsified changes nothing but the marks of one agent
\* (_mark_falsified, peer_deliberation.py:434-453).
LEMMA MarkChangesMarks ==
    ASSUME NEW ps \in [Agents -> Proposals], NEW a \in Agents, NEW c \in Conditions,
           NEW qs, qs = MarkFalsified(ps, a, c)
    PROVE  /\ \A b \in Agents : /\ qs[b].vote = ps[b].vote
                                /\ qs[b].conds = ps[b].conds
                                /\ qs[b].revisions = ps[b].revisions
           /\ \A b \in Agents \ {a} : qs[b] = ps[b]
           /\ qs[a].falsified = ps[a].falsified \cup {c}
  BY DEF MarkFalsified

\* A revision changes nothing but the revisions of one agent
\* (_revise_to_abstain, peer_deliberation.py:455-471).
LEMMA ReviseChangesOne ==
    ASSUME NEW ps \in [Agents -> Proposals], NEW a \in Agents,
           NEW qs, qs = ReviseToAbstain(ps, a)
    PROVE  /\ \A b \in Agents \ {a} : qs[b] = ps[b]
           /\ qs[a].vote = ps[a].vote
           /\ qs[a].conds = ps[a].conds
           /\ qs[a].falsified = ps[a].falsified
           /\ qs[a].revisions = ps[a].revisions + 1
  BY DEF ReviseToAbstain

LEMMA ProposalNext == IInv /\ [Next]_vars => ProposalInv' /\ JustifiedRevisions'
  <1> SUFFICES ASSUME IInv, [Next]_vars PROVE ProposalInv' /\ JustifiedRevisions'
    OBVIOUS
  <1>a. TypeOK /\ ProposalInv /\ JustifiedRevisions /\ VisitInv
    BY DEF IInv
  <1>b. Self \in Agents /\ Peers \subseteq Agents
    BY PeerDeliberationAssumption DEF Peers
  <1>0. ASSUME UNCHANGED <<replies, proposals>>, phase' # "self" \/ UNCHANGED phase
        PROVE  ProposalInv' /\ JustifiedRevisions'
    BY <1>0, <1>a DEF ProposalInv, JustifiedRevisions
  <1>1. ASSUME NEW p \in Peers, Request(p) PROVE ProposalInv' /\ JustifiedRevisions'
    <2>1. ASSUME NEW offer \in Offers, replies' = [replies EXCEPT ![p] = Submitted(offer)]
          PROVE  \A a \in Agents : replies'[a].falsified = {} /\ replies'[a].revisions = 0
      BY <2>1, <1>a, <1>b DEF Submitted, TypeOK, ProposalInv
    <2>2. \A a \in Agents : replies'[a].falsified = {} /\ replies'[a].revisions = 0
      BY <1>1, <2>1, <1>a DEF Request, ProposalInv
    <2>3. proposals' = proposals /\ phase' = "collect"
      BY <1>1 DEF Request, deciding
    <2> QED
      BY <2>2, <2>3, <1>a DEF ProposalInv, JustifiedRevisions
  <1>2. ASSUME NEW p \in Peers, Record(p) PROVE ProposalInv' /\ JustifiedRevisions'
    BY <1>2, <1>a, <1>b DEF Record, NoProposal, TypeOK, ProposalInv, JustifiedRevisions
  <1>3. CASE OwnHandler
    <2>1. PICK offer \in Offers : replies' = [replies EXCEPT ![Self] = Submitted(offer)]
      BY <1>3 DEF OwnHandler
    <2>2. offer.vote \in Vote
      BY PeerDeliberationAssumption
    <2> QED
      BY <1>3, <2>1, <2>2, <1>a, <1>b
      DEF OwnHandler, deciding, Submitted, Vote, TypeOK, ProposalInv, JustifiedRevisions
  <1>4. CASE RecordSelf
    BY <1>4, <1>a, <1>b DEF RecordSelf, NoProposal, TypeOK, ProposalInv, JustifiedRevisions
  <1>5. CASE Answer
    <2>1. CASE Acknowledged
      <3>1. /\ current \in Agents
            /\ asked \in Conditions
            /\ asked \in proposals[current].conds
            /\ proposals[current].revisions = 0
            /\ replies' = replies
            /\ phase' = "test"
        BY <1>5, <1>a DEF Answer, collecting, TypeOK, VisitInv, InRound
      <3>2. proposals' = MarkFalsified(proposals, current, asked)
        BY <2>1 DEF Acknowledged
      <3>3. /\ \A b \in Agents : /\ proposals'[b].vote = proposals[b].vote
                                 /\ proposals'[b].conds = proposals[b].conds
                                 /\ proposals'[b].revisions = proposals[b].revisions
            /\ \A b \in Agents \ {current} : proposals'[b] = proposals[b]
            /\ proposals'[current].falsified = proposals[current].falsified \cup {asked}
        <4>1. proposals \in [Agents -> Proposals]
          BY <1>a DEF TypeOK
        <4> QED
          BY <3>1, <3>2, <4>1, MarkChangesMarks
      <3>4. ProposalInv'
        BY <3>1, <3>3, <1>a DEF ProposalInv
      <3>5. JustifiedRevisions'
        BY <3>1, <3>3, <1>a DEF JustifiedRevisions
      <3> QED
        BY <3>4, <3>5
    <2>2. CASE Refused
      BY <1>5, <2>2, <1>0 DEF Answer, Refused, collecting
    <2> QED
      BY <1>5, <2>1, <2>2 DEF Answer
  <1>6. CASE FinishVisit
    <2>1. CASE allFalsified
      <3>1. /\ current \in Agents
            /\ proposals[current].vote = "reject"
            /\ proposals[current].conds # {}
            /\ proposals[current].falsified = proposals[current].conds
            /\ proposals[current].revisions = 0
        BY <1>6, <2>1, <1>a DEF FinishVisit, TypeOK, VisitInv, InRound, Unfalsified, ProposalInv
      <3>2. /\ proposals' = ReviseToAbstain(proposals, current)
            /\ replies' = replies
            /\ phase' = "visit"
        BY <1>6, <2>1 DEF FinishVisit, collecting
      <3>3. /\ \A b \in Agents \ {current} : proposals'[b] = proposals[b]
            /\ proposals'[current].vote = proposals[current].vote
            /\ proposals'[current].conds = proposals[current].conds
            /\ proposals'[current].falsified = proposals[current].falsified
            /\ proposals'[current].revisions = proposals[current].revisions + 1
        BY <3>1, <3>2, <1>a, ReviseChangesOne DEF TypeOK
      <3>4. ProposalInv'
        BY <3>1, <3>2, <3>3, <1>a DEF ProposalInv
      <3>5. JustifiedRevisions'
        BY <3>1, <3>3, <1>a DEF JustifiedRevisions
      <3> QED
        BY <3>4, <3>5
    <2>2. CASE ~allFalsified
      BY <1>6, <2>2, <1>0 DEF FinishVisit, collecting
    <2> QED
      BY <2>1, <2>2
  <1>7. ASSUME NEW p \in Peers, Discover(p) PROVE ProposalInv' /\ JustifiedRevisions'
    BY <1>7, <1>0 DEF Discover, deciding
  <1>8. CASE Open \/ SelfFails
    BY <1>8, <1>0 DEF Open, SelfFails, deciding, collecting
  <1>9. CASE StartRound \/ EndRounds \/ FinishRound
    BY <1>9, <1>0 DEF StartRound, EndRounds, FinishRound, TallyAgain, collecting, deciding
  <1>10. CASE \/ \E r \in Agents : Visit(r)
              \/ \E c \in Conditions : NoEvidence(c) \/ SendFalsification(c)
    BY <1>10, <1>0 DEF Visit, NoEvidence, SendFalsification, collecting, deciding
  <1>11. CASE Conclude
    BY <1>11, <1>0
    DEF Conclude, Close, Settle, RunRaises, Persist, PersistFails, StartGossip, Push, Return,
        collecting, deciding
  <1>12. CASE Crash \/ UNCHANGED vars
    BY <1>12, <1>0 DEF Crash, vars, collecting, deciding
  <1> QED
    BY <1>1, <1>2, <1>3, <1>4, <1>5, <1>6, <1>7, <1>8, <1>9, <1>10, <1>11, <1>12
    DEF Next, Step, Collect, Update
-----------------------------------------------------------------------------
(* The visits of a round. *)

\* The frame of an answer: it touches no vote (peer_deliberation.py:302-322).
LEMMA AnswerFrame ==
    ASSUME IInv, Answer
    PROVE  /\ current \in Agents /\ asked \in Conditions
           /\ \A a \in Agents : /\ proposals'[a].vote = proposals[a].vote
                                /\ proposals'[a].conds = proposals[a].conds
                                /\ proposals'[a].revisions = proposals[a].revisions
           /\ \/ allFalsified' = FALSE
              \/ /\ allFalsified' = allFalsified
                 /\ proposals'[current].falsified = proposals[current].falsified \cup {asked}
  <1>1. current \in Agents /\ asked \in Conditions /\ proposals \in [Agents -> Proposals]
    BY DEF IInv, TypeOK, VisitInv, Answer, InRound
  <1>2. CASE Acknowledged
    <2>1. proposals' = MarkFalsified(proposals, current, asked) /\ allFalsified' = allFalsified
      BY <1>2 DEF Acknowledged
    <2> QED
      BY <1>1, <2>1, MarkChangesMarks
  <1>3. CASE Refused
    BY <1>1, <1>3 DEF Refused
  <1> QED
    BY <1>2, <1>3 DEF Answer

LEMMA VisitNext == IInv /\ [Next]_vars => VisitInv'
  <1> SUFFICES ASSUME IInv, [Next]_vars PROVE VisitInv'
    OBVIOUS
  <1>a. TypeOK /\ VisitInv /\ ProposalInv
    BY DEF IInv
  <1>0. ASSUME phase' \notin InRound PROVE VisitInv'
    BY <1>0 DEF VisitInv, InRound
  <1>1. CASE StartRound
    <2>1. rejecters' = Voters(Ballots(proposals), "reject") /\ proposals' = proposals /\ phase' = "visit"
      BY <1>1 DEF StartRound, deciding
    <2>2. \A r \in rejecters' : r \in Agents /\ CurrentVote(proposals[r]) = "reject"
      BY <2>1 DEF Voters, Ballots, Recorded
    <2>3. \A r \in rejecters' : proposals[r].vote = "reject" /\ proposals[r].revisions = 0
      BY <2>2, <1>a DEF CurrentVote, TypeOK, Proposals
    <2> QED
      BY <2>1, <2>3 DEF VisitInv
  <1>2. ASSUME NEW r \in Agents, Visit(r) PROVE VisitInv'
    <2>1. /\ r \in rejecters /\ rejecters' = rejecters /\ proposals' = proposals
          /\ current' = r /\ active' = Unfalsified(proposals[r])
          /\ allFalsified' = (active' # {})
          /\ phase = "visit" /\ phase' = "test"
      BY <1>2 DEF Visit, deciding
    <2>2. active' \subseteq proposals[r].conds
      BY <2>1 DEF Unfalsified
    <2> QED
      BY <2>1, <2>2, <1>a DEF VisitInv, InRound
  <1>3. ASSUME NEW c \in Conditions, NoEvidence(c) PROVE VisitInv'
    BY <1>3, <1>a DEF NoEvidence, deciding, VisitInv, InRound
  <1>4. ASSUME NEW c \in Conditions, SendFalsification(c) PROVE VisitInv'
    BY <1>4, <1>a DEF SendFalsification, deciding, VisitInv, InRound, TypeOK
  <1>5. CASE Answer
    <2>1. /\ phase = "answer" /\ phase' = "test" /\ rejecters' = rejecters
          /\ current' = current /\ active' = active \ {asked}
      BY <1>5 DEF Answer
    <2>2. rejecters \subseteq Agents
      BY <1>a DEF TypeOK
    <2>3. \A r \in rejecters' : proposals'[r].vote = "reject" /\ proposals'[r].revisions = 0
      BY <1>5, <2>1, <2>2, <1>a, AnswerFrame DEF VisitInv, InRound
    <2>4. current' \in rejecters' /\ active' \subseteq proposals'[current'].conds
      BY <1>5, <2>1, <1>a, AnswerFrame DEF VisitInv, InRound
    <2>5. ASSUME allFalsified'
          PROVE  proposals'[current'].conds # {} /\ Unfalsified(proposals'[current']) \subseteq active'
      BY <1>5, <2>1, <2>5, <1>a, AnswerFrame DEF VisitInv, Unfalsified
    <2> QED
      BY <2>1, <2>3, <2>4, <2>5 DEF VisitInv
  <1>6. CASE FinishVisit
    <2>1. /\ phase = "test" /\ phase' = "visit" /\ rejecters' = rejecters \ {current}
          /\ current \in Agents /\ rejecters \subseteq Agents
      BY <1>6, <1>a DEF FinishVisit, VisitInv, TypeOK
    <2>2. \A r \in rejecters' : proposals'[r] = proposals[r]
      <3>1. CASE allFalsified
        <4>1. proposals' = ReviseToAbstain(proposals, current)
          BY <1>6, <3>1 DEF FinishVisit
        <4> QED
          BY <2>1, <4>1 DEF ReviseToAbstain
      <3>2. CASE ~allFalsified
        BY <1>6, <3>2 DEF FinishVisit
      <3> QED
        BY <3>1, <3>2
    <2> QED
      BY <2>1, <2>2, <1>a DEF VisitInv, InRound
  <1>7. CASE FinishRound
    BY <1>7, <1>0 DEF FinishRound, InRound
  <1>8. CASE EndRounds
    BY <1>8, <1>0 DEF EndRounds, InRound
  <1>9. ASSUME NEW p \in Peers, Discover(p) \/ Request(p) \/ Record(p) PROVE VisitInv'
    BY <1>9, <1>0 DEF Discover, Request, Record, InRound
  <1>10. CASE Open \/ OwnHandler \/ RecordSelf \/ SelfFails
    BY <1>10, <1>0 DEF Open, OwnHandler, RecordSelf, SelfFails, InRound
  <1>11. CASE Conclude
    BY <1>11, <1>0
    DEF Conclude, Close, Settle, RunRaises, Persist, PersistFails, StartGossip, Push, Return,
        InRound
  <1>12. CASE Crash
    BY <1>12, <1>0 DEF Crash, InRound
  <1>13. CASE UNCHANGED vars
    BY <1>13, <1>a DEF vars, deciding, looping, visit, VisitInv
  <1> QED
    BY <1>1, <1>2, <1>3, <1>4, <1>5, <1>6, <1>7, <1>8, <1>9, <1>10, <1>11, <1>12, <1>13
    DEF Next, Step, Collect, Update
-----------------------------------------------------------------------------
(* The tallies. *)

LEMMA TallyNext == IInv /\ [Next]_vars => TallyInv'
  <1> SUFFICES ASSUME IInv, [Next]_vars PROVE TallyInv'
    OBVIOUS
  <1>a. TypeOK /\ TallyInv /\ VisitInv
    BY DEF IInv
  <1> USE DEF Before, InRound, Ending
  <1>0. ASSUME UNCHANGED <<tallies, tallied, proposals, revised>>,
               \/ phase' \in {"failed", "crashed"}
               \/ phase \in Before /\ phase' \in Before
               \/ phase \in InRound /\ phase' \in InRound
               \/ phase \in Ending \cup {"round"} /\ phase' \in Ending
               \/ UNCHANGED phase
        PROVE  TallyInv'
    BY <1>0, <1>a DEF TallyInv, LastTally
  <1>1. ASSUME NEW p \in Peers, Discover(p) \/ Request(p) PROVE TallyInv'
    BY <1>1, <1>0 DEF Discover, Request, deciding, looping
  <1>2. ASSUME NEW p \in Peers, Record(p) PROVE TallyInv'
    BY <1>2, <1>a DEF Record, TallyInv
  <1>3. CASE Open \/ OwnHandler \/ SelfFails
    BY <1>3, <1>0 DEF Open, OwnHandler, SelfFails, deciding, looping
  <1>4. CASE RecordSelf
    <2>1. /\ tallied' = Ballots(proposals') /\ tallies' = <<Tally(tallied')>>
          /\ phase' = "round"
      BY <1>4 DEF RecordSelf
    <2>2. DOMAIN tallied' = Recorded(proposals')
      BY <2>1 DEF Ballots
    <2> QED
      BY <2>1, <2>2 DEF TallyInv, LastTally
  <1>5. CASE StartRound
    <2>1. /\ phase = "round" /\ phase' = "visit" /\ revised' = FALSE /\ ~LastTally.converged
          /\ UNCHANGED <<tallies, tallied, proposals>>
      BY <1>5 DEF StartRound, deciding
    <2>2. \A a \in Recorded(proposals) : CurrentVote(proposals[a]) = tallied[a]
      BY <2>1, <1>a DEF TallyInv, Ballots
    <2> QED
      BY <2>1, <2>2, <1>a DEF TallyInv, LastTally
  <1>6. CASE EndRounds
    BY <1>6, <1>0 DEF EndRounds, deciding, looping
  <1>7. ASSUME NEW r \in Agents, Visit(r) PROVE TallyInv'
    BY <1>7, <1>0 DEF Visit, deciding
  <1>8. ASSUME NEW c \in Conditions, NoEvidence(c) \/ SendFalsification(c) PROVE TallyInv'
    BY <1>8, <1>0 DEF NoEvidence, SendFalsification, deciding
  <1>9. CASE Answer
    <2>1. /\ phase = "answer" /\ phase' = "test"
          /\ UNCHANGED <<tallies, tallied, revised>>
      BY <1>9 DEF Answer
    <2>2. Recorded(proposals') = Recorded(proposals)
      BY <1>9, AnswerFrame DEF Recorded
    <2>3. \A a \in Agents : CurrentVote(proposals'[a]) = CurrentVote(proposals[a])
      BY <1>9, AnswerFrame DEF CurrentVote
    <2>4. Recorded(proposals) \subseteq Agents
      BY DEF Recorded
    <2> QED
      BY <2>1, <2>2, <2>3, <2>4, <1>a DEF TallyInv, LastTally
  <1>10. CASE FinishVisit
    <2>1. CASE allFalsified
      <3>1. /\ phase = "test" /\ phase' = "visit" /\ UNCHANGED <<tallies, tallied>>
            /\ revised' = TRUE /\ proposals' = ReviseToAbstain(proposals, current)
        BY <1>10, <2>1 DEF FinishVisit
      <3>2. /\ current \in Agents /\ proposals \in [Agents -> Proposals]
            /\ proposals[current].vote = "reject" /\ proposals[current].revisions = 0
        BY <3>1, <1>a DEF TypeOK, VisitInv
      <3>3. /\ \A b \in Agents \ {current} : proposals'[b] = proposals[b]
            /\ proposals'[current].vote = "reject"
            /\ proposals'[current].revisions = 1
        BY <3>1, <3>2, ReviseChangesOne
      <3>4. Recorded(proposals') = Recorded(proposals) /\ current \in Recorded(proposals)
        BY <3>2, <3>3 DEF Recorded
      <3>5. CurrentVote(proposals[current]) = "reject" /\ CurrentVote(proposals'[current]) = "abstain"
        BY <3>2, <3>3 DEF CurrentVote
      <3>6. tallied[current] = "reject"
        BY <3>1, <3>4, <3>5, <1>a DEF TallyInv
      <3>7. \A a \in Recorded(proposals) :
               \/ CurrentVote(proposals'[a]) = tallied[a]
               \/ tallied[a] = "reject" /\ CurrentVote(proposals'[a]) = "abstain"
        BY <3>1, <3>3, <3>5, <3>6, <1>a DEF TallyInv, Recorded
      <3> QED
        BY <3>1, <3>4, <3>5, <3>6, <3>7, <1>a DEF TallyInv, LastTally
    <2>2. CASE ~allFalsified
      BY <1>10, <2>2, <1>0 DEF FinishVisit
    <2> QED
      BY <2>1, <2>2
  <1>11. CASE FinishRound
    <2>1. CASE revised
      <3>1. /\ tallied' = Ballots(proposals) /\ tallies' = Append(tallies, Tally(tallied'))
            /\ phase' = "round" /\ proposals' = proposals
        BY <1>11, <2>1 DEF FinishRound, TallyAgain
      <3>2. tallies' # <<>> /\ tallies'[Len(tallies')] = Tally(tallied')
        <4>1. tallies \in Seq(Tallies) /\ Tally(tallied') \in Tallies
          BY <3>1, <1>a, BallotsType DEF TypeOK
        <4> QED
          BY <3>1, <4>1
      <3>3. DOMAIN tallied' = Recorded(proposals')
        BY <3>1 DEF Ballots
      <3> QED
        BY <3>1, <3>2, <3>3 DEF TallyInv, LastTally
    <2>2. CASE ~revised
      <3>1. /\ phase = "visit" /\ phase' = "close"
            /\ UNCHANGED <<tallied, tallies, proposals>>
        BY <1>11, <2>2 DEF FinishRound
      <3>2. tallied = [a \in DOMAIN tallied |-> tallied[a]]
        BY <1>a DEF TypeOK, BallotBox
      <3>3. tallied = Ballots(proposals)
        BY <2>2, <3>1, <3>2, <1>a DEF TallyInv, Ballots
      <3> QED
        BY <3>1, <3>3, <1>a DEF TallyInv, LastTally
    <2> QED
      BY <2>1, <2>2
  <1>12. CASE Conclude
    BY <1>12, <1>0
    DEF Conclude, Close, Settle, RunRaises, Persist, PersistFails, StartGossip, Push, Return,
        deciding, looping
  <1>13. CASE Crash \/ UNCHANGED vars
    BY <1>13, <1>0 DEF Crash, vars, deciding, looping
  <1> QED
    BY <1>1, <1>2, <1>3, <1>4, <1>5, <1>6, <1>7, <1>8, <1>9, <1>10, <1>11, <1>12, <1>13
    DEF Next, Step, Collect, Update

LEMMA RoundNext == IInv /\ [Next]_vars => RoundInv'
  <1> SUFFICES ASSUME IInv, [Next]_vars PROVE RoundInv'
    OBVIOUS
  <1>a. TypeOK /\ TallyInv /\ RoundInv
    BY DEF IInv
  <1>b. rounds \in Nat /\ MaxRounds \in Nat /\ tallies \in Seq(Tallies)
    BY <1>a, PeerDeliberationAssumption DEF TypeOK
  <1> USE DEF InRound, Before
  <1>0. ASSUME UNCHANGED <<rounds, tallies>>,
               \/ phase' \notin InRound \cup {"round"} \cup Before
               \/ phase \in Before /\ phase' \in Before
               \/ phase \in InRound /\ phase' \in InRound
               \/ UNCHANGED phase
        PROVE  RoundInv'
    BY <1>0, <1>a DEF RoundInv
  <1>1. CASE RecordSelf
    <2>1. tallies' = <<Tally(tallied')>> /\ phase' = "round" /\ rounds' = rounds
      BY <1>1 DEF RecordSelf, looping
    <2>2. rounds = 0
      BY <1>1, <1>a DEF RecordSelf, RoundInv
    <2> QED
      BY <2>1, <2>2, <1>a, <1>b DEF RoundInv
  <1>2. CASE StartRound
    BY <1>2, <1>a, <1>b DEF StartRound, deciding, RoundInv
  <1>3. CASE FinishRound
    BY <1>3, <1>a, <1>b DEF FinishRound, TallyAgain, looping, RoundInv
  <1>4. ASSUME NEW p \in Peers, Discover(p) \/ Request(p) \/ Record(p) PROVE RoundInv'
    BY <1>4, <1>0 DEF Discover, Request, Record, deciding, looping
  <1>5. CASE Open \/ OwnHandler \/ SelfFails \/ EndRounds
    BY <1>5, <1>0 DEF Open, OwnHandler, SelfFails, EndRounds, deciding, looping
  <1>6. ASSUME NEW r \in Agents, Visit(r) PROVE RoundInv'
    BY <1>6, <1>0 DEF Visit, deciding
  <1>7. ASSUME NEW c \in Conditions, NoEvidence(c) \/ SendFalsification(c) PROVE RoundInv'
    BY <1>7, <1>0 DEF NoEvidence, SendFalsification, deciding
  <1>8. CASE Answer \/ FinishVisit
    BY <1>8, <1>0 DEF Answer, FinishVisit
  <1>9. CASE Conclude
    BY <1>9, <1>0
    DEF Conclude, Close, Settle, RunRaises, Persist, PersistFails, StartGossip, Push, Return,
        deciding, looping
  <1>10. CASE Crash \/ UNCHANGED vars
    BY <1>10, <1>0 DEF Crash, vars, deciding, looping
  <1> QED
    BY <1>1, <1>2, <1>3, <1>4, <1>5, <1>6, <1>7, <1>8, <1>9, <1>10
    DEF Next, Step, Collect, Update
-----------------------------------------------------------------------------
(* The transcript and the store. *)

\* Outside the persist loop the store only gains the initiator's own
\* proposal, and the transcript only gains entries that do not close it.
LEMMA EntryNext == IInv /\ [Next]_vars => EntryInv'
  <1> SUFFICES ASSUME IInv, [Next]_vars PROVE EntryInv'
    OBVIOUS
  <1>a. TypeOK /\ EntryInv /\ TallyInv
    BY DEF IInv
  <1>b. entries \in Seq(Entries)
    BY <1>a DEF TypeOK
  <1> USE DEF Final
  <1>0. ASSUME UNCHANGED <<entries, tallies>>,
               \/ phase' \in {"failed", "crashed"}
               \/ phase' \notin {"settle", "persist", "gossip", "done"} /\ phase \notin {"settle", "persist", "gossip"} \cup Final
               \/ phase \in {"settle", "persist", "gossip", "done"} /\ phase' \in {"persist", "gossip", "done"}
               \/ UNCHANGED phase
        PROVE  EntryInv'
    BY <1>0, <1>a DEF EntryInv, Decided, LastTally
  <1>1. ASSUME NEW e \in Entries, e.type # "deliberation_closed", Log(e),
               phase \notin {"settle", "persist", "gossip"} \cup Final,
               phase' \notin {"settle", "persist", "gossip"} \cup Final
        PROVE  EntryInv'
    <2>1. entries' = Append(entries, e)
      BY <1>1 DEF Log
    <2>2. \A i \in 1 .. Len(entries) : entries[i].type # "deliberation_closed"
      BY <1>1, <1>a DEF EntryInv
    <2>3. \A i \in 1 .. Len(entries') : entries'[i].type # "deliberation_closed"
      BY <1>1, <1>b, <2>1, <2>2
    <2> QED
      BY <1>1, <2>3 DEF EntryInv
  <1>2. ASSUME NEW p \in Peers, Discover(p) \/ Request(p) PROVE EntryInv'
    BY <1>2, <1>0 DEF Discover, Request, deciding
  <1>3. ASSUME NEW p \in Peers, Record(p) PROVE EntryInv'
    <2>1. Emitted(p, replies[p]) \in Entries /\ Emitted(p, replies[p]).type # "deliberation_closed"
      BY <1>a, EntryTypes DEF TypeOK, Peers, Emitted
    <2> QED
      BY <1>3, <1>1, <2>1 DEF Record
  <1>4. CASE Open
    <2>1. Opened \in Entries /\ Opened.type # "deliberation_closed"
      BY <1>a, EntryTypes DEF Opened
    <2>2. CASE OverBudget
      BY <1>4, <2>2, <1>0 DEF Open, deciding
    <2>3. CASE ~OverBudget
      BY <1>4, <2>1, <2>3, <1>1 DEF Open
    <2> QED
      BY <2>2, <2>3
  <1>5. CASE OwnHandler \/ SelfFails
    BY <1>5, <1>0 DEF OwnHandler, SelfFails, deciding
  <1>6. CASE RecordSelf
    <2>1. Emitted(Self, replies[Self]) \in Entries /\ Emitted(Self, replies[Self]).type # "deliberation_closed"
      BY <1>a, EntryTypes, PeerDeliberationAssumption DEF TypeOK, Emitted
    <2> QED
      BY <1>6, <1>1, <2>1 DEF RecordSelf
  <1>7. CASE StartRound \/ EndRounds
    BY <1>7, <1>0 DEF StartRound, EndRounds, deciding
  <1>8. ASSUME NEW r \in Agents, Visit(r) PROVE EntryInv'
    BY <1>8, <1>0 DEF Visit, deciding
  <1>9. ASSUME NEW c \in Conditions, NoEvidence(c) PROVE EntryInv'
    BY <1>9, <1>0 DEF NoEvidence, deciding
  <1>10. ASSUME NEW c \in Conditions, SendFalsification(c) PROVE EntryInv'
    <2>1. /\ RoundEvent("falsification_evidence", evidence, current, c) \in Entries
          /\ RoundEvent("falsification_evidence", evidence, current, c).type # "deliberation_closed"
      BY <1>a, EntryTypes DEF TypeOK, Kinds, RoundEvent
    <2> QED
      BY <1>10, <1>1, <2>1 DEF SendFalsification
  <1>11. CASE Answer
    <2>1. PICK action \in Responses(current) :
             Log(RoundEvent(ResponseKind(action), current, NoOne, asked))
      BY <1>11 DEF Answer
    <2>2. /\ RoundEvent(ResponseKind(action), current, NoOne, asked) \in Entries
          /\ RoundEvent(ResponseKind(action), current, NoOne, asked).type # "deliberation_closed"
      BY <1>a, EntryTypes DEF TypeOK, Kinds, RoundEvent, ResponseKind
    <2> QED
      BY <1>11, <1>1, <2>1, <2>2 DEF Answer
  <1>12. CASE FinishVisit
    <2>1. /\ RoundEvent("revise", current, NoOne, NoOne) \in Entries
          /\ RoundEvent("revise", current, NoOne, NoOne).type # "deliberation_closed"
      BY <1>a, EntryTypes DEF TypeOK, Kinds, RoundEvent
    <2>2. CASE allFalsified
      BY <1>12, <2>1, <2>2, <1>1 DEF FinishVisit
    <2>3. CASE ~allFalsified
      BY <1>12, <2>3, <1>0 DEF FinishVisit
    <2> QED
      BY <2>2, <2>3
  <1>13. CASE FinishRound
    <2>1. /\ entries' = entries /\ phase = "visit" /\ phase' \in {"round", "close"}
      BY <1>13 DEF FinishRound
    <2> QED
      BY <2>1, <1>a DEF EntryInv
  <1>14. CASE Close
    <2>1. PICK b \in BOOLEAN : Log(Closed(Termination(LastTally, b)))
      BY <1>14 DEF Close
    <2>2. /\ phase = "close" /\ phase' = "settle" /\ LastTally' = LastTally
          /\ tallies # <<>>
      BY <1>14, <1>a DEF Close, deciding, LastTally, TallyInv, Ending
    <2>3. LastTally \in Tallies
      BY <1>a, <2>2 DEF LastTally, TypeOK
    <2>4. entries' = Append(entries, Closed(Termination(LastTally, b)))
      BY <2>1 DEF Log
    <2>5. Closed(Termination(LastTally, b)) \in Entries
      BY <1>a, <2>2, <2>3, TerminationType, EntryTypes
    <2>6. /\ Closed(Termination(LastTally, b)).type = "deliberation_closed"
          /\ Closed(Termination(LastTally, b)).status = Termination(LastTally, b)
      BY DEF Closed
    <2>7. /\ Len(entries') = Len(entries) + 1
          /\ entries'[Len(entries')] = Closed(Termination(LastTally, b))
          /\ \A i \in 1 .. Len(entries) : entries'[i] = entries[i]
      BY <1>b, <2>4, <2>5
    <2>8. \A i \in 1 .. Len(entries) : entries[i].type # "deliberation_closed"
      BY <2>2, <1>a DEF EntryInv
    <2>9. \A i \in 1 .. Len(entries') : entries'[i].type = "deliberation_closed" => i = Len(entries')
      BY <1>b, <2>7, <2>8
    <2>10. Decided(entries')
      BY <1>b, <2>4, <2>6, <2>7 DEF Decided
    <2>11. entries'[Len(entries')].status = Termination(LastTally', b)
      BY <2>2, <2>6, <2>7
    <2> QED
      BY <2>2, <2>9, <2>10, <2>11 DEF EntryInv, Decided
  <1>15. CASE Settle \/ RunRaises \/ Persist \/ PersistFails \/ StartGossip \/ Return
    BY <1>15, <1>0 DEF Settle, RunRaises, Persist, PersistFails, StartGossip, Return, deciding
  <1>16. ASSUME NEW t \in Agents, Push(t) PROVE EntryInv'
    BY <1>16, <1>0 DEF Push, deciding
  <1>17. CASE Crash \/ UNCHANGED vars
    BY <1>17, <1>0 DEF Crash, vars, deciding
  <1> QED
    BY <1>2, <1>3, <1>4, <1>5, <1>6, <1>7, <1>8, <1>9, <1>10, <1>11, <1>12, <1>13, <1>14,
       <1>15, <1>16, <1>17
    DEF Next, Step, Collect, Update, Conclude

LEMMA JournalNext == IInv /\ [Next]_vars => JournalInv'
  <1> SUFFICES ASSUME IInv, [Next]_vars PROVE JournalInv'
    OBVIOUS
  <1>a. TypeOK /\ EntryInv /\ JournalInv
    BY DEF IInv
  <1>b. /\ entries \in Seq(Entries) /\ journal \in Seq(Entries)
        /\ persisted \in 0 .. Len(entries)
    BY <1>a DEF TypeOK
  <1> USE DEF Final
  <1>0. ASSUME UNCHANGED <<journal, delivered>>,
               persisted' = 0, persisted = 0,
               phase \notin {"persist", "gossip"} \cup Final,
               phase' \notin {"persist", "gossip", "done"}
        PROVE  JournalInv'
    BY <1>0, <1>a DEF JournalInv, GossipIsDurable, Decided
  <1>1. ASSUME NEW p \in Peers, Discover(p) \/ Request(p) \/ Record(p) PROVE JournalInv'
    BY <1>1, <1>0, <1>a DEF Discover, Request, Record, output, JournalInv
  <1>2. CASE Open \/ RecordSelf \/ SelfFails
    BY <1>2, <1>0, <1>a DEF Open, RecordSelf, SelfFails, output, JournalInv
  <1>3. CASE OwnHandler
    <2>1. PICK offer \in Offers : journal' = Append(journal, Emitted(Self, Submitted(offer)))
      BY <1>3 DEF OwnHandler
    <2>2. journal'[Len(journal')] = Emitted(Self, Submitted(offer))
      BY <1>b, <2>1
    <2>3. ~Decided(journal')
      BY <2>2 DEF Decided, Emitted
    <2>4. delivered' = {} /\ persisted' = 0 /\ phase' = "self"
      BY <1>3, <1>a DEF OwnHandler, JournalInv
    <2> QED
      BY <2>3, <2>4 DEF JournalInv, GossipIsDurable, Decided
  <1>4. CASE Update
    BY <1>4, <1>0, <1>a
    DEF Update, StartRound, EndRounds, Visit, NoEvidence, SendFalsification, Answer, FinishVisit,
        FinishRound, output, JournalInv
  <1>5. CASE Close \/ RunRaises
    BY <1>5, <1>0, <1>a DEF Close, RunRaises, output, JournalInv
  <1>6. CASE Settle
    <2>1. /\ phase = "settle" /\ phase' = "persist" /\ UNCHANGED <<entries, persisted, journal, delivered>>
      BY <1>6 DEF Settle
    <2>2. Len(entries) > 0 /\ persisted = 0 /\ ~Decided(journal) /\ delivered = {}
      BY <1>b, <2>1, <1>a DEF EntryInv, JournalInv, Decided
    <2> QED
      BY <1>b, <2>1, <2>2 DEF JournalInv, GossipIsDurable, Decided
  <1>7. CASE Persist
    <2>1. /\ phase = "persist" /\ phase' = "persist" /\ UNCHANGED <<entries, delivered>>
          /\ persisted < Len(entries) /\ persisted' = persisted + 1
          /\ journal' = Append(journal, entries[persisted + 1])
      BY <1>7 DEF Persist
    <2>2. /\ journal' # <<>> /\ journal'[Len(journal')] = entries[persisted + 1]
          /\ persisted + 1 \in 1 .. Len(entries)
      BY <1>b, <2>1
    <2>3. Decided(journal') <=> persisted + 1 = Len(entries)
      BY <1>b, <2>1, <2>2, <1>a DEF EntryInv, Decided
    <2>4. delivered = {}
      BY <2>1, <1>a DEF JournalInv
    <2> QED
      BY <2>1, <2>3, <2>4 DEF JournalInv, GossipIsDurable, Decided
  <1>8. CASE PersistFails
    BY <1>8, <1>b, <1>a DEF PersistFails, output, JournalInv, GossipIsDurable, Decided
  <1>9. CASE StartGossip
    BY <1>9, <1>a DEF StartGossip, output, JournalInv, GossipIsDurable, Decided
  <1>10. ASSUME NEW t \in Agents, Push(t) PROVE JournalInv'
    BY <1>10, <1>a DEF Push, JournalInv, GossipIsDurable, Decided
  <1>11. CASE Return
    BY <1>11, <1>a DEF Return, output, JournalInv, GossipIsDurable, Decided
  <1>12. CASE Crash
    BY <1>12, <1>a DEF Crash, output, JournalInv, GossipIsDurable, Decided
  <1>13. CASE UNCHANGED vars
    BY <1>13, <1>a DEF vars, output, JournalInv, GossipIsDurable, Decided
  <1> QED
    BY <1>1, <1>2, <1>3, <1>4, <1>5, <1>6, <1>7, <1>8, <1>9, <1>10, <1>11, <1>12, <1>13
    DEF Next, Step, Collect, Conclude
-----------------------------------------------------------------------------
(* The theorems. *)

LEMMA InvInit == Init => IInv
  <1> SUFFICES ASSUME Init PROVE IInv
    OBVIOUS
  <1>1. TypeOK
    BY TypeInit
  <1>2. ProposalInv /\ JustifiedRevisions
    BY DEF Init, NoProposal, ProposalInv, JustifiedRevisions
  <1>3. VisitInv /\ TallyInv
    BY DEF Init, VisitInv, TallyInv, InRound, Ending
  <1>4. RoundInv
    BY PeerDeliberationAssumption DEF Init, RoundInv, InRound
  <1>5. EntryInv /\ JournalInv
    BY DEF Init, EntryInv, JournalInv, GossipIsDurable, Decided, Final
  <1> QED
    BY <1>1, <1>2, <1>3, <1>4, <1>5 DEF IInv

LEMMA InvNext == IInv /\ [Next]_vars => IInv'
  BY TypeNext, ProposalNext, VisitNext, TallyNext, RoundNext, EntryNext, JournalNext DEF IInv

\* The inductive invariant holds throughout every run.
THEOREM Invariance == Spec => []IInv
  BY InvInit, InvNext, PTL DEF Spec

\* Every variable keeps its type, whatever the peers answer and whenever the
\* process dies.
THEOREM TypeCorrect == Spec => []TypeOK
  <1>1. IInv => TypeOK
    BY DEF IInv
  <1> QED
    BY <1>1, Invariance, PTL

\* No vote is withdrawn unless all of its dissent conditions, and at least
\* one, were falsified, and none is withdrawn twice.
THEOREM RevisionsAreJustified == Spec => []JustifiedRevisions
  <1>1. IInv => JustifiedRevisions
    BY DEF IInv
  <1> QED
    BY <1>1, Invariance, PTL

\* The termination is decided on a tally of the votes as they stand.
THEOREM TerminationIsFresh == Spec => []FinalTallyFresh
  <1>1. IInv => FinalTallyFresh
    BY DEF IInv, TallyInv, Ending, FinalTallyFresh
  <1> QED
    BY <1>1, Invariance, PTL

\* A peer holds the transcript only if the store holds all of it.
THEOREM GossipFollowsStore == Spec => []GossipIsDurable
  <1>1. IInv => GossipIsDurable
    BY DEF IInv, JournalInv
  <1> QED
    BY <1>1, Invariance, PTL
-----------------------------------------------------------------------------
(* Refinement. *)

LEMMA RefineInit == Init => Abstract!Init
  BY DEF Init, Abstract!Init, Abstract!EmptyBox, Stage, Decided

\* While the store has no closing entry, a step that keeps the tallies, the
\* last ballots and the run going is invisible; ending it is an abort.
LEMMA Quiet ==
    ASSUME IInv, ~Decided(journal), ~Decided(journal'), UNCHANGED <<tallied, tallies>>,
           phase \notin Final
    PROVE  /\ phase' \notin {"failed", "crashed"} => UNCHANGED Abstract!vars
           /\ phase' \in {"failed", "crashed"} => Abstract!Abort
  BY DEF Abstract!vars, Abstract!Abort, Stage, Final

LEMMA RefineNext == IInv /\ [Next]_vars => [Abstract!Next]_(Abstract!vars)
  <1> SUFFICES ASSUME IInv, [Next]_vars PROVE Abstract!Next \/ UNCHANGED Abstract!vars
    OBVIOUS
  <1>a. TypeOK /\ ProposalInv /\ TallyInv /\ RoundInv /\ EntryInv /\ JournalInv /\ JournalInv'
    BY JournalNext DEF IInv
  <1> USE DEF Final
  <1>0. ASSUME ~Decided(journal), ~Decided(journal'), UNCHANGED <<tallied, tallies>>,
               phase \notin Final
        PROVE  Abstract!Next \/ UNCHANGED Abstract!vars
    BY <1>0, Quiet DEF Abstract!Next
  <1>1. ASSUME phase \notin {"persist", "gossip"} \cup Final,
               phase' \notin {"persist", "gossip", "done", "crashed"},
               UNCHANGED <<tallied, tallies>>
        PROVE  Abstract!Next \/ UNCHANGED Abstract!vars
    BY <1>0, <1>1, <1>a DEF JournalInv
  <1>2. ASSUME NEW p \in Peers, Discover(p) \/ Request(p) \/ Record(p)
        PROVE  Abstract!Next \/ UNCHANGED Abstract!vars
    BY <1>1, <1>2 DEF Discover, Request, Record, deciding
  <1>3. CASE Open \/ OwnHandler \/ SelfFails
    BY <1>1, <1>3 DEF Open, OwnHandler, SelfFails, deciding
  <1>4. CASE RecordSelf
    <2>1. /\ phase = "self" /\ phase' = "round"
          /\ tallied' = Ballots(proposals') /\ tallies' = <<Tally(tallied')>>
          /\ proposals' = [proposals EXCEPT ![Self] = replies[Self]]
          /\ journal' = journal
      BY <1>4 DEF RecordSelf, output
    <2>2. tallies = <<>> /\ ~Decided(journal) /\ replies[Self].vote # "none"
      BY <2>1, <1>a DEF TallyInv, Before, JournalInv, ProposalInv
    <2>3. Self \in Recorded(proposals') /\ Recorded(proposals') \in SUBSET Agents
      BY <2>1, <2>2, <1>a, PeerDeliberationAssumption DEF Recorded, TypeOK
    <2>4. proposals' \in [Agents -> Proposals]
      BY <2>1, <1>a, PeerDeliberationAssumption DEF TypeOK
    <2>5. tallied' \in [Recorded(proposals') -> Abstract!Vote]
      BY <2>1, <2>4 DEF Ballots, Recorded, CurrentVote, Proposals, Vote, Abstract!Vote
    <2>6. Stage = "collecting" /\ Stage' = "deliberating"
      BY <2>1, <2>2 DEF Stage
    <2>7. Abstract!Open
      <3>1. tallies' # <<>> /\ Len(tallies') - 1 = 0
        BY <2>1
      <3>2. \E S \in SUBSET Agents : Self \in S /\ tallied' \in [S -> Abstract!Vote]
        BY <2>3, <2>5
      <3> QED
        BY <2>1, <2>2, <2>6, <3>1, <3>2 DEF Abstract!Open
    <2> QED
      BY <2>7 DEF Abstract!Next
  <1>5. CASE StartRound \/ EndRounds
    BY <1>1, <1>5 DEF StartRound, EndRounds, deciding
  <1>6. ASSUME NEW r \in Agents, Visit(r) PROVE Abstract!Next \/ UNCHANGED Abstract!vars
    BY <1>1, <1>6 DEF Visit, deciding
  <1>7. ASSUME NEW c \in Conditions, NoEvidence(c) \/ SendFalsification(c)
        PROVE  Abstract!Next \/ UNCHANGED Abstract!vars
    BY <1>1, <1>7 DEF NoEvidence, SendFalsification, deciding
  <1>8. CASE Answer \/ FinishVisit
    BY <1>1, <1>8 DEF Answer, FinishVisit
  <1>9. CASE FinishRound
    <2>1. CASE revised
      <3>1. /\ phase = "visit" /\ phase' = "round" /\ journal' = journal
            /\ tallied' = Ballots(proposals) /\ tallies' = Append(tallies, Tally(tallied'))
        BY <1>9, <2>1 DEF FinishRound, TallyAgain, output
      <3>2. /\ tallies # <<>> /\ LastTally = Tally(tallied)
            /\ DOMAIN tallied = Recorded(proposals) /\ ~LastTally.converged
        BY <3>1, <1>a DEF TallyInv, InRound
      <3>3. ~Decided(journal) /\ Len(tallies) = rounds /\ rounds <= MaxRounds
        BY <3>1, <1>a DEF JournalInv, RoundInv, InRound
      <3>4. /\ tallies' # <<>> /\ Len(tallies') = Len(tallies) + 1
            /\ Len(tallies) \in Nat /\ Len(tallies) > 0
        <4>1. tallies \in Seq(Tallies) /\ Tally(tallied') \in Tallies
          BY <3>1, <1>a, BallotsType DEF TypeOK
        <4> QED
          BY <3>1, <3>2, <4>1
      <3>5. Stage = "deliberating" /\ Stage' = "deliberating"
        BY <3>1, <3>2, <3>3, <3>4 DEF Stage
      <3> DEFINE S == {a \in Recorded(proposals) : /\ tallied[a] = "reject"
                                                   /\ CurrentVote(proposals[a]) = "abstain"}
      <3>6. S # {} /\ S \subseteq Abstract!Rejecters(tallied)
        BY <2>1, <3>1, <3>2, <1>a DEF TallyInv, InRound, Abstract!Rejecters
      <3>7. \A a \in Recorded(proposals) :
               CurrentVote(proposals[a]) = IF a \in S THEN "abstain" ELSE tallied[a]
        BY <3>1, <1>a DEF TallyInv, InRound
      <3>8. tallied' = Abstract!Soften(tallied, S)
        BY <3>1, <3>2, <3>7 DEF Ballots, Abstract!Soften
      <3>9. ~ConvergedBy(tallied)
        BY <3>2 DEF ConvergedBy
      <3>10. Abstract!Round
        <4>1. MaxRounds \in Nat /\ rounds \in Nat
          BY <1>a, PeerDeliberationAssumption DEF TypeOK
        <4>2. Len(tallies) - 1 < MaxRounds /\ Len(tallies') - 1 = Len(tallies) - 1 + 1
          BY <3>3, <3>4, <4>1
        <4>3. \E T \in SUBSET Abstract!Rejecters(tallied) :
                 T # {} /\ tallied' = Abstract!Soften(tallied, T)
          BY <3>6, <3>8
        <4> QED
          BY <3>1, <3>2, <3>3, <3>4, <3>5, <3>9, <4>2, <4>3 DEF Abstract!Round
      <3> QED
        BY <3>10 DEF Abstract!Next
    <2>2. CASE ~revised
      BY <1>1, <1>9, <2>2 DEF FinishRound
    <2> QED
      BY <2>1, <2>2
  <1>10. CASE Close \/ RunRaises
    BY <1>1, <1>10 DEF Close, RunRaises, deciding
  <1>11. CASE Settle
    BY <1>0, <1>11, <1>a DEF Settle, deciding, JournalInv
  <1>12. CASE Persist
    <2>1. /\ phase = "persist" /\ phase' = "persist"
          /\ UNCHANGED <<entries, tallied, tallies>>
          /\ persisted < Len(entries) /\ persisted' = persisted + 1
          /\ journal' = Append(journal, entries[persisted + 1])
      BY <1>12 DEF Persist, deciding
    <2>2. ~Decided(journal)
      BY <2>1, <1>a DEF JournalInv, TypeOK
    <2>3. CASE ~Decided(journal')
      BY <1>0, <2>1, <2>2, <2>3
    <2>4. CASE Decided(journal')
      <3>1. /\ entries \in Seq(Entries) /\ journal \in Seq(Entries)
            /\ persisted \in 0 .. Len(entries)
        BY <1>a DEF TypeOK
      <3>2. persisted' = Len(entries)
        BY <2>1, <2>4, <1>a DEF JournalInv
      <3>3. journal'[Len(journal')] = entries[Len(entries)]
        BY <2>1, <3>1, <3>2
      <3>4. PICK subset \in BOOLEAN :
               entries[Len(entries)].status = Termination(LastTally, subset)
        BY <2>1, <1>a DEF EntryInv
      <3>5. tallies # <<>> /\ LastTally = Tally(tallied)
        BY <2>1, <1>a DEF TallyInv, Ending
      <3>6. journal'[Len(journal')].status \in OutcomesOf(tallied)
        BY <3>3, <3>4, <3>5 DEF OutcomesOf
      <3>7. Stage = "deliberating" /\ Stage' = "decided"
        BY <2>1, <2>2, <2>4, <3>5 DEF Stage
      <3>8. Abstract!Decide
        BY <2>1, <2>2, <2>4, <3>6, <3>7 DEF Abstract!Decide
      <3> QED
        BY <3>8 DEF Abstract!Next
    <2> QED
      BY <2>3, <2>4
  <1>13. CASE PersistFails
    <2>1. ~Decided(journal)
      BY <1>13, <1>a DEF PersistFails, JournalInv, TypeOK
    <2> QED
      BY <1>0, <1>13, <2>1 DEF PersistFails, deciding, output
  <1>14. ASSUME Decided(journal), UNCHANGED <<journal, tallied, tallies>>
         PROVE  UNCHANGED Abstract!vars
    BY <1>14 DEF Abstract!vars, Stage
  <1>15. CASE StartGossip
    <2>1. Decided(journal)
      BY <1>15, <1>a DEF StartGossip, JournalInv
    <2> QED
      BY <1>14, <1>15, <2>1 DEF StartGossip, deciding, output
  <1>16. ASSUME NEW t \in Agents, Push(t) PROVE Abstract!Next \/ UNCHANGED Abstract!vars
    <2>1. Decided(journal)
      BY <1>16, <1>a DEF Push, JournalInv
    <2> QED
      BY <1>14, <1>16, <2>1 DEF Push, deciding
  <1>17. CASE Return
    <2>1. Decided(journal)
      BY <1>17, <1>a DEF Return, JournalInv
    <2> QED
      BY <1>14, <1>17, <2>1 DEF Return, deciding, output
  <1>18. CASE Crash
    <2>1. phase \notin Final /\ UNCHANGED <<journal, tallied, tallies>>
      BY <1>18 DEF Crash, deciding, output
    <2>2. CASE Decided(journal)
      BY <1>14, <2>1, <2>2
    <2>3. CASE ~Decided(journal)
      BY <1>0, <2>1, <2>3 DEF Decided
    <2> QED
      BY <2>2, <2>3
  <1>19. CASE UNCHANGED vars
    BY <1>19 DEF vars, deciding, output, Abstract!vars, Stage, Decided
  <1> QED
    BY <1>2, <1>3, <1>4, <1>5, <1>6, <1>7, <1>8, <1>9, <1>10, <1>11, <1>12, <1>13, <1>15,
       <1>16, <1>17, <1>18, <1>19
    DEF Next, Step, Collect, Update, Conclude

\* A run is a deliberation: ballots that only soften in rounds held while the
\* vote had not converged, at most MaxRounds of them, and an outcome that is a
\* function of the last ballots and, once in the store, final.
THEOREM RunImplementsDeliberation == Spec => ImplementsDeliberation
  BY RefineInit, RefineNext, Invariance, PTL DEF Spec, ImplementsDeliberation, Abstract!Spec

\* A deliberation that is decided takes no other step, and neither does, where
\* it shows, a run whose store holds the decision: what raises or dies after
\* that changes neither the outcome nor the ballots it was taken on
\* (peer_deliberation.py:404-414).
THEOREM DecisionsAreFinal ==
    Spec => [][Decided(journal) =>
                  /\ Decided(journal')
                  /\ journal'[Len(journal')].status = journal[Len(journal)].status
                  /\ tallied' = tallied]_vars
  <1>1. IInv /\ [Next]_vars =>
          [Decided(journal) =>
              /\ Decided(journal')
              /\ journal'[Len(journal')].status = journal[Len(journal)].status
              /\ tallied' = tallied]_vars
    <2> SUFFICES ASSUME IInv, [Next]_vars, Decided(journal)
                 PROVE  /\ Decided(journal')
                        /\ journal'[Len(journal')].status = journal[Len(journal)].status
                        /\ tallied' = tallied
      OBVIOUS
    <2>1. Stage = "decided"
      BY DEF Stage
    <2>2. ~Abstract!Next
      BY <2>1 DEF Abstract!Next, Abstract!Open, Abstract!Round, Abstract!Decide, Abstract!Abort
    <2>3. UNCHANGED Abstract!vars
      BY <2>2, RefineNext
    <2>4. Stage' = "decided"
      BY <2>1, <2>3 DEF Abstract!vars
    <2>5. Decided(journal')
      BY <2>4 DEF Stage
    <2> QED
      BY <2>3, <2>5 DEF Abstract!vars
  <1> QED
    BY <1>1, Invariance, PTL DEF Spec
-----------------------------------------------------------------------------
(* Proposals are recorded once. *)

\* A proposal that is still to be recorded is its author's first.
FreshInv ==
    /\ \A a \in Agents : replies[a].vote = "none" \/ proposals[a].vote = "none"
    /\ phase = "discover" => \A a \in Agents : proposals[a].vote = "none"
    /\ phase = "collect" => \A a \in pending : proposals[a].vote = "none"
    /\ phase \in Before => proposals[Self].vote = "none"

LEMMA FreshInit == Init => FreshInv
  BY PeerDeliberationAssumption DEF Init, FreshInv, NoProposal

\* A step of the run that is not one of these leaves proposals and replies as
\* they are, and does not go back before the first tally.
LEMMA OtherSteps ==
    ASSUME [Next]_vars, phase \notin {"discover", "collect", "self"}, ~Answer, ~FinishVisit
    PROVE  UNCHANGED <<replies, proposals>> /\ phase' \notin Before
  <1> USE DEF Before
  <1>1. CASE Collect
    BY <1>1 DEF Collect, Discover, Request, Record, Open, OwnHandler, RecordSelf, SelfFails
  <1>2. CASE StartRound \/ EndRounds \/ FinishRound
    BY <1>2 DEF StartRound, EndRounds, FinishRound, TallyAgain, collecting, deciding
  <1>3. CASE \/ \E r \in Agents : Visit(r)
             \/ \E c \in Conditions : NoEvidence(c) \/ SendFalsification(c)
    BY <1>3 DEF Visit, NoEvidence, SendFalsification, collecting, deciding
  <1>4. CASE Conclude
    BY <1>4
    DEF Conclude, Close, Settle, RunRaises, Persist, PersistFails, StartGossip, Push, Return,
        collecting, deciding
  <1>5. CASE Crash \/ UNCHANGED vars
    BY <1>5 DEF Crash, vars, collecting, deciding
  <1> QED
    BY <1>1, <1>2, <1>3, <1>4, <1>5 DEF Next, Step, Update

\* While it collects, the run only takes proposals in and records them.
LEMMA CollectSteps ==
    ASSUME [Next]_vars, phase \in {"discover", "collect", "self"}
    PROVE  Collect \/ Crash \/ UNCHANGED vars
  <1>1. ~Update
    BY DEF Update, StartRound, EndRounds, FinishRound, Visit, NoEvidence, SendFalsification,
           Answer, FinishVisit
  <1>2. ~Conclude
    BY DEF Conclude, Close, Settle, RunRaises, Persist, PersistFails, StartGossip, Push, Return
  <1> QED
    BY <1>1, <1>2 DEF Next, Step

\* The frame of a visit's end: at most the current rejecter's vote is
\* withdrawn, and nothing else about any proposal changes.
LEMMA FinishVisitFrame ==
    ASSUME IInv, FinishVisit
    PROVE  \/ proposals' = proposals /\ revised' = revised
           \/ /\ current \in Agents
              /\ proposals[current].vote = "reject"
              /\ proposals[current].revisions = 0
              /\ \A b \in Agents \ {current} : proposals'[b] = proposals[b]
              /\ proposals'[current].vote = "reject"
              /\ proposals'[current].revisions = 1
              /\ revised'
  <1>1. /\ current \in Agents
        /\ proposals[current].vote = "reject"
        /\ proposals[current].revisions = 0
        /\ proposals \in [Agents -> Proposals]
    BY DEF IInv, TypeOK, VisitInv, InRound, FinishVisit
  <1>2. CASE allFalsified
    <2>1. proposals' = ReviseToAbstain(proposals, current) /\ revised' = TRUE
      BY <1>2 DEF FinishVisit
    <2>2. /\ \A b \in Agents \ {current} : proposals'[b] = proposals[b]
          /\ proposals'[current].vote = proposals[current].vote
          /\ proposals'[current].revisions = proposals[current].revisions + 1
      BY <1>1, <2>1, ReviseChangesOne
    <2>3. proposals'[current].vote = "reject" /\ proposals'[current].revisions = 1
      BY <1>1, <2>2
    <2> QED
      BY <1>1, <2>1, <2>2, <2>3, Zenon
  <1>3. CASE ~allFalsified
    BY <1>3 DEF FinishVisit
  <1> QED
    BY <1>2, <1>3

LEMMA FreshNext == IInv /\ FreshInv /\ [Next]_vars => FreshInv'
  <1> SUFFICES ASSUME IInv, FreshInv, [Next]_vars PROVE FreshInv'
    OBVIOUS
  <1>a. TypeOK
    BY DEF IInv
  <1>b. Self \in Agents /\ Peers \subseteq Agents
    BY PeerDeliberationAssumption DEF Peers
  <1> USE DEF Before
  <1>0. ASSUME UNCHANGED <<replies, proposals>>,
               phase' \notin Before \/ UNCHANGED <<phase, pending>>
        PROVE  FreshInv'
    BY <1>0 DEF FreshInv
  <1>1. ASSUME NEW p \in Peers, Discover(p) PROVE FreshInv'
    BY <1>1, <1>b DEF Discover, deciding, FreshInv
  <1>2. ASSUME NEW p \in Peers, Request(p) PROVE FreshInv'
    BY <1>2, <1>a, <1>b DEF Request, deciding, FreshInv, TypeOK
  <1>3. ASSUME NEW p \in Peers, Record(p) PROVE FreshInv'
    <2>1. p # Self
      BY DEF Peers
    <2> QED
      BY <1>3, <2>1, <1>a, <1>b DEF Record, NoProposal, FreshInv, TypeOK
  <1>4. CASE Open
    BY <1>4, <1>a, <1>b DEF Open, deciding, FreshInv, TypeOK
  <1>5. CASE OwnHandler
    BY <1>5, <1>a, <1>b DEF OwnHandler, deciding, FreshInv, TypeOK
  <1>6. CASE RecordSelf
    BY <1>6, <1>a, <1>b DEF RecordSelf, NoProposal, FreshInv, TypeOK
  <1>7. CASE SelfFails
    BY <1>7, <1>0 DEF SelfFails, collecting, deciding
  <1>8. CASE Answer
    <2>1. \A a \in Agents : proposals'[a].vote = proposals[a].vote
      BY <1>8, AnswerFrame
    <2>2. replies' = replies /\ phase' = "test"
      BY <1>8 DEF Answer, collecting
    <2> QED
      BY <2>1, <2>2 DEF FreshInv
  <1>9. CASE FinishVisit
    <2>1. \A a \in Agents : proposals'[a].vote = proposals[a].vote
      BY <1>9, FinishVisitFrame
    <2>2. replies' = replies /\ phase' = "visit"
      BY <1>9 DEF FinishVisit, collecting
    <2> QED
      BY <2>1, <2>2 DEF FreshInv
  <1>10. CASE Crash \/ UNCHANGED vars
    BY <1>10, <1>0 DEF Crash, vars, collecting, deciding
  <1>11. CASE phase \notin Before /\ ~Answer /\ ~FinishVisit
    BY <1>11, <1>0, OtherSteps
  <1>12. CASE phase \in Before /\ Collect
    BY <1>12, <1>1, <1>2, <1>3, <1>4, <1>5, <1>6, <1>7 DEF Collect
  <1> QED
    BY <1>8, <1>9, <1>10, <1>11, <1>12, CollectSteps

\* A proposal is recorded once: what a peer or the own handler answers never
\* replaces a proposal with revisions (peer_deliberation.py:231-262).
THEOREM ProposalsAreFresh == Spec => []FreshInv
  <1>1. IInv /\ FreshInv /\ [Next]_vars => FreshInv'
    BY FreshNext
  <1> QED
    BY <1>1, FreshInit, Invariance, PTL DEF Spec
-----------------------------------------------------------------------------
(* How votes change. *)

\* Recording agent p's first proposal changes no vote that was recorded.
LEMMA RecordKeepsVotes ==
    ASSUME TypeOK, NEW p \in Agents, proposals[p].vote = "none",
           proposals' = [proposals EXCEPT ![p] = replies[p]]
    PROVE  /\ Recorded(proposals) \subseteq Recorded(proposals')
           /\ \A a \in Recorded(proposals) : proposals'[a] = proposals[a]
  BY DEF TypeOK, Recorded

LEMMA VotesNext ==
    ASSUME IInv, FreshInv, [Next]_vars
    PROVE  /\ Recorded(proposals) \subseteq Recorded(proposals')
           /\ \A a \in Recorded(proposals) :
                 CurrentVote(proposals'[a]) # CurrentVote(proposals[a]) =>
                     /\ CurrentVote(proposals[a]) = "reject"
                     /\ CurrentVote(proposals'[a]) = "abstain"
                     /\ \A b \in Agents \ {a} : proposals'[b] = proposals[b]
  <1> DEFINE Goal ==
        /\ Recorded(proposals) \subseteq Recorded(proposals')
        /\ \A a \in Recorded(proposals) :
              CurrentVote(proposals'[a]) # CurrentVote(proposals[a]) =>
                  /\ CurrentVote(proposals[a]) = "reject"
                  /\ CurrentVote(proposals'[a]) = "abstain"
                  /\ \A b \in Agents \ {a} : proposals'[b] = proposals[b]
  <1> SUFFICES Goal
    OBVIOUS
  <1>a. TypeOK
    BY DEF IInv
  <1>b. Self \in Agents /\ Peers \subseteq Agents
    BY PeerDeliberationAssumption DEF Peers
  <1>0. ASSUME UNCHANGED proposals PROVE Goal
    BY <1>0 DEF Recorded
  <1>1. ASSUME NEW p \in Peers, Record(p) PROVE Goal
    <2>1. proposals[p].vote = "none"
      BY <1>1, <1>b DEF Record, FreshInv
    <2> QED
      BY <1>1, <2>1, <1>a, <1>b, RecordKeepsVotes DEF Record
  <1>2. CASE RecordSelf
    <2>1. proposals[Self].vote = "none"
      BY <1>2 DEF RecordSelf, FreshInv, Before
    <2> QED
      BY <1>2, <2>1, <1>a, <1>b, RecordKeepsVotes DEF RecordSelf
  <1>3. CASE Answer
    <2>1. \A a \in Agents : /\ proposals'[a].vote = proposals[a].vote
                            /\ proposals'[a].revisions = proposals[a].revisions
      BY <1>3, AnswerFrame
    <2> QED
      BY <2>1 DEF Recorded, CurrentVote
  <1>4. CASE FinishVisit
    <2>1. CASE proposals' = proposals
      BY <2>1, <1>0
    <2>2. CASE /\ current \in Agents
               /\ proposals[current].vote = "reject"
               /\ proposals[current].revisions = 0
               /\ \A b \in Agents \ {current} : proposals'[b] = proposals[b]
               /\ proposals'[current].vote = "reject"
               /\ proposals'[current].revisions = 1
      BY <2>2 DEF Recorded, CurrentVote
    <2> QED
      BY <1>4, <2>1, <2>2, FinishVisitFrame
  <1>5. CASE phase \notin Before /\ ~Answer /\ ~FinishVisit
    BY <1>5, <1>0, OtherSteps DEF Before
  <1>6. CASE phase \in Before /\ Collect
    <2>1. ASSUME NEW p \in Peers, Discover(p) \/ Request(p) PROVE Goal
      BY <2>1, <1>0 DEF Discover, Request, deciding
    <2>2. CASE Open \/ OwnHandler \/ SelfFails
      BY <2>2, <1>0 DEF Open, OwnHandler, SelfFails, deciding
    <2> QED
      BY <1>6, <1>1, <1>2, <2>1, <2>2 DEF Collect
  <1>7. CASE Crash \/ UNCHANGED vars
    BY <1>7, <1>0 DEF Crash, vars, deciding
  <1> HIDE DEF Goal
  <1> QED
    BY <1>3, <1>4, <1>5, <1>6, <1>7, CollectSteps DEF Before

\* Whatever the peers answer, whoever fails and whenever the run dies, a step
\* changes at most one recorded vote, and only from reject to abstain.
THEOREM VotesOnlyEverSoften == Spec => VotesOnlySoften
  <1>1. IInv /\ FreshInv /\ [Next]_vars =>
          [/\ Recorded(proposals) \subseteq Recorded(proposals')
           /\ \A a \in Recorded(proposals) :
                 CurrentVote(proposals'[a]) # CurrentVote(proposals[a]) =>
                     /\ CurrentVote(proposals[a]) = "reject"
                     /\ CurrentVote(proposals'[a]) = "abstain"
                     /\ \A b \in Agents \ {a} : proposals'[b] = proposals[b]]_vars
    BY VotesNext
  <1> QED
    BY <1>1, Invariance, ProposalsAreFresh, PTL DEF Spec, VotesOnlySoften
-----------------------------------------------------------------------------
(* How many rounds are held. *)

Revised(ps) == {a \in Agents : ps[a].revisions > 0}

\* Each round but the current one has moved some agent's vote, and so has the
\* current one once `revised` is set; no vote is moved twice.
MoveInv ==
    /\ phase = "round" => rounds <= Cardinality(Revised(proposals))
    /\ phase \in InRound /\ revised => rounds <= Cardinality(Revised(proposals))
    /\ rounds <= Cardinality(Revised(proposals)) + 1

LEMMA RevisedFinite ==
    \A ps : IsFiniteSet(Revised(ps)) /\ Cardinality(Revised(ps)) \in Nat
  <1>1. \A ps : Revised(ps) \subseteq Agents
    BY DEF Revised
  <1> QED
    BY <1>1, PeerDeliberationAssumption, FS_Subset, FS_CardinalityType

LEMMA MoveNext == IInv /\ FreshInv /\ MoveInv /\ [Next]_vars => MoveInv'
  <1> SUFFICES ASSUME IInv, FreshInv, MoveInv, [Next]_vars PROVE MoveInv'
    OBVIOUS
  <1>a. TypeOK /\ RoundInv
    BY DEF IInv
  <1>b. /\ rounds \in Nat
        /\ Cardinality(Revised(proposals)) \in Nat
        /\ Cardinality(Revised(proposals')) \in Nat
    BY <1>a, RevisedFinite DEF TypeOK
  <1> USE DEF InRound
  <1>0. ASSUME Revised(proposals') = Revised(proposals), UNCHANGED rounds,
               \/ phase' \notin InRound \cup {"round"}
               \/ phase \in InRound /\ phase' \in InRound /\ UNCHANGED revised
               \/ UNCHANGED <<phase, revised>>
        PROVE  MoveInv'
    BY <1>0 DEF MoveInv
  <1>1. CASE phase \in Before /\ Collect
    <2>1. rounds = 0 /\ rounds' = 0
      BY <1>1, <1>a
      DEF RoundInv, Collect, Discover, Request, Record, Open, OwnHandler, RecordSelf, SelfFails,
          looping
    <2> QED
      BY <2>1, <1>b DEF MoveInv
  <1>2. CASE StartRound
    <2>1. rounds' = rounds + 1 /\ revised' = FALSE /\ phase' = "visit" /\ proposals' = proposals
      BY <1>2 DEF StartRound, deciding
    <2>2. rounds <= Cardinality(Revised(proposals))
      BY <1>2 DEF StartRound, MoveInv
    <2> QED
      BY <2>1, <2>2, <1>b DEF MoveInv
  <1>3. CASE FinishRound
    <2>1. /\ phase \in InRound
          /\ UNCHANGED <<rounds, revised, proposals>>
          /\ phase' = "round" => revised
          /\ phase' \in {"round", "close"}
      BY <1>3, <1>a DEF FinishRound, TypeOK, looping
    <2> QED
      BY <2>1 DEF MoveInv
  <1>4. CASE Answer
    <2>1. \A a \in Agents : proposals'[a].revisions = proposals[a].revisions
      BY <1>4, AnswerFrame
    <2>2. Revised(proposals') = Revised(proposals)
      BY <2>1 DEF Revised
    <2> QED
      BY <1>4, <2>2, <1>0 DEF Answer
  <1>5. CASE FinishVisit
    <2>1. phase \in InRound /\ phase' \in InRound /\ UNCHANGED rounds
      BY <1>5 DEF FinishVisit
    <2>2. CASE proposals' = proposals /\ revised' = revised
      BY <2>1, <2>2, <1>0
    <2>3. CASE /\ current \in Agents
               /\ proposals[current].revisions = 0
               /\ \A b \in Agents \ {current} : proposals'[b] = proposals[b]
               /\ proposals'[current].revisions = 1
      <3>1. /\ current \notin Revised(proposals)
            /\ Revised(proposals') = Revised(proposals) \cup {current}
        BY <2>3 DEF Revised
      <3>2. Cardinality(Revised(proposals')) = Cardinality(Revised(proposals)) + 1
        BY <3>1, RevisedFinite, FS_AddElement
      <3> QED
        BY <2>1, <3>2, <1>b DEF MoveInv
    <2> QED
      BY <1>5, <2>2, <2>3, FinishVisitFrame
  <1>6. CASE EndRounds
    BY <1>6, <1>0 DEF EndRounds, deciding, looping
  <1>7. ASSUME NEW r \in Agents, Visit(r) PROVE MoveInv'
    BY <1>7, <1>0 DEF Visit, deciding
  <1>8. ASSUME NEW c \in Conditions, NoEvidence(c) \/ SendFalsification(c) PROVE MoveInv'
    BY <1>8, <1>0 DEF NoEvidence, SendFalsification, deciding
  <1>9. CASE Conclude
    BY <1>9, <1>0
    DEF Conclude, Close, Settle, RunRaises, Persist, PersistFails, StartGossip, Push, Return,
        deciding, looping
  <1>10. CASE Crash \/ UNCHANGED vars
    BY <1>10, <1>0 DEF Crash, vars, deciding, looping
  <1>11. Collect => phase \in Before
    BY DEF Collect, Discover, Request, Record, Open, OwnHandler, RecordSelf, SelfFails, Before
  <1> QED
    BY <1>1, <1>2, <1>3, <1>4, <1>5, <1>6, <1>7, <1>8, <1>9, <1>10, <1>11
    DEF Next, Step, Update

\* However large the budget of rounds, a run holds at most one round more than
\* it has rejecters that give in.
THEOREM RoundsMove == Spec => []EveryRoundMoves
  <1>1. Init => MoveInv
    BY RevisedFinite DEF Init, MoveInv, InRound
  <1>2. IInv /\ FreshInv /\ MoveInv /\ [Next]_vars => MoveInv'
    BY MoveNext
  <1>3. MoveInv => EveryRoundMoves
    BY DEF MoveInv, EveryRoundMoves, Revised
  <1> QED
    BY <1>1, <1>2, <1>3, Invariance, ProposalsAreFresh, PTL DEF Spec

-----------------------------------------------------------------------------
(* What is asked. *)

IsEvidence(e) == IsEvent(e, "falsification_evidence")

\* Who was asked by whom: agents whose proposals are recorded; and what was
\* acknowledged is marked.
Asked(i) ==
    /\ entries[i].target \in Agents /\ proposals[entries[i].target].vote # "none"
    /\ entries[i].agent \in Agents /\ proposals[entries[i].agent].vote = "approve"
    /\ entries[i].round \in Nat /\ entries[i].round <= rounds

Acknowledges(i) == i < Len(entries) /\ IsEvent(entries[i + 1], "acknowledge")

EvidenceInv ==
    \A i \in 1 .. Len(entries) : IsEvidence(entries[i]) =>
        /\ Asked(i)
        /\ Acknowledges(i) => entries[i].condition \in proposals[entries[i].target].falsified

\* The question in flight is the last entry, and nothing that is still to be
\* asked in this round has been asked in it.
QuestionInv ==
    /\ phase \in InRound /\ evidence # NoOne =>
          evidence \in Agents /\ proposals[evidence].vote = "approve"
    /\ phase \in {"test", "answer"} => active \subseteq Unfalsified(proposals[current])
    /\ phase = "answer" =>
          /\ entries # <<>>
          /\ entries[Len(entries)]
                = RoundEvent("falsification_evidence", evidence, current, asked)
    /\ \A i \in 1 .. Len(entries) :
          IsEvidence(entries[i]) /\ entries[i].round = rounds =>
              /\ phase = "visit" => entries[i].target \notin rejecters
              /\ phase \in {"test", "answer"} => entries[i].target \notin rejecters \ {current}
              /\ phase = "test" /\ entries[i].target = current =>
                    entries[i].condition \notin active
              /\ phase = "answer" /\ entries[i].target = current =>
                    entries[i].condition \notin active \ {asked}

TranscriptInv == EvidenceInv /\ EveryAnswerIsAsked /\ NeverRetested

LEMMA Appending ==
    ASSUME NEW S, NEW s \in Seq(S), NEW x \in S
    PROVE  /\ Len(s) \in Nat /\ Len(Append(s, x)) = Len(s) + 1
           /\ \A i \in 1 .. Len(s) : Append(s, x)[i] = s[i]
           /\ Append(s, x)[Len(s) + 1] = x
  OBVIOUS

\* A recorded vote is never exchanged, and no mark is taken back.
LEMMA VotesStay ==
    ASSUME IInv, FreshInv, [Next]_vars, NEW a \in Agents, proposals[a].vote # "none"
    PROVE  /\ proposals'[a].vote = proposals[a].vote
           /\ proposals[a].falsified \subseteq proposals'[a].falsified
  <1> DEFINE Goal == /\ proposals'[a].vote = proposals[a].vote
                     /\ proposals[a].falsified \subseteq proposals'[a].falsified
  <1> SUFFICES Goal
    OBVIOUS
  <1>a. TypeOK /\ proposals \in [Agents -> Proposals]
    BY DEF IInv, TypeOK
  <1>b. Self \in Agents /\ Peers \subseteq Agents
    BY PeerDeliberationAssumption DEF Peers
  <1>0. CASE UNCHANGED proposals
    BY <1>0
  <1>1. ASSUME NEW p \in Peers, Record(p) PROVE Goal
    <2>1. p # a
      BY <1>1, <1>b DEF Record, FreshInv
    <2> QED
      BY <1>1, <2>1, <1>a, <1>b DEF Record
  <1>2. CASE RecordSelf
    <2>1. Self # a
      BY <1>2 DEF RecordSelf, FreshInv, Before
    <2> QED
      BY <1>2, <2>1, <1>a, <1>b DEF RecordSelf
  <1>3. CASE Answer
    <2>1. current \in Agents /\ asked \in Conditions
      BY <1>3, AnswerFrame
    <2>2. proposals' = proposals \/ proposals' = MarkFalsified(proposals, current, asked)
      BY <1>3 DEF Answer, Acknowledged, Refused
    <2> QED
      BY <2>1, <2>2, <1>a, MarkChangesMarks
  <1>4. CASE FinishVisit
    <2>1. current \in Agents
      BY <1>4 DEF IInv, TypeOK, VisitInv, FinishVisit
    <2>2. proposals' = proposals \/ proposals' = ReviseToAbstain(proposals, current)
      BY <1>4 DEF FinishVisit
    <2> QED
      BY <2>1, <2>2, <1>a, ReviseChangesOne
  <1>5. CASE phase \notin Before /\ ~Answer /\ ~FinishVisit
    BY <1>5, <1>0, OtherSteps DEF Before
  <1>6. CASE phase \in Before /\ Collect
    <2>1. ASSUME NEW p \in Peers, Discover(p) \/ Request(p) PROVE Goal
      BY <2>1, <1>0 DEF Discover, Request, deciding
    <2>2. CASE Open \/ OwnHandler \/ SelfFails
      BY <2>2, <1>0 DEF Open, OwnHandler, SelfFails, deciding
    <2> QED
      BY <1>6, <1>1, <1>2, <2>1, <2>2 DEF Collect
  <1>7. CASE Crash \/ UNCHANGED vars
    BY <1>7, <1>0 DEF Crash, vars, deciding
  <1> HIDE DEF Goal
  <1> QED
    BY <1>3, <1>4, <1>5, <1>6, <1>7, CollectSteps DEF Before

\* A step that adds no entry, or one that neither asks nor answers.
LEMMA OtherEntries ==
    ASSUME IInv, FreshInv, TranscriptInv, [Next]_vars,
           rounds' \in Nat, rounds <= rounds',
           \/ entries' = entries
           \/ \E e \in Entries : /\ entries' = Append(entries, e)
                                 /\ ~IsEvidence(e) /\ ~IsAnswer(e)
    PROVE  TranscriptInv'
  <1>1. entries \in Seq(Entries) /\ Len(entries) \in Nat /\ rounds \in Nat
    BY DEF IInv, TypeOK
  <1>2. /\ Len(entries') \in Nat /\ Len(entries) <= Len(entries')
        /\ \A i \in 1 .. Len(entries) : entries'[i] = entries[i]
        /\ \A i \in 1 .. Len(entries') : IsEvidence(entries'[i]) \/ IsAnswer(entries'[i]) =>
              i <= Len(entries)
    <2>1. CASE entries' = entries
      BY <1>1, <2>1
    <2>2. ASSUME NEW e \in Entries, entries' = Append(entries, e), ~IsEvidence(e), ~IsAnswer(e)
          PROVE  <1>2!1
      <3>1. /\ Len(entries') = Len(entries) + 1 /\ entries'[Len(entries) + 1] = e
            /\ \A i \in 1 .. Len(entries) : entries'[i] = entries[i]
        BY <1>1, <2>2, Appending
      <3>2. \A i \in 1 .. Len(entries') : i <= Len(entries) \/ i = Len(entries) + 1
        BY <1>1, <3>1
      <3> QED
        BY <1>1, <2>2, <3>1, <3>2
    <2> QED
      BY <2>1, <2>2
  <1>3. \A a \in Agents : proposals[a].vote # "none" =>
           /\ proposals'[a].vote = proposals[a].vote
           /\ proposals[a].falsified \subseteq proposals'[a].falsified
    BY VotesStay
  <1>4. EvidenceInv'
    <2> SUFFICES ASSUME NEW i \in 1 .. Len(entries'), IsEvidence(entries'[i])
                 PROVE  /\ Asked(i)'
                        /\ Acknowledges(i)' =>
                              entries'[i].condition \in proposals'[entries'[i].target].falsified
      BY DEF EvidenceInv
    <2>1. i \in 1 .. Len(entries) /\ entries'[i] = entries[i] /\ IsEvidence(entries[i])
      BY <1>1, <1>2
    <2>2. /\ Asked(i)
          /\ Acknowledges(i) => entries[i].condition \in proposals[entries[i].target].falsified
      BY <2>1 DEF TranscriptInv, EvidenceInv
    <2>3. Acknowledges(i)' => Acknowledges(i)
      BY <1>1, <1>2, <2>1 DEF Acknowledges, IsAnswer
    <2> QED
      BY <1>1, <1>3, <2>1, <2>2, <2>3 DEF Asked
  <1>5. EveryAnswerIsAsked'
    <2> SUFFICES ASSUME NEW i \in 1 .. Len(entries'), IsAnswer(entries'[i])
                 PROVE  /\ i > 1
                        /\ IsEvidence(entries'[i - 1])
                        /\ entries'[i - 1].target = entries'[i].agent
                        /\ entries'[i - 1].condition = entries'[i].condition
                        /\ entries'[i - 1].round = entries'[i].round
                        /\ proposals'[entries'[i - 1].agent].vote = "approve"
      BY DEF EveryAnswerIsAsked, IsEvidence
    <2>1. i \in 1 .. Len(entries) /\ entries'[i] = entries[i] /\ IsAnswer(entries[i])
      BY <1>1, <1>2
    <2>2. /\ i > 1
          /\ IsEvidence(entries[i - 1])
          /\ entries[i - 1].target = entries[i].agent
          /\ entries[i - 1].condition = entries[i].condition
          /\ entries[i - 1].round = entries[i].round
      BY <2>1 DEF TranscriptInv, EveryAnswerIsAsked, IsEvidence
    <2>3. i - 1 \in 1 .. Len(entries) /\ entries'[i - 1] = entries[i - 1]
      BY <1>1, <1>2, <2>1, <2>2
    <2>4. Asked(i - 1)
      BY <2>2, <2>3 DEF TranscriptInv, EvidenceInv
    <2> QED
      BY <1>3, <2>1, <2>2, <2>3, <2>4 DEF Asked
  <1>6. NeverRetested'
    <2> SUFFICES ASSUME NEW i \in 1 .. Len(entries'), NEW j \in 1 .. Len(entries'), i < j,
                        IsEvidence(entries'[i]), IsEvidence(entries'[j]),
                        entries'[i].target = entries'[j].target,
                        entries'[i].condition = entries'[j].condition
                 PROVE  /\ entries'[i].round < entries'[j].round
                        /\ ~IsEvent(entries'[i + 1], "acknowledge")
      BY DEF NeverRetested, IsEvidence
    <2>1. /\ i \in 1 .. Len(entries) /\ j \in 1 .. Len(entries) /\ i + 1 \in 1 .. Len(entries)
          /\ entries'[i] = entries[i] /\ entries'[j] = entries[j]
          /\ entries'[i + 1] = entries[i + 1]
      BY <1>1, <1>2
    <2> QED
      BY <2>1 DEF TranscriptInv, NeverRetested, IsEvidence
  <1> QED
    BY <1>4, <1>5, <1>6 DEF TranscriptInv

\* A question: its condition is still to be asked in this round.
LEMMA AskedEntry ==
    ASSUME IInv, FreshInv, TranscriptInv, QuestionInv, NEW c \in Conditions, SendFalsification(c)
    PROVE  TranscriptInv'
  <1> DEFINE e == RoundEvent("falsification_evidence", evidence, current, c)
             n == Len(entries)
  <1>1. /\ entries \in Seq(Entries) /\ n \in Nat /\ rounds \in Nat
        /\ phase = "test" /\ c \in active /\ evidence # NoOne
        /\ current \in Agents /\ evidence \in Agents
        /\ proposals[current].vote = "reject" /\ proposals[evidence].vote = "approve"
        /\ c \notin proposals[current].falsified
        /\ proposals' = proposals /\ rounds' = rounds
    BY DEF IInv, TypeOK, VisitInv, InRound, QuestionInv, SendFalsification, deciding, Unfalsified
  <1>2. /\ e \in Entries
        /\ IsEvidence(e) /\ ~IsAnswer(e)
        /\ e.target = current /\ e.agent = evidence /\ e.condition = c /\ e.round = rounds
    BY <1>1, EntryTypes DEF IInv, RoundEvent, IsEvidence, IsAnswer, IsEvent, Kinds
  <1>3. /\ entries' = Append(entries, e)
        /\ Len(entries') = n + 1 /\ entries'[n + 1] = e
        /\ \A i \in 1 .. n : entries'[i] = entries[i]
    BY <1>1, <1>2, Appending DEF SendFalsification, Log
  <1> HIDE DEF e, n
  <1>4. EvidenceInv'
    <2> SUFFICES ASSUME NEW i \in 1 .. Len(entries'), IsEvidence(entries'[i])
                 PROVE  /\ Asked(i)'
                        /\ Acknowledges(i)' =>
                              entries'[i].condition \in proposals'[entries'[i].target].falsified
      BY DEF EvidenceInv
    <2>1. CASE i = n + 1
      BY <1>1, <1>2, <1>3, <2>1 DEF Asked, Acknowledges
    <2>2. CASE i \in 1 .. n
      <3>1. /\ Asked(i)
            /\ Acknowledges(i) => entries[i].condition \in proposals[entries[i].target].falsified
        BY <1>3, <2>2 DEF TranscriptInv, EvidenceInv, n
      <3>2. Acknowledges(i)' => Acknowledges(i)
        BY <1>1, <1>2, <1>3, <2>2 DEF Acknowledges, IsAnswer, n
      <3> QED
        BY <1>1, <1>3, <2>2, <3>1, <3>2 DEF Asked
    <2> QED
      BY <1>1, <1>3, <2>1, <2>2
  <1>5. EveryAnswerIsAsked'
    <2> SUFFICES ASSUME NEW i \in 1 .. Len(entries'), IsAnswer(entries'[i])
                 PROVE  /\ i > 1
                        /\ IsEvidence(entries'[i - 1])
                        /\ entries'[i - 1].target = entries'[i].agent
                        /\ entries'[i - 1].condition = entries'[i].condition
                        /\ entries'[i - 1].round = entries'[i].round
                        /\ proposals'[entries'[i - 1].agent].vote = "approve"
      BY DEF EveryAnswerIsAsked, IsEvidence
    <2>1. i \in 1 .. n /\ entries'[i] = entries[i]
      BY <1>1, <1>2, <1>3
    <2>2. /\ i > 1
          /\ IsEvidence(entries[i - 1])
          /\ entries[i - 1].target = entries[i].agent
          /\ entries[i - 1].condition = entries[i].condition
          /\ entries[i - 1].round = entries[i].round
          /\ proposals[entries[i - 1].agent].vote = "approve"
      BY <2>1 DEF TranscriptInv, EveryAnswerIsAsked, IsEvidence, n
    <2> QED
      BY <1>1, <1>3, <2>1, <2>2
  <1>6. NeverRetested'
    <2> SUFFICES ASSUME NEW i \in 1 .. Len(entries'), NEW j \in 1 .. Len(entries'), i < j,
                        IsEvidence(entries'[i]), IsEvidence(entries'[j]),
                        entries'[i].target = entries'[j].target,
                        entries'[i].condition = entries'[j].condition
                 PROVE  /\ entries'[i].round < entries'[j].round
                        /\ ~IsEvent(entries'[i + 1], "acknowledge")
      BY DEF NeverRetested, IsEvidence
    <2>1. i \in 1 .. n /\ entries'[i] = entries[i]
      BY <1>1, <1>3
    <2>2. CASE j \in 1 .. n
      BY <1>1, <1>3, <2>1, <2>2 DEF TranscriptInv, NeverRetested, IsEvidence, n
    <2>3. CASE j = n + 1
      <3>1. /\ IsEvidence(entries[i]) /\ entries[i].target = current
            /\ entries[i].condition = c /\ entries'[j].round = rounds
        BY <1>2, <1>3, <2>1, <2>3
      <3>2. /\ Asked(i)
            /\ Acknowledges(i) => c \in proposals[current].falsified
        BY <2>1, <3>1 DEF TranscriptInv, EvidenceInv, n
      <3>3. entries[i].round < rounds
        BY <1>1, <2>1, <3>1, <3>2 DEF QuestionInv, Asked, n
      <3>4. ~IsEvent(entries'[i + 1], "acknowledge")
        <4>1. CASE i = n
          BY <1>2, <1>3, <4>1 DEF IsAnswer
        <4>2. CASE i < n
          BY <1>1, <1>3, <2>1, <3>2, <4>2 DEF Acknowledges, n
        <4> QED
          BY <1>1, <2>1, <4>1, <4>2
      <3> QED
        BY <2>1, <3>1, <3>3, <3>4
    <2> QED
      BY <1>1, <1>3, <2>2, <2>3
  <1> QED
    BY <1>4, <1>5, <1>6 DEF TranscriptInv

\* What Answer adds, and marks.
LEMMA AnswerAdds ==
    ASSUME IInv, QuestionInv, Answer
    PROVE  \E e \in Entries :
              /\ IsAnswer(e) /\ ~IsEvidence(e)
              /\ e.agent = current /\ e.condition = asked /\ e.round = rounds
              /\ entries' = Append(entries, e)
              /\ \/ /\ IsEvent(e, "acknowledge")
                    /\ proposals' = MarkFalsified(proposals, current, asked)
                    /\ acks' = RecordAcknowledgement(acks, evidence)
                 \/ /\ ~IsEvent(e, "acknowledge")
                    /\ UNCHANGED <<proposals, acks>>
  <1>1. PICK action \in Responses(current) :
           /\ Log(RoundEvent(ResponseKind(action), current, NoOne, asked))
           /\ IF action = "acknowledge" THEN Acknowledged ELSE Refused
    BY DEF Answer
  <1> DEFINE e == RoundEvent(ResponseKind(action), current, NoOne, asked)
  <1>2. current \in Agents /\ asked \in Conditions
    BY AnswerFrame
  <1>3. ResponseKind(action) \in {"acknowledge", "reject", "amend"}
    BY DEF ResponseKind
  <1>4. ResponseKind(action) = "acknowledge" <=> action = "acknowledge"
    BY DEF ResponseKind
  <1>5. e \in Entries
    BY <1>2, <1>3, EntryTypes DEF IInv, Kinds
  <1>6. /\ IsAnswer(e) /\ ~IsEvidence(e)
        /\ e.agent = current /\ e.condition = asked /\ e.round = rounds
        /\ IsEvent(e, "acknowledge") <=> action = "acknowledge"
    BY <1>3, <1>4 DEF RoundEvent, IsAnswer, IsEvidence, IsEvent
  <1>7. entries' = Append(entries, e)
    BY <1>1 DEF Log
  <1>8. CASE action = "acknowledge"
    <2>1. /\ proposals' = MarkFalsified(proposals, current, asked)
          /\ acks' = RecordAcknowledgement(acks, evidence)
      BY <1>1, <1>8 DEF Acknowledged
    <2> HIDE DEF e
    <2> QED
      BY <1>5, <1>6, <1>7, <1>8, <2>1
  <1>9. CASE action # "acknowledge"
    <2>1. UNCHANGED <<proposals, acks>>
      BY <1>1, <1>9 DEF Refused
    <2> HIDE DEF e
    <2> QED
      BY <1>5, <1>6, <1>7, <1>9, <2>1
  <1> QED
    BY <1>8, <1>9

\* An answer: the entry before it is its question.
LEMMA AnswerEntry ==
    ASSUME IInv, FreshInv, TranscriptInv, QuestionInv, [Next]_vars, Answer
    PROVE  TranscriptInv'
  <1> DEFINE n == Len(entries)
  <1>1. /\ entries \in Seq(Entries) /\ n \in Nat /\ rounds \in Nat
        /\ proposals \in [Agents -> Proposals]
        /\ phase = "answer" /\ evidence \in Agents /\ evidence # NoOne
        /\ current \in Agents /\ asked \in Conditions
        /\ proposals[evidence].vote = "approve" /\ rounds' = rounds
    BY AnswerFrame, PeerDeliberationAssumption
    DEF IInv, TypeOK, VisitInv, InRound, QuestionInv, Answer
  <1>2. /\ n >= 1 /\ n - 1 + 1 = n
        /\ IsEvidence(entries[n]) /\ entries[n].target = current
        /\ entries[n].agent = evidence /\ entries[n].condition = asked /\ entries[n].round = rounds
    BY <1>1 DEF QuestionInv, RoundEvent, IsEvidence, IsEvent
  <1>3. PICK e \in Entries :
           /\ IsAnswer(e) /\ ~IsEvidence(e)
           /\ e.agent = current /\ e.condition = asked /\ e.round = rounds
           /\ entries' = Append(entries, e)
           /\ IsEvent(e, "acknowledge") => proposals' = MarkFalsified(proposals, current, asked)
    BY AnswerAdds
  <1>4. /\ Len(entries') = n + 1 /\ entries'[n + 1] = e
        /\ \A i \in 1 .. n : entries'[i] = entries[i]
    BY <1>1, <1>3, Appending
  <1>5. \A a \in Agents : proposals[a].vote # "none" =>
           /\ proposals'[a].vote = proposals[a].vote
           /\ proposals[a].falsified \subseteq proposals'[a].falsified
    BY VotesStay
  <1>6. IsEvent(e, "acknowledge") => asked \in proposals'[current].falsified
    BY <1>1, <1>3, MarkChangesMarks
  <1>7. EvidenceInv'
    <2> SUFFICES ASSUME NEW i \in 1 .. Len(entries'), IsEvidence(entries'[i])
                 PROVE  /\ Asked(i)'
                        /\ Acknowledges(i)' =>
                              entries'[i].condition \in proposals'[entries'[i].target].falsified
      BY DEF EvidenceInv
    <2>1. i \in 1 .. n /\ entries'[i] = entries[i] /\ IsEvidence(entries[i])
      BY <1>1, <1>3, <1>4
    <2>2. /\ Asked(i)
          /\ Acknowledges(i) => entries[i].condition \in proposals[entries[i].target].falsified
      BY <2>1 DEF TranscriptInv, EvidenceInv, n
    <2>3. Asked(i)'
      BY <1>1, <1>5, <2>1, <2>2 DEF Asked
    <2>4. CASE i = n
      BY <1>2, <1>4, <1>6, <2>1, <2>3, <2>4 DEF Acknowledges
    <2>5. CASE i < n
      <3>1. Acknowledges(i)' => Acknowledges(i)
        BY <1>1, <1>4, <2>1, <2>5 DEF Acknowledges
      <3> QED
        BY <1>5, <2>1, <2>2, <2>3, <3>1 DEF Asked
    <2> QED
      BY <1>1, <2>1, <2>4, <2>5
  <1>8. EveryAnswerIsAsked'
    <2> SUFFICES ASSUME NEW i \in 1 .. Len(entries'), IsAnswer(entries'[i])
                 PROVE  /\ i > 1
                        /\ IsEvidence(entries'[i - 1])
                        /\ entries'[i - 1].target = entries'[i].agent
                        /\ entries'[i - 1].condition = entries'[i].condition
                        /\ entries'[i - 1].round = entries'[i].round
                        /\ proposals'[entries'[i - 1].agent].vote = "approve"
      BY DEF EveryAnswerIsAsked, IsEvidence
    <2>1. CASE i = n + 1
      BY <1>1, <1>2, <1>3, <1>4, <1>5, <2>1
    <2>2. CASE i \in 1 .. n
      <3>1. /\ i > 1
            /\ IsEvidence(entries[i - 1])
            /\ entries[i - 1].target = entries[i].agent
            /\ entries[i - 1].condition = entries[i].condition
            /\ entries[i - 1].round = entries[i].round
        BY <1>4, <2>2 DEF TranscriptInv, EveryAnswerIsAsked, IsEvidence, n
      <3>2. i - 1 \in 1 .. n /\ entries'[i - 1] = entries[i - 1] /\ entries'[i] = entries[i]
        BY <1>1, <1>4, <2>2, <3>1
      <3>3. Asked(i - 1)
        BY <3>1, <3>2 DEF TranscriptInv, EvidenceInv, n
      <3> QED
        BY <1>5, <3>1, <3>2, <3>3 DEF Asked
    <2> QED
      BY <1>1, <1>4, <2>1, <2>2
  <1>9. NeverRetested'
    <2> SUFFICES ASSUME NEW i \in 1 .. Len(entries'), NEW j \in 1 .. Len(entries'), i < j,
                        IsEvidence(entries'[i]), IsEvidence(entries'[j]),
                        entries'[i].target = entries'[j].target,
                        entries'[i].condition = entries'[j].condition
                 PROVE  /\ entries'[i].round < entries'[j].round
                        /\ ~IsEvent(entries'[i + 1], "acknowledge")
      BY DEF NeverRetested, IsEvidence
    <2>1. /\ i \in 1 .. n /\ j \in 1 .. n /\ i + 1 \in 1 .. n
          /\ entries'[i] = entries[i] /\ entries'[j] = entries[j]
          /\ entries'[i + 1] = entries[i + 1]
      BY <1>1, <1>3, <1>4
    <2> QED
      BY <2>1 DEF TranscriptInv, NeverRetested, IsEvidence, n
  <1> QED
    BY <1>7, <1>8, <1>9 DEF TranscriptInv

\* Every other step adds no entry, or one that is no question and no answer.
LEMMA PlainSteps ==
    ASSUME IInv, [Next]_vars, ~Answer, \A c \in Conditions : ~SendFalsification(c)
    PROVE  /\ rounds' \in Nat /\ rounds <= rounds'
           /\ acks' = acks
           /\ \/ entries' = entries
              \/ \E e \in Entries : /\ entries' = Append(entries, e)
                                    /\ ~IsEvidence(e) /\ ~IsAnswer(e)
  <1> DEFINE Plain(e) == e \in Entries /\ ~IsEvidence(e) /\ ~IsAnswer(e)
             Goal == /\ rounds' \in Nat /\ rounds <= rounds'
                     /\ acks' = acks
                     /\ entries' = entries \/ \E e : Plain(e) /\ entries' = Append(entries, e)
  <1> SUFFICES Goal
    OBVIOUS
  <1>a. TypeOK /\ rounds \in Nat
    BY DEF IInv, TypeOK
  <1>b. Self \in Agents /\ Peers \subseteq Agents
    BY PeerDeliberationAssumption DEF Peers
  <1>c. Plain(Opened) /\ \A a \in Agents, p \in Proposals : Plain(Emitted(a, p))
    BY <1>a, EntryTypes DEF Opened, Emitted, IsEvidence, IsAnswer, IsEvent
  <1>0. ASSUME UNCHANGED <<rounds, acks, entries>> PROVE Goal
    BY <1>0, <1>a
  <1>1. ASSUME NEW e, Plain(e), entries' = Append(entries, e), UNCHANGED <<rounds, acks>>
        PROVE  Goal
    BY <1>1, <1>a
  <1> HIDE DEF Goal, Plain
  <1>2. CASE Open
    BY <1>2, <1>0, <1>1, <1>c DEF Open, Log, deciding, looping
  <1>3. ASSUME NEW p \in Peers, Discover(p) \/ Request(p) PROVE Goal
    BY <1>3, <1>0 DEF Discover, Request, deciding, looping
  <1>4. ASSUME NEW p \in Peers, Record(p) PROVE Goal
    <2>1. Plain(Emitted(p, replies[p]))
      BY <1>a, <1>b, <1>c DEF TypeOK
    <2> QED
      BY <1>4, <1>1, <2>1 DEF Record, Log, looping
  <1>5. CASE RecordSelf
    <2>1. Plain(Emitted(Self, replies[Self]))
      BY <1>a, <1>b, <1>c DEF TypeOK
    <2> QED
      BY <1>5, <1>1, <2>1 DEF RecordSelf, Log, looping
  <1>6. CASE OwnHandler \/ SelfFails
    BY <1>6, <1>0 DEF OwnHandler, SelfFails, deciding, looping
  <1>7. CASE StartRound
    <2>1. rounds' = rounds + 1 /\ entries' = entries /\ acks' = acks
      BY <1>7 DEF StartRound, deciding
    <2> QED
      BY <2>1, <1>a DEF Goal
  <1>8. CASE EndRounds \/ FinishRound
    BY <1>8, <1>0 DEF EndRounds, FinishRound, deciding, looping
  <1>9. ASSUME NEW r \in Agents, Visit(r) PROVE Goal
    BY <1>9, <1>0 DEF Visit, deciding
  <1>10. ASSUME NEW c \in Conditions, NoEvidence(c) PROVE Goal
    BY <1>10, <1>0 DEF NoEvidence, deciding
  <1>11. CASE FinishVisit
    <2>1. Plain(RoundEvent("revise", current, NoOne, NoOne))
      <3>1. current \in Agents \cup {NoOne}
        BY <1>a DEF TypeOK
      <3>2. RoundEvent("revise", current, NoOne, NoOne) \in Entries
        BY <3>1, <1>a, EntryTypes DEF Kinds
      <3> QED
        BY <3>2 DEF Plain, RoundEvent, IsEvidence, IsAnswer, IsEvent
    <2> QED
      BY <1>11, <1>0, <1>1, <2>1 DEF FinishVisit, Log
  <1>12. CASE Close
    <2>1. PICK b \in BOOLEAN : Log(Closed(Termination(LastTally, b)))
      BY <1>12 DEF Close
    <2>2. tallies # <<>>
      BY <1>12 DEF IInv, TallyInv, Ending, Close
    <2>3. LastTally \in Tallies
      BY <1>a, <2>2 DEF LastTally, TypeOK
    <2>4. Closed(Termination(LastTally, b)) \in Entries
      BY <1>a, <2>2, <2>3, TerminationType, EntryTypes
    <2>5. Plain(Closed(Termination(LastTally, b)))
      BY <2>4 DEF Plain, Closed, IsEvidence, IsAnswer, IsEvent
    <2> QED
      BY <1>12, <1>1, <2>1, <2>5 DEF Close, Log, deciding, looping
  <1>13. CASE Conclude /\ ~Close
    BY <1>13, <1>0
    DEF Conclude, Settle, RunRaises, Persist, PersistFails, StartGossip, Push, Return,
        deciding, looping
  <1>14. CASE Crash \/ UNCHANGED vars
    BY <1>14, <1>0 DEF Crash, vars, deciding, looping
  <1> QED
    BY <1>2, <1>3, <1>4, <1>5, <1>6, <1>7, <1>8, <1>9, <1>10, <1>11, <1>12, <1>13, <1>14
    DEF Next, Step, Collect, Update

LEMMA TranscriptNext ==
    IInv /\ FreshInv /\ TranscriptInv /\ QuestionInv /\ [Next]_vars => TranscriptInv'
  <1> SUFFICES ASSUME IInv, FreshInv, TranscriptInv, QuestionInv, [Next]_vars
               PROVE  TranscriptInv'
    OBVIOUS
  <1>1. CASE Answer
    BY <1>1, AnswerEntry
  <1>2. ASSUME NEW c \in Conditions, SendFalsification(c) PROVE TranscriptInv'
    BY <1>2, AskedEntry
  <1>3. CASE ~Answer /\ \A c \in Conditions : ~SendFalsification(c)
    BY <1>3, PlainSteps, OtherEntries
  <1> QED
    BY <1>1, <1>2, <1>3

\* The marks and the questions of the round, as far as the visits go.
LEMMA QuestionNext ==
    IInv /\ FreshInv /\ TranscriptInv /\ QuestionInv /\ [Next]_vars => QuestionInv'
  <1> SUFFICES ASSUME IInv, FreshInv, TranscriptInv, QuestionInv, [Next]_vars
               PROVE  QuestionInv'
    OBVIOUS
  <1>a. /\ entries \in Seq(Entries) /\ Len(entries) \in Nat /\ rounds \in Nat
        /\ proposals \in [Agents -> Proposals] /\ rejecters \subseteq Agents
        /\ NoOne \notin Agents
    BY PeerDeliberationAssumption DEF IInv, TypeOK
  <1>b. phase \in {"test", "answer"} => current \in rejecters /\ current \in Agents
    BY <1>a DEF IInv, VisitInv
  <1>0. ASSUME phase' \notin InRound PROVE QuestionInv'
    BY <1>0 DEF QuestionInv, InRound
  <1>1. CASE StartRound
    <2>1. /\ phase' = "visit" /\ entries' = entries /\ proposals' = proposals
          /\ rounds' = rounds + 1
          /\ evidence' \in EvidenceAgents(Voters(Ballots(proposals), "approve"))
      BY <1>1 DEF StartRound, deciding
    <2>2. ASSUME evidence' # NoOne
          PROVE  evidence' \in Agents /\ proposals[evidence'].vote = "approve"
      <3>1. evidence' \in Voters(Ballots(proposals), "approve")
        BY <2>1, <2>2 DEF EvidenceAgents
      <3>2. evidence' \in Agents /\ CurrentVote(proposals[evidence']) = "approve"
        BY <3>1 DEF Voters, Ballots, Recorded
      <3> QED
        BY <3>2 DEF CurrentVote
    <2>3. \A i \in 1 .. Len(entries') : IsEvidence(entries'[i]) => entries'[i].round # rounds'
      <3> SUFFICES ASSUME NEW i \in 1 .. Len(entries), IsEvidence(entries[i])
                   PROVE  entries[i].round # rounds + 1
        BY <2>1
      <3>1. entries[i].round \in Nat /\ entries[i].round <= rounds
        BY DEF TranscriptInv, EvidenceInv, Asked
      <3> QED
        BY <3>1, <1>a
    <2> QED
      BY <2>1, <2>2, <2>3 DEF QuestionInv
  <1>2. ASSUME NEW r \in Agents, Visit(r) PROVE QuestionInv'
    <2>1. /\ phase = "visit" /\ phase' = "test" /\ r \in rejecters
          /\ current' = r /\ active' = Unfalsified(proposals[r])
          /\ UNCHANGED <<entries, proposals, rounds, evidence, rejecters>>
      BY <1>2 DEF Visit, deciding
    <2> QED
      BY <2>1 DEF QuestionInv, InRound
  <1>3. ASSUME NEW c \in Conditions, NoEvidence(c) PROVE QuestionInv'
    <2>1. /\ phase = "test" /\ phase' = "test" /\ active' = active \ {c}
          /\ UNCHANGED <<entries, proposals, rounds, evidence, rejecters, current, asked>>
      BY <1>3 DEF NoEvidence, deciding
    <2> QED
      BY <2>1 DEF QuestionInv, InRound
  <1>4. ASSUME NEW c \in Conditions, SendFalsification(c) PROVE QuestionInv'
    <2> DEFINE e == RoundEvent("falsification_evidence", evidence, current, c)
    <2>1. /\ phase = "test" /\ phase' = "answer" /\ c \in active /\ asked' = c
          /\ entries' = Append(entries, e)
          /\ UNCHANGED <<proposals, rounds, evidence, rejecters, current, active>>
      BY <1>4 DEF SendFalsification, Log, deciding
    <2>2. e' = e /\ RoundEvent("falsification_evidence", evidence, current, asked)' = e
      BY <2>1 DEF RoundEvent
    <2>3. e \in Entries /\ e.target = current /\ e.condition = c
      <3>1. evidence \in Agents \cup {NoOne}
        BY DEF IInv, TypeOK
      <3> QED
        BY <1>a, <1>b, <2>1, <3>1, EntryTypes DEF IInv, Kinds, RoundEvent
    <2> HIDE DEF e
    <2>4. /\ Len(entries') = Len(entries) + 1 /\ entries'[Len(entries) + 1] = e
          /\ \A i \in 1 .. Len(entries) : entries'[i] = entries[i]
      BY <1>a, <2>1, <2>3, Appending
    <2>5. ASSUME NEW i \in 1 .. Len(entries'), IsEvidence(entries'[i]), entries'[i].round = rounds
          PROVE  /\ entries'[i].target \notin rejecters \ {current}
                 /\ entries'[i].target = current => entries'[i].condition \notin active \ {c}
      <3>1. CASE i = Len(entries) + 1
        BY <2>3, <2>4, <3>1
      <3>2. CASE i \in 1 .. Len(entries)
        BY <2>1, <2>4, <2>5, <3>2 DEF QuestionInv
      <3> QED
        BY <1>a, <2>4, <3>1, <3>2
    <2>6. entries' # <<>> /\ entries'[Len(entries')] = e
      BY <1>a, <2>1, <2>4
    <2> QED
      BY <2>1, <2>2, <2>5, <2>6 DEF QuestionInv, InRound
  <1>5. CASE Answer
    <2>1. /\ phase = "answer" /\ phase' = "test" /\ active' = active \ {asked}
          /\ UNCHANGED <<rounds, evidence, rejecters, current>>
          /\ evidence \in Agents /\ asked \in Conditions
      BY <1>5, AnswerFrame DEF Answer, IInv, VisitInv
    <2>2. PICK e \in Entries : /\ ~IsEvidence(e) /\ entries' = Append(entries, e)
                               /\ \/ proposals' = MarkFalsified(proposals, current, asked)
                                  \/ proposals' = proposals
      BY <1>5, AnswerAdds
    <2>3. /\ Len(entries') = Len(entries) + 1 /\ entries'[Len(entries) + 1] = e
          /\ \A i \in 1 .. Len(entries) : entries'[i] = entries[i]
      BY <1>a, <2>2, Appending
    <2>4. active' \subseteq Unfalsified(proposals'[current])
      <3>1. active \subseteq Unfalsified(proposals[current])
        BY <2>1 DEF QuestionInv
      <3>2. /\ proposals'[current].conds = proposals[current].conds
            /\ proposals'[current].falsified \subseteq proposals[current].falsified \cup {asked}
        BY <1>a, <1>b, <2>1, <2>2, MarkChangesMarks
      <3> QED
        BY <2>1, <3>1, <3>2 DEF Unfalsified
    <2>5. proposals'[evidence].vote = proposals[evidence].vote
      BY <1>5, <2>1, AnswerFrame
    <2>6. ASSUME NEW i \in 1 .. Len(entries'), IsEvidence(entries'[i]), entries'[i].round = rounds
          PROVE  /\ entries'[i].target \notin rejecters \ {current}
                 /\ entries'[i].target = current => entries'[i].condition \notin active'
      <3>1. i \in 1 .. Len(entries) /\ entries'[i] = entries[i]
        BY <1>a, <2>2, <2>3, <2>6
      <3> QED
        BY <2>1, <2>6, <3>1 DEF QuestionInv
    <2> QED
      BY <2>1, <2>4, <2>5, <2>6 DEF QuestionInv, InRound
  <1>6. CASE FinishVisit
    <2>1. /\ phase = "test" /\ phase' = "visit" /\ rejecters' = rejecters \ {current}
          /\ UNCHANGED <<rounds, evidence>>
      BY <1>6 DEF FinishVisit
    <2>2. \/ entries' = entries
          \/ \E e \in Entries : entries' = Append(entries, e) /\ ~IsEvidence(e)
      <3>1. ~Answer /\ \A c \in Conditions : ~SendFalsification(c)
        BY <1>6 DEF FinishVisit, Answer, SendFalsification
      <3> QED
        BY <3>1, PlainSteps
    <2>3. evidence # NoOne => evidence \in Agents /\ proposals'[evidence].vote = "approve"
      <3>1. evidence # NoOne => evidence \in Agents /\ proposals[evidence].vote = "approve"
        BY <2>1 DEF QuestionInv, InRound
      <3> QED
        BY <3>1, VotesStay
    <2>4. ASSUME NEW i \in 1 .. Len(entries'), IsEvidence(entries'[i]), entries'[i].round = rounds
          PROVE  entries'[i].target \notin rejecters'
      <3>1. i \in 1 .. Len(entries) /\ entries'[i] = entries[i]
        <4>1. CASE entries' = entries
          BY <4>1
        <4>2. ASSUME NEW e \in Entries, entries' = Append(entries, e), ~IsEvidence(e)
              PROVE  i \in 1 .. Len(entries) /\ entries'[i] = entries[i]
          BY <1>a, <2>4, <4>2, Appending
        <4> QED
          BY <2>2, <4>1, <4>2
      <3> QED
        BY <2>1, <2>4, <3>1 DEF QuestionInv
    <2> QED
      BY <2>1, <2>3, <2>4 DEF QuestionInv, InRound
  <1>7. CASE EndRounds \/ FinishRound
    BY <1>7, <1>0 DEF EndRounds, FinishRound, InRound
  <1>8. CASE Collect
    BY <1>8, <1>0
    DEF Collect, Discover, Request, Record, Open, OwnHandler, RecordSelf, SelfFails, InRound
  <1>9. CASE Conclude
    BY <1>9, <1>0
    DEF Conclude, Close, Settle, RunRaises, Persist, PersistFails, StartGossip, Push, Return,
        InRound
  <1>10. CASE Crash
    BY <1>10, <1>0 DEF Crash, InRound
  <1>11. CASE UNCHANGED vars
    BY <1>11 DEF vars, deciding, looping, visit, QuestionInv, RoundEvent
  <1> QED
    BY <1>1, <1>2, <1>3, <1>4, <1>5, <1>6, <1>7, <1>8, <1>9, <1>10, <1>11
    DEF Next, Step, Update

LEMMA TranscriptInvariance == Spec => [](TranscriptInv /\ QuestionInv)
  <1>1. Init => TranscriptInv /\ QuestionInv
    <2> SUFFICES ASSUME Init PROVE TranscriptInv /\ QuestionInv
      OBVIOUS
    <2>1. Len(entries) = 0 /\ phase = "discover" /\ 1 .. Len(entries) = {}
      BY DEF Init
    <2> QED
      BY <2>1
      DEF TranscriptInv, EvidenceInv, EveryAnswerIsAsked, NeverRetested, QuestionInv, InRound
  <1> QED
    BY <1>1, TranscriptNext, QuestionNext, Invariance, ProposalsAreFresh, PTL DEF Spec

\* However the answers, timeouts and refusals of the peers fall, each answer in
\* the transcript follows its question, from an agent that approves.
THEOREM AnswersAreAsked == Spec => []EveryAnswerIsAsked
  <1>1. TranscriptInv => EveryAnswerIsAsked
    BY DEF TranscriptInv
  <1> QED
    BY <1>1, TranscriptInvariance, PTL

\* However large the budget of rounds, no condition is tested twice in one, or
\* again once its holder has acknowledged the evidence.
THEOREM NobodyIsRetested == Spec => []NeverRetested
  <1>1. TranscriptInv => NeverRetested
    BY DEF TranscriptInv
  <1> QED
    BY <1>1, TranscriptInvariance, PTL
-----------------------------------------------------------------------------
(* What is credited. *)

Credited(a) ==
    {i \in 2 .. Len(entries) : /\ IsEvent(entries[i], "acknowledge")
                               /\ entries[i - 1].agent = a}

LEMMA CreditedFinite ==
    ASSUME TypeOK, NEW a
    PROVE  IsFiniteSet(Credited(a)) /\ Cardinality(Credited(a)) \in Nat
  <1>1. Credited(a) \subseteq 2 .. Len(entries) /\ Len(entries) \in Nat
    BY DEF Credited, TypeOK
  <1>2. IsFiniteSet(2 .. Len(entries))
    BY <1>1, FS_Interval
  <1> QED
    BY <1>1, <1>2, FS_Subset, FS_CardinalityType

\* An entry appended is credited if it is an acknowledgement, to the agent of
\* the entry before it.
LEMMA CreditOfEntry ==
    ASSUME TypeOK, NEW e \in Entries, entries' = Append(entries, e), NEW a
    PROVE  IF /\ entries # <<>> /\ IsEvent(e, "acknowledge")
              /\ entries[Len(entries)].agent = a
             THEN Credited(a)' = Credited(a) \cup {Len(entries) + 1}
             ELSE Credited(a)' = Credited(a)
  <1>1. /\ Len(entries) \in Nat
        /\ Len(entries') = Len(entries) + 1 /\ entries'[Len(entries) + 1] = e
        /\ \A i \in 1 .. Len(entries) : entries'[i] = entries[i]
    BY Appending DEF TypeOK
  <1>2. \A i \in 2 .. Len(entries) : /\ i \in 1 .. Len(entries) /\ i - 1 \in 1 .. Len(entries)
                                     /\ i \in 2 .. Len(entries')
    BY <1>1
  <1>3. \A i \in 2 .. Len(entries') :
           i \in 2 .. Len(entries) \/ (i = Len(entries) + 1 /\ Len(entries) >= 1)
    BY <1>1
  <1>4. entries # <<>> <=> Len(entries) >= 1
    BY DEF TypeOK
  <1>5. Len(entries) >= 1 => /\ Len(entries) + 1 \in 2 .. Len(entries')
                             /\ Len(entries) + 1 - 1 = Len(entries)
                             /\ entries'[Len(entries)] = entries[Len(entries)]
    BY <1>1
  <1> QED
    BY <1>1, <1>2, <1>3, <1>4, <1>5 DEF Credited

LEMMA CreditNext ==
    IInv /\ QuestionInv /\ CreditMatchesTranscript /\ [Next]_vars => CreditMatchesTranscript'
  <1> SUFFICES ASSUME IInv, QuestionInv, CreditMatchesTranscript, [Next]_vars, NEW a \in Agents
               PROVE  acks'[a] = Cardinality(Credited(a)')
    BY DEF CreditMatchesTranscript, Credited
  <1>a. /\ TypeOK /\ acks \in [Agents -> Nat]
        /\ entries \in Seq(Entries) /\ Len(entries) \in Nat
    BY DEF IInv, TypeOK
  <1>b. acks[a] = Cardinality(Credited(a))
    BY DEF CreditMatchesTranscript, Credited
  <1>0. ASSUME Credited(a)' = Credited(a), acks' = acks
        PROVE  acks'[a] = Cardinality(Credited(a)')
    BY <1>0, <1>b
  <1>1. CASE Answer
    <2>1. PICK e \in Entries :
             /\ entries' = Append(entries, e)
             /\ \/ IsEvent(e, "acknowledge") /\ acks' = RecordAcknowledgement(acks, evidence)
                \/ ~IsEvent(e, "acknowledge") /\ acks' = acks
      BY <1>1, AnswerAdds
    <2>2. entries # <<>> /\ entries[Len(entries)].agent = evidence /\ evidence \in Agents
      BY <1>1 DEF Answer, QuestionInv, RoundEvent, IInv, VisitInv
    <2>3. CASE IsEvent(e, "acknowledge") /\ evidence = a
      <3>1. Credited(a)' = Credited(a) \cup {Len(entries) + 1}
        BY <1>a, <2>1, <2>2, <2>3, CreditOfEntry
      <3>2. Len(entries) + 1 \notin Credited(a)
        BY <1>a DEF Credited
      <3>3. Cardinality(Credited(a)') = Cardinality(Credited(a)) + 1
        BY <1>a, <3>1, <3>2, CreditedFinite, FS_AddElement
      <3>4. acks'[a] = acks[a] + 1
        BY <1>a, <2>1, <2>3 DEF RecordAcknowledgement
      <3> QED
        BY <1>b, <3>3, <3>4
    <2>4. CASE ~(IsEvent(e, "acknowledge") /\ evidence = a)
      <3>1. Credited(a)' = Credited(a)
        BY <1>a, <2>1, <2>2, <2>4, CreditOfEntry
      <3>2. acks'[a] = acks[a]
        BY <1>a, <2>1, <2>4 DEF RecordAcknowledgement
      <3> QED
        BY <1>b, <3>1, <3>2
    <2> QED
      BY <2>3, <2>4
  <1>2. ASSUME NEW c \in Conditions, SendFalsification(c)
        PROVE  acks'[a] = Cardinality(Credited(a)')
    <2> DEFINE e == RoundEvent("falsification_evidence", evidence, current, c)
    <2>1. entries' = Append(entries, e) /\ acks' = acks
      BY <1>2 DEF SendFalsification, Log, deciding
    <2>2. e \in Entries /\ ~IsEvent(e, "acknowledge")
      <3>1. evidence \in Agents \cup {NoOne} /\ current \in Agents \cup {NoOne}
        BY <1>a DEF TypeOK
      <3> QED
        BY <1>a, <3>1, EntryTypes DEF Kinds, RoundEvent, IsEvent
    <2> HIDE DEF e
    <2> QED
      BY <1>0, <1>a, <2>1, <2>2, CreditOfEntry
  <1>3. CASE ~Answer /\ \A c \in Conditions : ~SendFalsification(c)
    <2>1. /\ acks' = acks
          /\ \/ entries' = entries
             \/ \E e \in Entries : entries' = Append(entries, e) /\ ~IsAnswer(e)
      BY <1>3, PlainSteps
    <2>2. CASE entries' = entries
      BY <1>0, <2>1, <2>2 DEF Credited
    <2>3. ASSUME NEW e \in Entries, entries' = Append(entries, e), ~IsAnswer(e)
          PROVE  acks'[a] = Cardinality(Credited(a)')
      BY <1>0, <1>a, <2>1, <2>3, CreditOfEntry DEF IsAnswer
    <2> QED
      BY <2>1, <2>2, <2>3
  <1> QED
    BY <1>1, <1>2, <1>3

\* Whoever brings the evidence and however often, the tracker's credits are
\* those that a reader of the transcript counts.
THEOREM CreditsMatch == Spec => []CreditMatchesTranscript
  <1>1. Init => CreditMatchesTranscript
    <2> SUFFICES ASSUME Init, NEW a \in Agents
                 PROVE  acks[a] = Cardinality(Credited(a))
      BY DEF CreditMatchesTranscript, Credited
    <2>1. acks[a] = 0 /\ Len(entries) = 0
      BY DEF Init
    <2>2. Credited(a) = {}
      BY <2>1 DEF Credited
    <2> QED
      BY <2>1, <2>2, FS_EmptySet
  <1>2. IInv /\ TranscriptInv /\ QuestionInv /\ CreditMatchesTranscript /\ [Next]_vars
           => CreditMatchesTranscript'
    BY CreditNext
  <1> QED
    BY <1>1, <1>2, Invariance, TranscriptInvariance, PTL DEF Spec
-----------------------------------------------------------------------------
(* What the transcript tells. *)

Emits(e, a) == e.type = "proposal_emitted" /\ e.agent = a

Revises(e, a) == IsEvent(e, "revise") /\ e.agent = a

\* An entry tells the truth about proposals ps after n rounds.
TrueEntry(e, ps, n) ==
    /\ e.type = "proposal_emitted" =>
          e.agent \in Recorded(ps) /\ e.vote = ps[e.agent].vote
    /\ IsEvent(e, "revise") => e.agent \in Recorded(ps) /\ ps[e.agent].revisions > 0
    /\ e.type = "round_event" => e.round <= n

\* The closing entry speaks of the votes as they stand.
Closes(e, ps, n) ==
    /\ e.voters = Recorded(ps)
    /\ e.tally = Tally(Ballots(ps))
    /\ \E subset \in BOOLEAN : e.status = Termination(Tally(Ballots(ps)), subset)
    /\ e.rounds = n

\* A transcript tells who proposed what, who was revised and what was decided.
Story(log, ps, n) ==
    /\ log # <<>> => log[1].type = "deliberation_opened"
    /\ \A i \in 1 .. Len(log) : TrueEntry(log[i], ps, n)
    /\ \A a \in Recorded(ps) :
          /\ \E i \in 1 .. Len(log) : Emits(log[i], a)
          /\ ps[a].revisions > 0 => \E i \in 1 .. Len(log) : Revises(log[i], a)
    /\ Decided(log) => Closes(log[Len(log)], ps, n)

StoryInv ==
    /\ Story(entries, proposals, rounds)
    /\ phase = "discover" => entries = <<>>
    /\ phase \notin {"discover"} \cup Final => entries # <<>>

\* What an entry e must be to take a true transcript of ps to one of qs.
Tells(e, ps, qs) ==
    /\ Recorded(ps) \subseteq Recorded(qs)
    /\ \A a \in Recorded(ps) :
          /\ qs[a].vote = ps[a].vote
          /\ ps[a].revisions > 0 => qs[a].revisions > 0
          /\ qs[a].revisions > 0 => ps[a].revisions > 0 \/ Revises(e, a)
    /\ \A a \in Recorded(qs) \ Recorded(ps) : Emits(e, a) /\ ~(qs[a].revisions > 0)

LEMMA StoryGoesOn ==
    ASSUME NEW log \in Seq(Entries), NEW e \in Entries, NEW ps, NEW qs, NEW n,
           Story(log, ps, n), Tells(e, ps, qs), TrueEntry(e, qs, n),
           log = <<>> => e.type = "deliberation_opened",
           e.type = "deliberation_closed" => Closes(e, qs, n)
    PROVE  Story(Append(log, e), qs, n)
  <1> DEFINE next == Append(log, e)
             m == Len(log)
  <1>1. /\ m \in Nat /\ Len(next) = m + 1 /\ next[m + 1] = e
        /\ \A i \in 1 .. m : next[i] = log[i] /\ i \in 1 .. Len(next)
        /\ \A i \in 1 .. Len(next) : i \in 1 .. m \/ i = m + 1
        /\ m + 1 \in 1 .. Len(next)
    BY Appending
  <1>2. log # <<>> <=> 1 \in 1 .. m
    BY <1>1
  <1> HIDE DEF next
  <1>3. next[1].type = "deliberation_opened"
    <2>1. CASE log = <<>>
      BY <1>1, <2>1
    <2>2. CASE log # <<>>
      BY <1>1, <1>2, <2>2 DEF Story
    <2> QED
      BY <2>1, <2>2
  <1>4. ASSUME NEW i \in 1 .. Len(next) PROVE TrueEntry(next[i], qs, n)
    <2>1. CASE i = m + 1
      BY <1>1, <2>1
    <2>2. CASE i \in 1 .. m
      <3>1. TrueEntry(log[i], ps, n) /\ next[i] = log[i]
        BY <1>1, <2>2 DEF Story
      <3> QED
        BY <3>1 DEF TrueEntry, Tells
    <2> QED
      BY <1>1, <2>1, <2>2
  <1>5. ASSUME NEW a \in Recorded(qs)
        PROVE  /\ \E i \in 1 .. Len(next) : Emits(next[i], a)
               /\ qs[a].revisions > 0 => \E i \in 1 .. Len(next) : Revises(next[i], a)
    <2>1. CASE a \in Recorded(ps)
      <3>1. \E i \in 1 .. m : Emits(log[i], a)
        BY <2>1 DEF Story
      <3>2. \E i \in 1 .. Len(next) : Emits(next[i], a)
        BY <1>1, <3>1
      <3>3. CASE ps[a].revisions > 0
        <4>1. \E i \in 1 .. m : Revises(log[i], a)
          BY <2>1, <3>3 DEF Story
        <4> QED
          BY <1>1, <3>2, <4>1
      <3>4. CASE ~(ps[a].revisions > 0)
        BY <1>1, <2>1, <3>2, <3>4 DEF Tells
      <3> QED
        BY <3>3, <3>4
    <2>2. CASE a \notin Recorded(ps)
      BY <1>1, <2>2 DEF Tells
    <2> QED
      BY <2>1, <2>2
  <1>6. Decided(next) => Closes(next[Len(next)], qs, n)
    BY <1>1 DEF Decided
  <1>7. Story(next, qs, n)
    BY <1>3, <1>4, <1>5, <1>6 DEF Story
  <1> QED
    BY <1>7 DEF next

\* A step that tells something.
LEMMA StoryStep ==
    ASSUME IInv, StoryInv, NEW e \in Entries, entries' = Append(entries, e),
           rounds' = rounds, phase' # "discover", Tells(e, proposals, proposals'),
           TrueEntry(e, proposals', rounds),
           phase = "discover" \/ phase \notin {"discover"} \cup Final,
           phase = "discover" => e.type = "deliberation_opened",
           e.type = "deliberation_closed" => Closes(e, proposals', rounds)
    PROVE  StoryInv'
  <1>1. entries \in Seq(Entries)
    BY DEF IInv, TypeOK
  <1>2. Story(Append(entries, e), proposals', rounds)
    BY <1>1, StoryGoesOn DEF StoryInv
  <1>3. Append(entries, e) # <<>>
    BY <1>1
  <1>4. Story(entries', proposals', rounds')
    BY <1>2
  <1>5. entries' # <<>>
    BY <1>3
  <1> QED
    BY <1>4, <1>5 DEF StoryInv, Story, TrueEntry, Emits, Revises, Closes

\* A step that adds no entry.
LEMMA StoryKept ==
    ASSUME IInv, StoryInv, UNCHANGED <<entries, proposals>>,
           rounds' = rounds \/ (rounds' = rounds + 1 /\ phase = "round"),
           \/ phase' = phase \/ phase' \in Final
           \/ phase \notin {"discover"} \cup Final /\ phase' # "discover"
    PROVE  StoryInv'
  <1>1. entries \in Seq(Entries) /\ Len(entries) \in Nat /\ rounds \in Nat
    BY DEF IInv, TypeOK
  <1>2. Decided(entries) => rounds' = rounds
    <2>1. Decided(entries) => /\ Len(entries) \in 1 .. Len(entries)
                              /\ entries[Len(entries)].type = "deliberation_closed"
      BY <1>1 DEF Decided
    <2> QED
      BY <2>1 DEF IInv, EntryInv, Final
  <1>3. ASSUME NEW i \in 1 .. Len(entries) PROVE TrueEntry(entries[i], proposals, rounds')
    <2>1. TrueEntry(entries[i], proposals, rounds)
      BY DEF StoryInv, Story
    <2>2. entries[i].type = "round_event" => entries[i].round \in Nat
      BY <1>1 DEF Entries
    <2> QED
      BY <1>1, <2>1, <2>2 DEF TrueEntry
  <1>4. Story(entries, proposals, rounds')
    BY <1>2, <1>3 DEF StoryInv, Story
  <1>5. Story(entries', proposals', rounds')
    BY <1>4
  <1>6. /\ phase' = "discover" => entries' = <<>>
        /\ phase' \notin {"discover"} \cup Final => entries' # <<>>
    BY DEF StoryInv, Final
  <1> QED
    BY <1>5, <1>6 DEF StoryInv, Story, TrueEntry, Emits, Revises, Closes

\* A step that leaves the proposals as they are tells nothing about them.
LEMMA NothingNew ==
    ASSUME NEW e, NEW ps
    PROVE  Tells(e, ps, ps)
  BY DEF Tells

\* A first proposal.
LEMMA ProposalTold ==
    ASSUME IInv, StoryInv, NEW a \in Agents, proposals[a].vote = "none",
           NEW p \in Proposals, p.vote # "none", ~(p.revisions > 0),
           proposals' = [proposals EXCEPT ![a] = p],
           entries' = Append(entries, Emitted(a, p)), rounds' = rounds,
           phase \in {"collect", "self"}, phase' # "discover"
    PROVE  StoryInv'
  <1> DEFINE e == Emitted(a, p)
  <1>1. proposals \in [Agents -> Proposals]
    BY DEF IInv, TypeOK
  <1>2. e \in Entries
    BY EntryTypes DEF IInv
  <1>3. e.type = "proposal_emitted" /\ e.agent = a /\ e.vote = p.vote
    BY DEF Emitted
  <1> HIDE DEF e
  <1>4. proposals'[a] = p /\ \A b \in Agents \ {a} : proposals'[b] = proposals[b]
    BY <1>1
  <1>5. Recorded(proposals') = Recorded(proposals) \cup {a} /\ a \notin Recorded(proposals)
    BY <1>4 DEF Recorded
  <1>6. Recorded(proposals) \subseteq Agents \ {a}
    BY DEF Recorded
  <1>7. Tells(e, proposals, proposals')
    BY <1>3, <1>4, <1>5, <1>6 DEF Tells, Emits
  <1>8. TrueEntry(e, proposals', rounds)
    BY <1>3, <1>4, <1>5 DEF TrueEntry, IsEvent
  <1>9. entries' = Append(entries, e)
    BY DEF e
  <1>10. phase # "discover" /\ phase \notin Final
    BY DEF Final
  <1> QED
    BY <1>2, <1>3, <1>7, <1>8, <1>9, <1>10, StoryStep

\* Opening and collecting.
LEMMA StoryCollect ==
    ASSUME IInv, FreshInv, StoryInv, Collect
    PROVE  StoryInv'
  <1>a. TypeOK /\ proposals \in [Agents -> Proposals] /\ replies \in [Agents -> Proposals]
    BY DEF IInv, TypeOK
  <1>b. Self \in Agents /\ Peers \subseteq Agents
    BY PeerDeliberationAssumption DEF Peers
  <1>1. CASE Open
    <2>1. CASE OverBudget
      <3>1. UNCHANGED <<entries, proposals, rounds>> /\ phase' \in Final
        BY <1>1, <2>1 DEF Open, deciding, looping, Final
      <3> QED
        BY <3>1, StoryKept
    <2>2. CASE ~OverBudget
      <3>1. /\ phase = "discover" /\ phase' = "collect" /\ entries' = Append(entries, Opened)
            /\ proposals' = proposals /\ rounds' = rounds
        BY <1>1, <2>2 DEF Open, Log, deciding, looping
      <3>2. Opened \in Entries /\ Opened.type = "deliberation_opened"
        BY <1>a, EntryTypes DEF Opened
      <3>3. TrueEntry(Opened, proposals, rounds)
        BY <3>2 DEF TrueEntry, IsEvent
      <3> QED
        BY <3>1, <3>2, <3>3, NothingNew, StoryStep
    <2> QED
      BY <2>1, <2>2
  <1>2. ASSUME NEW p \in Peers, Discover(p) PROVE StoryInv'
    <2>1. UNCHANGED <<phase, entries, proposals, rounds>>
      BY <1>2 DEF Discover, deciding, looping
    <2> QED
      BY <2>1, StoryKept
  <1>3. ASSUME NEW p \in Peers, Request(p) PROVE StoryInv'
    <2>1. UNCHANGED <<phase, entries, proposals, rounds>>
      BY <1>3 DEF Request, deciding, looping
    <2> QED
      BY <2>1, StoryKept
  <1>4. ASSUME NEW p \in Peers, Record(p) PROVE StoryInv'
    <2>1. /\ phase = "collect" /\ phase' = "collect" /\ rounds' = rounds
          /\ proposals' = [proposals EXCEPT ![p] = replies[p]]
          /\ entries' = Append(entries, Emitted(p, replies[p]))
          /\ replies[p].vote # "none" /\ p \in Agents
      BY <1>4, <1>b DEF Record, Log, looping
    <2>2. proposals[p].vote = "none"
      BY <2>1 DEF FreshInv
    <2>3. replies[p] \in Proposals /\ ~(replies[p].revisions > 0)
      BY <1>a, <2>1 DEF IInv, ProposalInv
    <2> QED
      BY <2>1, <2>2, <2>3, ProposalTold
  <1>5. CASE OwnHandler
    <2>1. UNCHANGED <<entries, proposals, rounds>> /\ phase = "collect" /\ phase' = "self"
      BY <1>5 DEF OwnHandler, deciding, looping
    <2> QED
      BY <2>1, StoryKept DEF Final
  <1>6. CASE RecordSelf
    <2>1. /\ phase = "self" /\ phase' = "round" /\ rounds' = rounds
          /\ proposals' = [proposals EXCEPT ![Self] = replies[Self]]
          /\ entries' = Append(entries, Emitted(Self, replies[Self]))
      BY <1>6 DEF RecordSelf, Log, looping
    <2>2. proposals[Self].vote = "none"
      BY <2>1 DEF FreshInv, Before
    <2>3. /\ replies[Self] \in Proposals /\ ~(replies[Self].revisions > 0)
          /\ replies[Self].vote # "none"
      BY <1>a, <1>b, <2>1 DEF IInv, ProposalInv
    <2> QED
      BY <1>b, <2>1, <2>2, <2>3, ProposalTold
  <1>7. CASE SelfFails
    <2>1. UNCHANGED <<entries, proposals, rounds>> /\ phase' \in Final
      BY <1>7 DEF SelfFails, deciding, looping, Final
    <2> QED
      BY <2>1, StoryKept
  <1> QED
    BY <1>1, <1>2, <1>3, <1>4, <1>5, <1>6, <1>7 DEF Collect

\* A round event of this round, which changes no vote.
LEMMA EventTold ==
    ASSUME IInv, FreshInv, StoryInv, [Next]_vars, NEW e \in Entries,
           e.type = "round_event", ~IsEvent(e, "revise"), e.round = rounds,
           entries' = Append(entries, e), rounds' = rounds,
           \A a \in Agents : proposals'[a].vote = proposals[a].vote
                             /\ proposals'[a].revisions = proposals[a].revisions,
           phase \in InRound, phase' \in InRound
    PROVE  StoryInv'
  <1>1. Recorded(proposals') = Recorded(proposals)
    BY DEF Recorded
  <1>2. Recorded(proposals) \subseteq Agents
    BY DEF Recorded
  <1>3. Tells(e, proposals, proposals')
    BY <1>1, <1>2 DEF Tells
  <1>4. rounds <= rounds
    BY DEF IInv, TypeOK
  <1>5. TrueEntry(e, proposals', rounds)
    BY <1>4 DEF TrueEntry
  <1> QED
    BY <1>3, <1>5, StoryStep DEF InRound, Final

LEMMA StoryUpdate ==
    ASSUME IInv, FreshInv, QuestionInv, StoryInv, [Next]_vars, Update
    PROVE  StoryInv'
  <1>a. /\ TypeOK /\ proposals \in [Agents -> Proposals] /\ rounds \in Nat
        /\ NoOne \notin Agents /\ current \in Agents \cup {NoOne}
        /\ evidence \in Agents \cup {NoOne}
    BY PeerDeliberationAssumption DEF IInv, TypeOK
  <1>1. CASE StartRound
    <2>1. UNCHANGED <<entries, proposals>> /\ rounds' = rounds + 1 /\ phase = "round" /\ phase' = "visit"
      BY <1>1 DEF StartRound, deciding
    <2> QED
      BY <2>1, StoryKept DEF Final
  <1>2. CASE EndRounds
    <2>1. UNCHANGED <<entries, proposals, rounds>> /\ phase = "round" /\ phase' = "close"
      BY <1>2 DEF EndRounds, deciding, looping
    <2> QED
      BY <2>1, StoryKept DEF Final
  <1>3. ASSUME NEW r \in Agents, Visit(r) PROVE StoryInv'
    <2>1. UNCHANGED <<entries, proposals, rounds>> /\ phase = "visit" /\ phase' = "test"
      BY <1>3 DEF Visit, deciding
    <2> QED
      BY <2>1, StoryKept DEF Final
  <1>4. ASSUME NEW c \in Conditions, NoEvidence(c) PROVE StoryInv'
    <2>1. UNCHANGED <<phase, entries, proposals, rounds>>
      BY <1>4 DEF NoEvidence, deciding
    <2> QED
      BY <2>1, StoryKept
  <1>5. ASSUME NEW c \in Conditions, SendFalsification(c) PROVE StoryInv'
    <2> DEFINE e == RoundEvent("falsification_evidence", evidence, current, c)
    <2>1. /\ phase = "test" /\ phase' = "answer" /\ rounds' = rounds
          /\ entries' = Append(entries, e) /\ proposals' = proposals
      BY <1>5 DEF SendFalsification, Log, deciding
    <2>2. e \in Entries
      BY <1>a, EntryTypes DEF Kinds
    <2>3. e.type = "round_event" /\ ~IsEvent(e, "revise") /\ e.round = rounds
      BY DEF RoundEvent, IsEvent
    <2> HIDE DEF e
    <2> QED
      BY <2>1, <2>2, <2>3, EventTold DEF InRound
  <1>6. CASE Answer
    <2>1. PICK e \in Entries :
             /\ IsAnswer(e) /\ e.round = rounds /\ entries' = Append(entries, e)
             /\ \/ proposals' = MarkFalsified(proposals, current, asked)
                \/ proposals' = proposals
      BY <1>6, AnswerAdds
    <2>2. e.type = "round_event" /\ ~IsEvent(e, "revise")
      BY <2>1 DEF IsAnswer, IsEvent
    <2>3. /\ phase = "answer" /\ phase' = "test" /\ rounds' = rounds
          /\ current \in Agents /\ asked \in Conditions
      BY <1>6, AnswerFrame DEF Answer
    <2>4. \A a \in Agents : /\ proposals'[a].vote = proposals[a].vote
                            /\ proposals'[a].revisions = proposals[a].revisions
      BY <1>a, <2>1, <2>3, MarkChangesMarks
    <2> QED
      BY <2>1, <2>2, <2>3, <2>4, EventTold DEF InRound
  <1>7. CASE FinishVisit
    <2>1. phase = "test" /\ phase' = "visit" /\ rounds' = rounds
      BY <1>7 DEF FinishVisit
    <2>2. CASE allFalsified
      <3> DEFINE e == RoundEvent("revise", current, NoOne, NoOne)
      <3>1. /\ entries' = Append(entries, e)
            /\ proposals' = ReviseToAbstain(proposals, current)
        BY <1>7, <2>2 DEF FinishVisit, Log
      <3>2. current \in Agents /\ proposals[current].vote = "reject"
        BY <2>1 DEF IInv, TypeOK, VisitInv, InRound
      <3>3. e \in Entries
        BY <1>a, EntryTypes DEF Kinds
      <3>4. /\ e.type = "round_event" /\ e.round = rounds
            /\ IsEvent(e, "revise") /\ e.agent = current
        BY DEF RoundEvent, IsEvent
      <3> HIDE DEF e
      <3>5. /\ \A a \in Agents : proposals'[a].vote = proposals[a].vote
            /\ \A a \in Agents \ {current} : proposals'[a].revisions = proposals[a].revisions
            /\ proposals'[current].revisions > 0
        <4>1. proposals[current].revisions \in Nat
          BY <1>a, <3>2 DEF Proposals
        <4> QED
          BY <1>a, <3>1, <3>2, <4>1, ReviseChangesOne
      <3>6. /\ Recorded(proposals') = Recorded(proposals) /\ Recorded(proposals) \subseteq Agents
            /\ current \in Recorded(proposals)
        BY <3>2, <3>5 DEF Recorded
      <3>7. Tells(e, proposals, proposals')
        BY <3>4, <3>5, <3>6 DEF Tells, Revises
      <3>8. TrueEntry(e, proposals', rounds)
        BY <1>a, <3>4, <3>5, <3>6 DEF TrueEntry
      <3> QED
        BY <2>1, <3>1, <3>3, <3>4, <3>7, <3>8, StoryStep DEF Final
    <2>3. CASE ~allFalsified
      <3>1. UNCHANGED <<entries, proposals>>
        BY <1>7, <2>3 DEF FinishVisit
      <3> QED
        BY <2>1, <3>1, StoryKept DEF Final
    <2> QED
      BY <2>2, <2>3
  <1>8. CASE FinishRound
    <2>1. /\ UNCHANGED <<entries, proposals, rounds>> /\ phase = "visit"
          /\ phase' \in {"round", "close"}
      BY <1>8 DEF FinishRound, looping
    <2> QED
      BY <2>1, StoryKept DEF Final
  <1> QED
    BY <1>1, <1>2, <1>3, <1>4, <1>5, <1>6, <1>7, <1>8 DEF Update

LEMMA StoryConclude ==
    ASSUME IInv, StoryInv, Conclude
    PROVE  StoryInv'
  <1>1. CASE Close
    <2>1. PICK b \in BOOLEAN : entries' = Append(entries, Closed(Termination(LastTally, b)))
      BY <1>1 DEF Close, Log
    <2> DEFINE e == Closed(Termination(LastTally, b))
    <2>2. /\ phase = "close" /\ phase' = "settle" /\ rounds' = rounds /\ proposals' = proposals
          /\ tallies # <<>>
      BY <1>1 DEF Close, deciding, looping, IInv, TallyInv, Ending
    <2>3. LastTally = Tally(Ballots(proposals))
      BY <2>2 DEF IInv, TallyInv, Ending
    <2>4. LastTally \in Tallies
      BY <2>2 DEF LastTally, IInv, TypeOK
    <2>5. e \in Entries
      BY <2>2, <2>4, TerminationType, EntryTypes DEF IInv
    <2>6. /\ e.type = "deliberation_closed" /\ e.voters = Recorded(proposals)
          /\ e.rounds = rounds /\ e.tally = LastTally /\ e.status = Termination(LastTally, b)
      BY DEF Closed, LastTally
    <2> HIDE DEF e
    <2>7. Closes(e, proposals, rounds)
      BY <2>3, <2>6 DEF Closes
    <2>8. TrueEntry(e, proposals, rounds)
      BY <2>6 DEF TrueEntry, IsEvent
    <2>9. entries' = Append(entries, e)
      BY <2>1 DEF e
    <2> QED
      BY <2>2, <2>5, <2>7, <2>8, <2>9, NothingNew, StoryStep DEF Final
  <1>2. CASE ~Close
    <2>1. UNCHANGED <<entries, proposals, rounds>>
      BY <1>2
      DEF Conclude, Settle, RunRaises, Persist, PersistFails, StartGossip, Push, Return,
          deciding, looping
    <2>2. phase \notin {"discover"} \cup Final /\ phase' # "discover"
      BY <1>2
      DEF Conclude, Settle, RunRaises, Persist, PersistFails, StartGossip, Push, Return, Final
    <2> QED
      BY <2>1, <2>2, StoryKept
  <1> QED
    BY <1>1, <1>2

LEMMA StoryNext ==
    IInv /\ FreshInv /\ QuestionInv /\ StoryInv /\ [Next]_vars => StoryInv'
  <1> SUFFICES ASSUME IInv, FreshInv, QuestionInv, StoryInv, [Next]_vars
               PROVE  StoryInv'
    OBVIOUS
  <1>1. CASE Crash \/ UNCHANGED vars
    <2>1. UNCHANGED <<entries, proposals, rounds>> /\ (phase' = phase \/ phase' \in Final)
      BY <1>1 DEF Crash, vars, deciding, looping, Final
    <2> QED
      BY <2>1, StoryKept
  <1> QED
    BY <1>1, StoryCollect, StoryUpdate, StoryConclude DEF Next, Step
-----------------------------------------------------------------------------
(* What the store tells: the initiator's proposal from its own handler, and *)
(* then the transcript.                                                     *)

OwnEntries == Len(journal) - persisted

BookInv ==
    /\ OwnEntries \in {0, 1}
    /\ \A i \in 1 .. persisted : journal[OwnEntries + i] = entries[i]
    /\ OwnEntries = 1 => Emits(journal[1], Self)
    /\ phase \in {"discover", "collect"} => OwnEntries = 0
    /\ phase = "self" => OwnEntries = 1 /\ journal[1].vote = replies[Self].vote
    /\ phase \notin Before \cup Final => Self \in Recorded(proposals)
    /\ Self \in Recorded(proposals) => OwnEntries = 1 /\ journal[1].vote = proposals[Self].vote
    /\ persisted > 0 => Self \in Recorded(proposals)

\* A step that leaves the store alone.
LEMMA BookKept ==
    ASSUME IInv, BookInv, UNCHANGED <<journal, persisted>>,
           entries' = entries \/ persisted = 0,
           proposals'[Self].vote = proposals[Self].vote,
           \/ phase' = phase /\ replies'[Self] = replies[Self]
           \/ phase' \in Final \cup {"collect"} /\ phase \in {"discover", "collect"}
           \/ phase' \in Final \/ (phase \notin Before \cup Final /\ phase' \notin Before)
    PROVE  BookInv'
  <1>1. Self \in Agents
    BY PeerDeliberationAssumption
  <1>2. Self \in Recorded(proposals') <=> Self \in Recorded(proposals)
    BY <1>1 DEF Recorded
  <1>3. OwnEntries' = OwnEntries
    BY DEF OwnEntries
  <1>4. \A i \in 1 .. persisted' : journal'[OwnEntries + i] = entries'[i]
    <2>1. CASE entries' = entries
      BY <2>1 DEF BookInv
    <2>2. CASE persisted = 0
      BY <2>2
    <2> QED
      BY <2>1, <2>2
  <1>5. OwnEntries' \in {0, 1} /\ (OwnEntries' = 1 => Emits(journal'[1], Self))
    BY <1>3 DEF BookInv
  <1>6. phase' \in {"discover", "collect"} => OwnEntries' = 0
    BY <1>3 DEF BookInv, Before, Final
  <1>7. phase' = "self" => OwnEntries' = 1 /\ journal'[1].vote = replies'[Self].vote
    BY <1>3 DEF BookInv, Before, Final
  <1>8. phase' \notin Before \cup Final => Self \in Recorded(proposals')
    BY <1>2 DEF BookInv, Before, Final
  <1>9. Self \in Recorded(proposals') =>
            OwnEntries' = 1 /\ journal'[1].vote = proposals'[Self].vote
    BY <1>2, <1>3 DEF BookInv
  <1>10. persisted' > 0 => Self \in Recorded(proposals')
    BY <1>2 DEF BookInv
  <1> QED
    BY <1>3, <1>4, <1>5, <1>6, <1>7, <1>8, <1>9, <1>10 DEF BookInv, Emits

LEMMA BookCollect ==
    ASSUME IInv, FreshInv, BookInv, Collect
    PROVE  BookInv'
  <1>a. /\ proposals \in [Agents -> Proposals] /\ replies \in [Agents -> Proposals]
        /\ journal \in Seq(Entries) /\ Len(journal) \in Nat
        /\ Self \in Agents /\ Peers = Agents \ {Self}
    BY PeerDeliberationAssumption DEF IInv, TypeOK, Peers
  <1>b. persisted = 0
    BY DEF IInv, JournalInv, Collect, Discover, Request, Record, Open, OwnHandler, RecordSelf,
           SelfFails, Final
  <1>1. CASE Open \/ SelfFails \/ \E p \in Peers : Discover(p) \/ Request(p)
    <2>1. UNCHANGED <<journal, persisted, proposals>>
      BY <1>1 DEF Open, SelfFails, Discover, Request, deciding, output
    <2>2. \/ phase' \in Final \cup {"collect"} /\ phase \in {"discover", "collect"}
          \/ phase' \in Final
          \/ phase' = phase /\ replies'[Self] = replies[Self]
      BY <1>1, <1>a DEF Open, SelfFails, Discover, Request, Final
    <2> QED
      BY <1>b, <2>1, <2>2, BookKept
  <1>2. ASSUME NEW p \in Peers, Record(p) PROVE BookInv'
    <2>1. /\ UNCHANGED <<journal, persisted>> /\ phase = "collect" /\ phase' = "collect"
          /\ proposals'[Self] = proposals[Self]
      BY <1>2, <1>a DEF Record, output
    <2> QED
      BY <1>b, <2>1, BookKept
  <1>3. CASE OwnHandler
    <2>1. PICK offer \in Offers :
             /\ replies' = [replies EXCEPT ![Self] = Submitted(offer)]
             /\ journal' = Append(journal, Emitted(Self, Submitted(offer)))
      BY <1>3 DEF OwnHandler
    <2>2. /\ phase = "collect" /\ phase' = "self"
          /\ UNCHANGED <<proposals, persisted, entries>>
      BY <1>3 DEF OwnHandler, deciding
    <2>3. Len(journal) = 0
      BY <1>a, <1>b, <2>2 DEF BookInv, OwnEntries
    <2>4. Submitted(offer) \in Proposals
      BY PeerDeliberationAssumption DEF Submitted, Proposals
    <2>5. Emitted(Self, Submitted(offer)) \in Entries
      BY <1>a, <2>4, EntryTypes DEF IInv
    <2>6. Len(journal') = 1 /\ journal'[1] = Emitted(Self, Submitted(offer))
      BY <1>a, <2>1, <2>3, <2>5, Appending
    <2>7. Emits(journal'[1], Self) /\ journal'[1].vote = replies'[Self].vote
      BY <1>a, <2>1, <2>6 DEF Emits, Emitted
    <2>8. Self \notin Recorded(proposals)
      BY <2>2, <2>3, <1>b DEF BookInv, OwnEntries
    <2>9. OwnEntries' = 1
      BY <1>b, <2>2, <2>6 DEF OwnEntries
    <2> QED
      BY <1>b, <2>2, <2>7, <2>8, <2>9 DEF BookInv, Before, Emits
  <1>4. CASE RecordSelf
    <2>1. /\ phase = "self" /\ phase' = "round" /\ proposals'[Self] = replies[Self]
          /\ UNCHANGED <<journal, persisted>>
      BY <1>4, <1>a DEF RecordSelf, output
    <2>2. Self \in Recorded(proposals')
      BY <1>a, <2>1 DEF Recorded, IInv, ProposalInv
    <2>3. /\ OwnEntries = 1 /\ OwnEntries' = OwnEntries /\ Emits(journal[1], Self)
          /\ journal[1].vote = replies[Self].vote
      BY <2>1 DEF BookInv, OwnEntries
    <2> QED
      BY <1>b, <2>1, <2>2, <2>3 DEF BookInv, Before, Emits
  <1> QED
    BY <1>1, <1>2, <1>3, <1>4 DEF Collect

LEMMA BookNext ==
    IInv /\ FreshInv /\ BookInv /\ [Next]_vars => BookInv'
  <1> SUFFICES ASSUME IInv, FreshInv, BookInv, [Next]_vars
               PROVE  BookInv'
    OBVIOUS
  <1>a. /\ journal \in Seq(Entries) /\ Len(journal) \in Nat
        /\ entries \in Seq(Entries) /\ Len(entries) \in Nat /\ persisted \in Nat
        /\ Self \in Agents
    BY PeerDeliberationAssumption DEF IInv, TypeOK
  <1>1. CASE Collect
    BY <1>1, BookCollect
  <1>2. CASE Update
    <2>1. /\ UNCHANGED <<journal, persisted>>
          /\ phase \notin Before \cup Final /\ phase' \notin Before
      BY <1>2
      DEF Update, StartRound, EndRounds, Visit, NoEvidence, SendFalsification, Answer,
          FinishVisit, FinishRound, output, Before, Final
    <2>2. persisted = 0
      BY <1>2
      DEF Update, StartRound, EndRounds, Visit, NoEvidence, SendFalsification, Answer,
          FinishVisit, FinishRound, IInv, JournalInv, Final
    <2>3. proposals'[Self].vote = proposals[Self].vote
      BY <1>a, <2>1, VotesStay DEF BookInv, Recorded
    <2> QED
      BY <2>1, <2>2, <2>3, BookKept
  <1>3. CASE Persist
    <2>1. /\ phase = "persist" /\ phase' = "persist" /\ persisted < Len(entries)
          /\ persisted' = persisted + 1 /\ journal' = Append(journal, entries[persisted + 1])
          /\ UNCHANGED <<entries, proposals>>
      BY <1>3 DEF Persist, deciding
    <2>2. entries[persisted + 1] \in Entries
      BY <1>a, <2>1
    <2>3. /\ Len(journal') = Len(journal) + 1
          /\ journal'[Len(journal) + 1] = entries[persisted + 1]
          /\ \A i \in 1 .. Len(journal) : journal'[i] = journal[i]
      BY <1>a, <2>1, <2>2, Appending
    <2>4. Self \in Recorded(proposals)
      BY <2>1 DEF BookInv, Before, Final
    <2>5. /\ OwnEntries = 1 /\ Len(journal) = persisted + 1
          /\ Emits(journal[1], Self) /\ journal[1].vote = proposals[Self].vote
      BY <1>a, <2>4 DEF BookInv, OwnEntries
    <2>6. OwnEntries' = 1 /\ journal'[1] = journal[1]
      BY <1>a, <2>1, <2>3, <2>5 DEF OwnEntries
    <2>7. ASSUME NEW i \in 1 .. persisted' PROVE journal'[1 + i] = entries[i]
      <3>1. CASE i = persisted + 1
        BY <1>a, <2>3, <2>5, <3>1
      <3>2. CASE i \in 1 .. persisted
        <4>1. journal[1 + i] = entries[i] /\ 1 + i \in 1 .. Len(journal)
          BY <1>a, <2>5, <3>2 DEF BookInv
        <4> QED
          BY <2>3, <4>1
      <3>3. i = persisted + 1 \/ i \in 1 .. persisted
        <4>1. i \in 1 .. (persisted + 1)
          BY <2>1
        <4> QED
          BY <1>a, <4>1
      <3> QED
        BY <3>1, <3>2, <3>3
    <2>8. Self \in Recorded(proposals')
      BY <2>1, <2>4
    <2>9. journal'[1].vote = proposals'[Self].vote /\ Emits(journal'[1], Self)
      BY <2>1, <2>5, <2>6
    <2>10. \A i \in 1 .. persisted' : journal'[OwnEntries' + i] = entries'[i]
      BY <2>1, <2>6, <2>7
    <2> QED
      BY <2>1, <2>6, <2>8, <2>9, <2>10 DEF BookInv, Before, Final, Emits
  <1>4. CASE Conclude /\ ~Persist
    <2>1. UNCHANGED <<journal, persisted, proposals>>
      BY <1>4
      DEF Conclude, Close, Settle, RunRaises, PersistFails, StartGossip, Push, Return,
          deciding, output
    <2>2. entries' = entries \/ persisted = 0
      BY <1>4
      DEF Conclude, Close, Settle, RunRaises, PersistFails, StartGossip, Push, Return,
          IInv, JournalInv, Final
    <2>3. phase \notin Before \cup Final /\ phase' \notin Before
      BY <1>4
      DEF Conclude, Close, Settle, RunRaises, PersistFails, StartGossip, Push, Return,
          Before, Final
    <2> QED
      BY <2>1, <2>2, <2>3, BookKept
  <1>5. CASE Crash \/ UNCHANGED vars
    <2>1. UNCHANGED <<journal, persisted, proposals, entries, replies>>
      BY <1>5 DEF Crash, vars, collecting, deciding, output
    <2>2. phase' = phase \/ phase' \in Final
      BY <1>5 DEF Crash, vars, Final
    <2> QED
      BY <2>1, <2>2, BookKept
  <1> QED
    BY <1>1, <1>2, <1>3, <1>4, <1>5 DEF Next, Step

\* Who replays entries that tell the truth, and all of it, finds the ballots.
LEMMA Replaying ==
    ASSUME NEW ps, NEW n, NEW log,
           \A i \in 1 .. Len(log) : TrueEntry(log[i], ps, n),
           \A a \in Recorded(ps) :
              /\ \E i \in 1 .. Len(log) : Emits(log[i], a)
              /\ ps[a].revisions > 0 => \E i \in 1 .. Len(log) : Revises(log[i], a)
    PROVE  ReplayedBallots(log) = Ballots(ps)
  <1> DEFINE emitted == {i \in 1 .. Len(log) : log[i].type = "proposal_emitted"}
             voters == {log[i].agent : i \in emitted}
             ballot(a) == IF \E j \in 1 .. Len(log) : IsEvent(log[j], "revise") /\ log[j].agent = a
                            THEN "abstain"
                            ELSE log[CHOOSE i \in emitted : log[i].agent = a].vote
  <1>1. voters = Recorded(ps)
    BY DEF TrueEntry, Emits
  <1>2. ASSUME NEW a \in Recorded(ps) PROVE ballot(a) = CurrentVote(ps[a])
    <2>1. (\E j \in 1 .. Len(log) : IsEvent(log[j], "revise") /\ log[j].agent = a)
             <=> ps[a].revisions > 0
      BY DEF TrueEntry, Revises
    <2> DEFINE first == CHOOSE i \in emitted : log[i].agent = a
    <2>2. \E i \in emitted : log[i].agent = a
      BY DEF Emits
    <2>3. first \in emitted /\ log[first].agent = a
      BY <2>2
    <2>4. log[first].vote = ps[a].vote
      BY <2>3 DEF TrueEntry
    <2> QED
      BY <2>1, <2>4 DEF CurrentVote
  <1>3. ReplayedBallots(log) = [a \in voters |-> ballot(a)]
    BY DEF ReplayedBallots
  <1> HIDE DEF voters, ballot
  <1> QED
    BY <1>1, <1>2, <1>3 DEF Ballots

\* A true transcript, copied whole, explains what it decided.
LEMMA StoreExplains ==
    ASSUME IInv, StoryInv, BookInv
    PROVE  JournalExplainsDecision
  <1> SUFFICES ASSUME Decided(journal) PROVE JournalExplainsDecision
    BY DEF JournalExplainsDecision
  <1> DEFINE n == Len(journal)
             m == Len(entries)
  <1>a. /\ journal \in Seq(Entries) /\ n \in Nat
        /\ entries \in Seq(Entries) /\ m \in Nat /\ persisted \in 0 .. m
    BY DEF IInv, TypeOK
  <1>1. n \in 1 .. n /\ journal[n].type = "deliberation_closed"
    BY <1>a DEF Decided
  <1>2. persisted > 0
    <2> SUFFICES ASSUME persisted = 0 PROVE FALSE
      BY <1>a
    <2>1. n = 1 /\ OwnEntries = 1
      BY <1>a, <1>1 DEF BookInv, OwnEntries
    <2> QED
      BY <1>1, <2>1 DEF BookInv, Emits
  <1>3. /\ Self \in Recorded(proposals) /\ OwnEntries = 1 /\ n = persisted + 1
        /\ Emits(journal[1], Self) /\ journal[1].vote = proposals[Self].vote
    BY <1>a, <1>2 DEF BookInv, OwnEntries
  <1>4. \A i \in 1 .. persisted : journal[i + 1] = entries[i]
    BY <1>a, <1>3 DEF BookInv
  <1>5. journal[n] = entries[persisted] /\ persisted \in 1 .. m
    BY <1>a, <1>2, <1>3, <1>4
  <1>6. persisted = m
    BY <1>1, <1>5 DEF IInv, EntryInv
  <1>7. Closes(journal[n], proposals, rounds)
    <2>1. Decided(entries)
      BY <1>a, <1>1, <1>5, <1>6 DEF Decided
    <2> QED
      BY <1>5, <1>6, <2>1 DEF StoryInv, Story
  <1>8. ASSUME NEW i \in 1 .. n PROVE TrueEntry(journal[i], proposals, rounds)
    <2>1. CASE i = 1
      BY <1>3, <2>1 DEF TrueEntry, Emits, IsEvent
    <2>2. CASE i # 1
      <3>1. i - 1 \in 1 .. m /\ journal[i] = entries[i - 1]
        BY <1>a, <1>3, <1>4, <1>6, <2>2
      <3> QED
        BY <3>1 DEF StoryInv, Story
    <2> QED
      BY <2>1, <2>2
  <1>9. \A i \in 1 .. m : i + 1 \in 1 .. n /\ journal[i + 1] = entries[i]
    BY <1>a, <1>3, <1>4, <1>6
  <1>10. ASSUME NEW a \in Recorded(proposals)
         PROVE  /\ \E i \in 1 .. n : Emits(journal[i], a)
                /\ proposals[a].revisions > 0 => \E i \in 1 .. n : Revises(journal[i], a)
    <2>1. /\ \E i \in 1 .. m : Emits(entries[i], a)
          /\ proposals[a].revisions > 0 => \E i \in 1 .. m : Revises(entries[i], a)
      BY DEF StoryInv, Story
    <2> QED
      BY <1>9, <2>1
  <1>11. ReplayedBallots(journal) = Ballots(proposals)
    BY <1>8, <1>10, Replaying
  <1>12. DOMAIN Ballots(proposals) = Recorded(proposals)
    BY DEF Ballots
  <1>13. \E i \in 1 .. n : journal[i].type = "deliberation_opened"
    <2>1. 1 \in 1 .. m /\ entries[1].type = "deliberation_opened"
      BY <1>a, <1>2, <1>6 DEF StoryInv, Story
    <2> QED
      BY <1>9, <2>1
  <1>14. \A i \in 1 .. n : journal[i].type = "round_event" => journal[i].round <= rounds
    BY <1>8 DEF TrueEntry
  <1> QED
    BY <1>7, <1>11, <1>12, <1>13, <1>14 DEF JournalExplainsDecision, Closes

\* Wherever the process dies and whichever append fails: a store that holds a
\* decision holds what explains it, the initiator's proposal twice included.
THEOREM DecisionsAreExplained == Spec => []JournalExplainsDecision
  <1>1. Init => StoryInv /\ BookInv
    <2> SUFFICES ASSUME Init PROVE StoryInv /\ BookInv
      OBVIOUS
    <2>1. /\ entries = <<>> /\ journal = <<>> /\ persisted = 0 /\ phase = "discover"
          /\ Len(entries) = 0 /\ Len(journal) = 0 /\ 1 .. Len(entries) = {} /\ 1 .. persisted = {}
          /\ Recorded(proposals) = {}
      BY DEF Init, Recorded, NoProposal
    <2>2. StoryInv
      BY <2>1 DEF StoryInv, Story, Decided
    <2>3. BookInv
      BY <2>1 DEF BookInv, OwnEntries, Before
    <2> QED
      BY <2>2, <2>3
  <1>2. IInv /\ StoryInv /\ BookInv => JournalExplainsDecision
    BY StoreExplains
  <1> QED
    BY <1>1, <1>2, StoryNext, BookNext, Invariance, ProposalsAreFresh, TranscriptInvariance, PTL
    DEF Spec
-----------------------------------------------------------------------------
(* Sums over finite sets.  A sum of naturals is the size of a set. *)

\* The units of S under f: f[x] of them for each x.
Units(f, S) == {u \in S \X Nat : u[2] \in 1 .. f[u[1]]}

\* The largest value of a function on a finite set bounds them all.
LEMMA Bounded ==
    ASSUME NEW S, IsFiniteSet(S), NEW f, \A x \in S : f[x] \in Nat
    PROVE  \E n \in Nat : \A x \in S : f[x] <= n
<1> DEFINE Above(x) == {y \in S : f[y] >= f[x]}
           Tops == {Above(x) : x \in S}
<1>1. CASE S = {}
  BY <1>1
<1>2. CASE S # {}
  <2>1. Tops \subseteq FiniteSubsetsOf(S)
    BY FS_Subset DEF FiniteSubsetsOf
  <2>2. Tops # {}
    BY <1>2
  <2>3. PICK T \in Tops : \A U \in Tops : ~(<<U, T>> \in StrictSubsetOrdering(S))
    <3> HIDE DEF Tops
    <3>1. IsWellFoundedOn(StrictSubsetOrdering(S), FiniteSubsetsOf(S))
      BY FS_StrictSubsetOrderingWellFounded
    <3> QED
      BY <2>1, <2>2, <3>1, WFMin
  <2>4. PICK x \in S : T = Above(x)
    OBVIOUS
  <2>5. \A y \in S : f[y] <= f[x]
    <3> SUFFICES ASSUME NEW y \in S, ~(f[y] <= f[x]) PROVE FALSE
      OBVIOUS
    <3>1. f[x] \in Nat /\ f[y] \in Nat /\ f[y] > f[x] /\ f[x] >= f[x]
      OBVIOUS
    <3>2. \A z \in S : f[z] >= f[y] => f[z] >= f[x]
      BY <3>1
    <3>3. Above(y) \subseteq Above(x) /\ x \in Above(x) /\ x \notin Above(y)
      BY <3>1, <3>2
    <3>4. <<Above(y), Above(x)>> \in StrictSubsetOrdering(S)
      BY <3>3 DEF StrictSubsetOrdering
    <3> QED
      BY <2>3, <2>4, <3>4
  <2> QED
    BY <2>5
<1> QED
  BY <1>1, <1>2

LEMMA UnitsFinite ==
    ASSUME NEW S, IsFiniteSet(S), NEW f, \A x \in S : f[x] \in Nat
    PROVE  IsFiniteSet(Units(f, S))
<1>1. PICK n \in Nat : \A x \in S : f[x] <= n
  BY Bounded
<1>2. 1 \in Int /\ n \in Int
  OBVIOUS
<1>3. IsFiniteSet(1 .. n)
  BY <1>2, FS_Interval
<1>4. IsFiniteSet(S \X (1 .. n))
  BY <1>3, FS_Product
<1>5. Units(f, S) \subseteq S \X (1 .. n)
  <2> SUFFICES ASSUME NEW u \in S \X Nat, u[2] \in 1 .. f[u[1]]
               PROVE  u \in S \X (1 .. n)
    BY DEF Units
  <2>1. u[1] \in S /\ u[2] \in Nat /\ u = <<u[1], u[2]>>
    OBVIOUS
  <2>2. f[u[1]] \in Nat /\ f[u[1]] <= n
    BY <1>1, <2>1
  <2>3. u[2] \in 1 .. n
    BY <2>1, <2>2
  <2> QED
    BY <2>1, <2>3
<1> QED
  BY <1>4, <1>5, FS_Subset

\* One x more brings its f[x] units.
LEMMA UnitsSplit ==
    ASSUME NEW S, IsFiniteSet(S), NEW f, \A x \in S : f[x] \in Nat, NEW x \in S
    PROVE  Cardinality(Units(f, S)) = f[x] + Cardinality(Units(f, S \ {x}))
<1> DEFINE own == {u \in {x} \X Nat : u[2] \in 1 .. f[x]}
           rest == Units(f, S \ {x})
<1>1. f[x] \in Nat
  OBVIOUS
<1>2. IsFiniteSet(1 .. f[x]) /\ Cardinality(1 .. f[x]) = f[x]
  <2>1. 1 \in Int /\ f[x] \in Int
    BY <1>1
  <2>2. /\ IsFiniteSet(1 .. f[x])
        /\ Cardinality(1 .. f[x]) = IF 1 > f[x] THEN 0 ELSE f[x] - 1 + 1
    BY <2>1, FS_Interval
  <2> QED
    BY <1>1, <2>2
<1>3. IsFiniteSet(own) /\ Cardinality(own) = f[x]
  <2> DEFINE g == [i \in 1 .. f[x] |-> <<x, i>>]
  <2>1. g \in Bijection(1 .. f[x], own)
    <3>1. \A i \in 1 .. f[x] : g[i] \in own
      BY <1>1
    <3>2. \A i, j \in 1 .. f[x] : g[i] = g[j] => i = j
      OBVIOUS
    <3>3. \A u \in own : u[2] \in 1 .. f[x] /\ g[u[2]] = u
      OBVIOUS
    <3> QED
      BY <3>1, <3>2, <3>3 DEF Bijection, Injection, Surjection, IsInjective
  <2> HIDE DEF g, own
  <2> QED
    BY <1>2, <2>1, FS_Bijection DEF ExistsBijection
<1>4. IsFiniteSet(S \ {x})
  BY FS_Subset
<1>5. IsFiniteSet(rest)
  BY <1>4, UnitsFinite
<1>6. Units(f, S) = own \cup rest
  <2>1. \A u : u \in Units(f, S) <=> u \in S \X Nat /\ u[2] \in 1 .. f[u[1]]
    BY DEF Units
  <2>2. \A u : u \in rest <=> u \in (S \ {x}) \X Nat /\ u[2] \in 1 .. f[u[1]]
    BY DEF Units
  <2>3. \A u : u \in own <=> u \in {x} \X Nat /\ u[2] \in 1 .. f[u[1]]
    OBVIOUS
  <2>4. \A u : u \in S \X Nat <=> u \in (S \ {x}) \X Nat \/ u \in {x} \X Nat
    OBVIOUS
  <2> HIDE DEF own, rest
  <2> QED
    BY <2>1, <2>2, <2>3, <2>4
<1>7. own \cap rest = {}
  BY DEF Units
<1>8. Cardinality(own \cup rest) = Cardinality(own) + Cardinality(rest)
  <2> HIDE DEF own, rest
  <2>1. Cardinality(own \cup rest)
          = Cardinality(own) + Cardinality(rest) - Cardinality(own \cap rest)
    BY <1>3, <1>5, FS_Union
  <2>2. Cardinality(own \cap rest) = 0
    BY <1>7, FS_EmptySet
  <2>3. Cardinality(own) \in Nat /\ Cardinality(rest) \in Nat
    BY <1>3, <1>5, FS_CardinalityType
  <2> QED
    BY <2>1, <2>2, <2>3
<1> QED
  BY <1>3, <1>6, <1>8

\* A sum is the number of units: both take one element after the other away.
LEMMA SumIsCount ==
    ASSUME NEW S, IsFiniteSet(S), NEW f, \A x \in S : f[x] \in Nat
    PROVE  SumFunctionOnSet(f, S) = Cardinality(Units(f, S))
<1> DEFINE Def(h) == [s \in SUBSET S |->
                        IF s = {} THEN 0
                        ELSE f[CHOOSE x \in s : TRUE] + h[s \ {CHOOSE x \in s : TRUE}]]
           h0 == CHOOSE h : h = Def(h)
           count == [s \in SUBSET S |-> Cardinality(Units(f, s))]
<1>1. SumFunctionOnSet(f, S) = h0[S]
  BY Zenon DEF SumFunctionOnSet, FoldFunctionOnSet, MapThenFoldSet
<1>2. \E h : h = Def(h)
  <2>1. \A s \in SUBSET S : count[s] = Def(count)[s]
    <3> SUFFICES ASSUME NEW s \in SUBSET S PROVE count[s] = Def(count)[s]
      OBVIOUS
    <3>1. IsFiniteSet(s) /\ \A x \in s : f[x] \in Nat
      BY FS_Subset
    <3>2. CASE s = {}
      <4>1. Units(f, {}) = {}
        BY DEF Units
      <4> QED
        BY <3>2, <4>1, FS_EmptySet
    <3>3. CASE s # {}
      <4> DEFINE x == CHOOSE x \in s : TRUE
      <4>1. x \in s
        BY <3>3
      <4>2. Cardinality(Units(f, s)) = f[x] + Cardinality(Units(f, s \ {x}))
        <5> HIDE DEF x
        <5> QED
          BY <3>1, <4>1, UnitsSplit
      <4>3. s \ {x} \in SUBSET S
        OBVIOUS
      <4>4. count[s \ {x}] = Cardinality(Units(f, s \ {x}))
        BY <4>3
      <4>5. Def(count)[s] = f[x] + count[s \ {x}]
        BY <3>3
      <4> QED
        BY <4>2, <4>4, <4>5
    <3> QED
      BY <3>2, <3>3
  <2>2. count = Def(count)
    BY <2>1
  <2> QED
    BY <2>2
<1>3. h0 = Def(h0)
  <2> HIDE DEF Def
  <2> QED
    BY <1>2
<1>4. /\ h0[{}] = 0
      /\ \A s \in SUBSET S : s # {} => \E x \in s : h0[s] = f[x] + h0[s \ {x}]
  <2> HIDE DEF h0
  <2>1. h0[{}] = Def(h0)[{}]
    BY <1>3
  <2>2. \A s \in SUBSET S : h0[s] = Def(h0)[s]
    BY <1>3
  <2>3. Def(h0)[{}] = 0
    OBVIOUS
  <2>4. \A s \in SUBSET S : s # {} =>
            LET x == CHOOSE x \in s : TRUE
            IN  x \in s /\ Def(h0)[s] = f[x] + h0[s \ {x}]
    OBVIOUS
  <2> HIDE DEF Def
  <2> QED
    BY <2>1, <2>2, <2>3, <2>4
<1>5. \A s \in SUBSET S : h0[s] = Cardinality(Units(f, s))
  <2> HIDE DEF h0
  <2> DEFINE Wrong == {s \in SUBSET S : h0[s] # Cardinality(Units(f, s))}
  <2> SUFFICES ASSUME Wrong # {} PROVE FALSE
    OBVIOUS
  <2>1. Wrong \subseteq FiniteSubsetsOf(S)
    BY FS_Subset DEF FiniteSubsetsOf
  <2>2. PICK s \in Wrong : \A t \in Wrong : ~(<<t, s>> \in StrictSubsetOrdering(S))
    <3> HIDE DEF Wrong
    <3>1. IsWellFoundedOn(StrictSubsetOrdering(S), FiniteSubsetsOf(S))
      BY FS_StrictSubsetOrderingWellFounded
    <3> QED
      BY <2>1, <3>1, WFMin
  <2>3. IsFiniteSet(s) /\ \A x \in s : f[x] \in Nat
    BY FS_Subset
  <2>4. s # {}
    <3>1. Units(f, {}) = {}
      BY DEF Units
    <3> QED
      BY <1>4, <3>1, FS_EmptySet
  <2>5. PICK x \in s : h0[s] = f[x] + h0[s \ {x}]
    BY <1>4, <2>4
  <2>6. <<s \ {x}, s>> \in StrictSubsetOrdering(S)
    BY DEF StrictSubsetOrdering
  <2>7. h0[s \ {x}] = Cardinality(Units(f, s \ {x}))
    BY <2>2, <2>6
  <2>8. Cardinality(Units(f, s)) = f[x] + Cardinality(Units(f, s \ {x}))
    BY <2>3, UnitsSplit
  <2> QED
    BY <2>5, <2>7, <2>8
<1> QED
  <2> HIDE DEF h0
  <2> QED
    BY <1>1, <1>5

\* One element less, one summand less.
LEMMA SumSplit ==
    ASSUME NEW S, IsFiniteSet(S), NEW f, \A x \in S : f[x] \in Nat
    PROVE  /\ SumFunctionOnSet(f, S) \in Nat
           /\ \A x \in S : SumFunctionOnSet(f, S) = f[x] + SumFunctionOnSet(f, S \ {x})
<1>1. SumFunctionOnSet(f, S) = Cardinality(Units(f, S))
  BY SumIsCount
<1>2. Cardinality(Units(f, S)) \in Nat
  BY UnitsFinite, FS_CardinalityType
<1>3. ASSUME NEW x \in S
      PROVE  SumFunctionOnSet(f, S) = f[x] + SumFunctionOnSet(f, S \ {x})
  <2>1. IsFiniteSet(S \ {x}) /\ \A y \in S \ {x} : f[y] \in Nat
    BY FS_Subset
  <2>2. SumFunctionOnSet(f, S \ {x}) = Cardinality(Units(f, S \ {x}))
    BY <2>1, SumIsCount
  <2> QED
    BY <1>1, <2>2, UnitsSplit
<1> QED
  BY <1>1, <1>2, <1>3

\* Elements that count for nothing may be left out.
LEMMA SumSame ==
    ASSUME NEW T, IsFiniteSet(T), NEW S, S \subseteq T, NEW f, NEW g,
           \A x \in T : g[x] \in Nat,
           \A x \in S : f[x] = g[x],
           \A x \in T \ S : g[x] = 0
    PROVE  SumFunctionOnSet(f, S) = SumFunctionOnSet(g, T)
<1>1. IsFiniteSet(S) /\ \A x \in S : f[x] \in Nat
  BY FS_Subset
<1>2. Units(f, S) = Units(g, T)
  <2>1. ASSUME NEW x \in T, NEW n \in Nat
        PROVE  <<x, n>> \in Units(f, S) <=> <<x, n>> \in Units(g, T)
    <3>1. n \in 1 .. g[x] => x \in S
      BY <2>1
    <3> QED
      BY <2>1, <3>1 DEF Units
  <2>2. Units(f, S) \subseteq T \X Nat /\ Units(g, T) \subseteq T \X Nat
    BY DEF Units
  <2> QED
    BY <2>1, <2>2
<1> QED
  BY <1>1, <1>2, SumIsCount

\* Where two functions differ at one element by some amount, so do their sums.
LEMMA SumGrows ==
    ASSUME NEW S, IsFiniteSet(S), NEW f, NEW g, NEW x \in S,
           \A y \in S : f[y] \in Nat /\ g[y] \in Nat,
           \A y \in S \ {x} : g[y] = f[y], g[x] = f[x] + 1
    PROVE  SumFunctionOnSet(g, S) = SumFunctionOnSet(f, S) + 1
<1>1. IsFiniteSet(S \ {x})
  BY FS_Subset
<1>2. SumFunctionOnSet(g, S \ {x}) = SumFunctionOnSet(f, S \ {x})
  BY <1>1, SumSame
<1>3. SumFunctionOnSet(f, S \ {x}) \in Nat
  BY <1>1, SumSplit
<1>4. /\ SumFunctionOnSet(f, S) = f[x] + SumFunctionOnSet(f, S \ {x})
      /\ SumFunctionOnSet(g, S) = g[x] + SumFunctionOnSet(g, S \ {x})
  BY SumSplit
<1> QED
  BY <1>2, <1>3, <1>4
-----------------------------------------------------------------------------
(* What the settlement pays. *)

\* The shortcut of the code marks exactly the agents that a re-tally of the
\* other ballots would mark: without an approver's ballot, the approval is its
\* weight less and the rejection is the same; without weight nothing changes.
LEMMA ShortcutIsCounterfactual ==
    ASSUME NEW ballots \in BallotBox
    PROVE  LoadBearingAgents(Tally(ballots), ballots) = CounterfactualApprovers(ballots)
<1> DEFINE A == Voters(ballots, "approve")
           R == Voters(ballots, "reject")
<1>1. DOMAIN ballots \subseteq Agents
  BY DEF BallotBox
<1>2. /\ A \subseteq Agents /\ R \subseteq Agents
      /\ IsFiniteSet(A) /\ IsFiniteSet(R)
      /\ \A a \in Agents : Weight[a] \in Nat
  BY <1>1, FS_Subset, OrchestratorAssumption, PeerDeliberationAssumption DEF Voters
<1>3. /\ WeightOf(A) \in Nat /\ WeightOf(R) \in Nat
      /\ \A a \in A : WeightOf(A) = Weight[a] + WeightOf(A \ {a})
      /\ \A a \in A : WeightOf(A \ {a}) \in Nat
  <2>1. \A a \in A : IsFiniteSet(A \ {a}) /\ A \ {a} \subseteq Agents
    BY <1>2, FS_Subset
  <2> HIDE DEF A, R
  <2> QED
    BY <1>2, <2>1, SumSplit DEF WeightOf
<1>4. Tally(ballots).thresholdMet = ApprovalMet(WeightOf(A), WeightOf(R))
  BY DEF Tally
<1>5. Tally(ballots).approve = WeightOf(A) /\ Tally(ballots).reject = WeightOf(R)
  BY DEF Tally
<1>6. ASSUME NEW a \in A
      PROVE  Tally(Without(ballots, a)).thresholdMet
                = ApprovalMet(WeightOf(A) - Weight[a], WeightOf(R))
  <2>1. Voters(Without(ballots, a), "approve") = A \ {a}
    BY DEF Voters, Without
  <2>2. Voters(Without(ballots, a), "reject") = R
    BY DEF Voters, Without
  <2>3. Tally(Without(ballots, a)).thresholdMet = ApprovalMet(WeightOf(A \ {a}), WeightOf(R))
    BY <2>1, <2>2 DEF Tally
  <2>4. WeightOf(A \ {a}) = WeightOf(A) - Weight[a]
    <3> HIDE DEF A, R
    <3>1. a \in Agents
      BY <1>2
    <3> QED
      BY <1>2, <1>3, <3>1
  <2> QED
    BY <2>3, <2>4
<1>7. ASSUME NEW a \in A, Weight[a] = 0 PROVE WeightOf(A) - Weight[a] = WeightOf(A)
  <2> HIDE DEF A
  <2> QED
    BY <1>3, <1>7
<1>8. \A a : a \in A <=> a \in DOMAIN ballots /\ ballots[a] = "approve"
  BY DEF Voters
<1> HIDE DEF A, R
<1>9. \A a : a \in LoadBearingAgents(Tally(ballots), ballots) <=>
         /\ a \in A /\ ApprovalMet(WeightOf(A), WeightOf(R)) /\ Weight[a] # 0
         /\ ~ApprovalMet(WeightOf(A) - Weight[a], WeightOf(R))
  BY <1>4, <1>5, <1>8 DEF LoadBearingAgents
<1>10. \A a : a \in CounterfactualApprovers(ballots) <=>
         /\ a \in A /\ ApprovalMet(WeightOf(A), WeightOf(R))
         /\ ~ApprovalMet(WeightOf(A) - Weight[a], WeightOf(R))
  BY <1>4, <1>6 DEF CounterfactualApprovers, A
<1> QED
  BY <1>7, <1>9, <1>10

\* How many conditions of each agent's proposal were falsified.
Marks(ps) == [a \in Agents |-> Cardinality(ps[a].falsified)]

\* Who has not proposed has neither marks nor credits, and there are as many
\* credits as marks.
MarkInv ==
    /\ \A a \in Agents :
          /\ IsFiniteSet(proposals[a].falsified)
          /\ proposals[a].vote = "none" => proposals[a].falsified = {} /\ acks[a] = 0
    /\ SumFunctionOnSet(acks, Agents) = SumFunctionOnSet(Marks(proposals), Agents)

LEMMA MarksType ==
    ASSUME MarkInv
    PROVE  \A a \in Agents : Marks(proposals)[a] \in Nat
  BY FS_CardinalityType DEF MarkInv, Marks

\* Marks and credits change with an answer only.
LEMMA MarksStay ==
    ASSUME IInv, FreshInv, MarkInv, [Next]_vars, ~Answer
    PROVE  /\ acks' = acks
           /\ \A a \in Agents : /\ proposals'[a].falsified = proposals[a].falsified
                                /\ proposals[a].vote # "none" => proposals'[a].vote # "none"
  <1>a. /\ proposals \in [Agents -> Proposals] /\ replies \in [Agents -> Proposals]
        /\ \A a \in Agents : replies[a].falsified = {}
    BY DEF IInv, TypeOK, ProposalInv
  <1>b. Self \in Agents /\ Peers \subseteq Agents
    BY PeerDeliberationAssumption DEF Peers
  <1>1. acks' = acks
    <2>1. ASSUME NEW c \in Conditions, SendFalsification(c) PROVE acks' = acks
      BY <2>1 DEF SendFalsification, deciding
    <2>2. CASE \A c \in Conditions : ~SendFalsification(c)
      BY <2>2, PlainSteps
    <2> QED
      BY <2>1, <2>2
  <1>2. \A a \in Agents : proposals[a].vote # "none" => proposals'[a].vote # "none"
    BY VotesStay
  <1> DEFINE Goal == \A a \in Agents : proposals'[a].falsified = proposals[a].falsified
  <1> SUFFICES Goal
    BY <1>1, <1>2
  <1>0. ASSUME UNCHANGED proposals PROVE Goal
    BY <1>0
  <1>3. ASSUME NEW p \in Agents, proposals[p].vote = "none",
               proposals' = [proposals EXCEPT ![p] = replies[p]]
        PROVE  Goal
    <2>1. proposals[p].falsified = {} /\ replies[p].falsified = {}
      BY <1>3, <1>a DEF MarkInv
    <2> QED
      BY <1>3, <1>a, <2>1
  <1>4. CASE FinishVisit
    <2>1. CASE allFalsified
      <3>1. current \in Agents /\ proposals' = ReviseToAbstain(proposals, current)
        BY <1>4, <2>1 DEF FinishVisit, IInv, VisitInv, TypeOK, InRound
      <3>2. /\ \A b \in Agents \ {current} : proposals'[b] = proposals[b]
            /\ proposals'[current].falsified = proposals[current].falsified
        BY <1>a, <3>1, ReviseChangesOne
      <3> QED
        BY <3>2
    <2>2. CASE ~allFalsified
      BY <1>4, <2>2, <1>0 DEF FinishVisit
    <2> QED
      BY <2>1, <2>2
  <1> HIDE DEF Goal
  <1>5. ASSUME NEW p \in Peers, Record(p) PROVE Goal
    BY <1>3, <1>5, <1>b DEF Record, FreshInv
  <1>6. CASE RecordSelf
    BY <1>3, <1>6, <1>b DEF RecordSelf, FreshInv, Before
  <1>7. ASSUME NEW p \in Peers, Discover(p) \/ Request(p) PROVE Goal
    BY <1>7, <1>0 DEF Discover, Request, deciding
  <1>8. CASE Open \/ OwnHandler \/ SelfFails \/ Crash \/ UNCHANGED vars
    BY <1>8, <1>0 DEF Open, OwnHandler, SelfFails, Crash, vars, deciding
  <1>9. CASE phase \notin {"discover", "collect", "self"} /\ ~FinishVisit
    BY <1>9, <1>0, OtherSteps
  <1> QED
    BY <1>4, <1>5, <1>6, <1>7, <1>8, <1>9, CollectSteps DEF Collect

LEMMA MarkNext == IInv /\ FreshInv /\ QuestionInv /\ MarkInv /\ [Next]_vars => MarkInv'
  <1> SUFFICES ASSUME IInv, FreshInv, QuestionInv, MarkInv, [Next]_vars PROVE MarkInv'
    OBVIOUS
  <1>a. /\ proposals \in [Agents -> Proposals] /\ acks \in [Agents -> Nat]
        /\ IsFiniteSet(Agents)
    BY PeerDeliberationAssumption DEF IInv, TypeOK
  <1>0. ASSUME /\ acks' = acks
               /\ \A a \in Agents :
                     /\ proposals'[a].falsified = proposals[a].falsified
                     /\ proposals[a].vote # "none" => proposals'[a].vote # "none"
        PROVE  MarkInv'
    <2>1. Marks(proposals') = Marks(proposals)
      BY <1>0 DEF Marks
    <2>2. \A a \in Agents :
             /\ IsFiniteSet(proposals'[a].falsified)
             /\ proposals'[a].vote = "none" => proposals'[a].falsified = {} /\ acks'[a] = 0
      BY <1>0 DEF MarkInv
    <2> QED
      BY <1>0, <2>1, <2>2 DEF MarkInv
  <1>1. CASE ~Answer
    BY <1>0, <1>1, MarksStay
  <1>2. CASE Answer /\ Refused
    BY <1>0, <1>2 DEF Refused
  <1>3. CASE Answer /\ Acknowledged
    <2>1. /\ current \in Agents /\ asked \in Conditions
          /\ evidence \in Agents /\ proposals[evidence].vote = "approve"
          /\ asked \in active /\ active \subseteq Unfalsified(proposals[current])
          /\ proposals[current].vote # "none"
      <3>1. current \in Agents /\ asked \in Conditions
        BY <1>3, AnswerFrame
      <3>2. /\ evidence \in Agents /\ asked \in active /\ current \in rejecters
            /\ proposals[current].vote = "reject"
        BY <1>3 DEF Answer, IInv, VisitInv, InRound
      <3>3. evidence # NoOne
        BY <3>2, PeerDeliberationAssumption
      <3>4. proposals[evidence].vote = "approve" /\ active \subseteq Unfalsified(proposals[current])
        BY <1>3, <3>3 DEF Answer, QuestionInv, InRound
      <3> QED
        BY <3>1, <3>2, <3>4
    <2>2. /\ proposals' = MarkFalsified(proposals, current, asked)
          /\ acks' = [acks EXCEPT ![evidence] = @ + 1]
      BY <1>3 DEF Acknowledged, RecordAcknowledgement
    <2>3. /\ \A b \in Agents : proposals'[b].vote = proposals[b].vote
          /\ \A b \in Agents \ {current} : proposals'[b] = proposals[b]
          /\ proposals'[current].falsified = proposals[current].falsified \cup {asked}
      BY <1>a, <2>1, <2>2, MarkChangesMarks
    <2>4. asked \notin proposals[current].falsified
      BY <2>1 DEF Unfalsified
    <2>5. /\ IsFiniteSet(proposals[current].falsified)
          /\ IsFiniteSet(proposals'[current].falsified)
          /\ Cardinality(proposals'[current].falsified)
                = Cardinality(proposals[current].falsified) + 1
      <3> DEFINE marked == proposals[current].falsified
      <3>1. IsFiniteSet(marked)
        BY <2>1 DEF MarkInv
      <3> HIDE DEF marked
      <3>2. /\ IsFiniteSet(marked \cup {asked})
            /\ asked \notin marked => Cardinality(marked \cup {asked}) = Cardinality(marked) + 1
        BY <3>1, FS_AddElement
      <3> QED
        BY <2>3, <2>4, <3>1, <3>2 DEF marked
    <2>6. \A a \in Agents :
             /\ IsFiniteSet(proposals'[a].falsified)
             /\ proposals'[a].vote = "none" => proposals'[a].falsified = {} /\ acks'[a] = 0
      BY <1>a, <2>1, <2>2, <2>3, <2>5 DEF MarkInv
    <2>7. SumFunctionOnSet(acks', Agents) = SumFunctionOnSet(acks, Agents) + 1
      <3>1. /\ \A a \in Agents : acks[a] \in Nat /\ acks'[a] \in Nat
            /\ \A a \in Agents \ {evidence} : acks'[a] = acks[a]
            /\ acks'[evidence] = acks[evidence] + 1
        BY <1>a, <2>1, <2>2
      <3> QED
        BY <1>a, <2>1, <3>1, SumGrows
    <2>8. SumFunctionOnSet(Marks(proposals'), Agents)
             = SumFunctionOnSet(Marks(proposals), Agents) + 1
      <3>1. \A a \in Agents : Marks(proposals)[a] \in Nat /\ Marks(proposals')[a] \in Nat
        BY <2>6, FS_CardinalityType DEF MarkInv, Marks
      <3>2. /\ \A a \in Agents \ {current} : Marks(proposals')[a] = Marks(proposals)[a]
            /\ Marks(proposals')[current] = Marks(proposals)[current] + 1
        BY <2>1, <2>3, <2>5 DEF Marks
      <3> QED
        BY <1>a, <2>1, <3>1, <3>2, SumGrows
    <2> QED
      BY <2>6, <2>7, <2>8 DEF MarkInv
  <1> QED
    BY <1>1, <1>2, <1>3 DEF Answer

\* What is paid out is computed once, after the last change of any proposal.
SettledInv ==
    /\ settlement # NoSettlement => phase \in {"persist", "gossip"} \cup Final
    /\ SettlementIsEarned

LEMMA SettleEarns ==
    ASSUME IInv, MarkInv, Settle
    PROVE  SettledInv'
  <1> DEFINE ballots == Ballots(proposals)
             paid == Build(Recorded(proposals), acks, LoadBearingAgents(LastTally, ballots))
  <1>a. /\ proposals \in [Agents -> Proposals] /\ acks \in [Agents -> Nat]
        /\ IsFiniteSet(Agents) /\ Recorded(proposals) \subseteq Agents
    BY PeerDeliberationAssumption DEF IInv, TypeOK, Recorded
  <1>1. phase' = "persist" /\ proposals' = proposals
    BY DEF Settle, deciding
  <1>2. CASE ~Funded
    <2>1. settlement' = NoSettlement
      BY <1>2 DEF Settle
    <2> QED
      BY <2>1, <1>1 DEF SettledInv, SettlementIsEarned, NoSettlement
  <1>3. CASE Funded
    <2>1. settlement' = paid
      BY <1>3 DEF Settle
    <2>2. LastTally = Tally(ballots) /\ ballots \in BallotBox
      BY <1>a, BallotsType DEF Settle, IInv, TallyInv, Ending
    <2>3. LoadBearingAgents(LastTally, ballots) = CounterfactualApprovers(ballots)
      <3> HIDE DEF ballots
      <3> QED
        BY <2>2, ShortcutIsCounterfactual
    <2>4. /\ DOMAIN paid = Recorded(proposals)
          /\ \A a \in Recorded(proposals) :
                /\ paid[a].acknowledged = acks[a]
                /\ paid[a].loadBearing <=> a \in CounterfactualApprovers(ballots)
      <3> HIDE DEF ballots
      <3> QED
        BY <2>3 DEF Build
    <2>5. CounterfactualApprovers(ballots) \subseteq Recorded(proposals)
      BY DEF CounterfactualApprovers, Voters, Ballots
    <2> HIDE DEF paid, ballots
    <2>6. {a \in DOMAIN paid : paid[a].loadBearing} = CounterfactualApprovers(ballots)
      BY <2>4, <2>5
    <2>7. SumFunction([a \in DOMAIN paid |-> paid[a].acknowledged])
             = SumFunctionOnSet(acks, Agents)
      <3> DEFINE f == [a \in DOMAIN paid |-> paid[a].acknowledged]
      <3>1. DOMAIN f = Recorded(proposals) /\ \A a \in Recorded(proposals) : f[a] = acks[a]
        BY <2>4
      <3>2. \A a \in Agents \ Recorded(proposals) : acks[a] = 0
        BY DEF MarkInv, Recorded
      <3>3. \A a \in Agents : acks[a] \in Nat
        BY <1>a
      <3> HIDE DEF f
      <3>4. SumFunctionOnSet(f, Recorded(proposals)) = SumFunctionOnSet(acks, Agents)
        BY <1>a, <3>1, <3>2, <3>3, SumSame
      <3>5. SumFunction(f) = SumFunctionOnSet(acks, Agents)
        BY <3>1, <3>4 DEF SumFunction
      <3> QED
        BY <3>5 DEF f
    <2>8. SumFunction([a \in Agents |-> Cardinality(proposals[a].falsified)])
             = SumFunctionOnSet(acks, Agents)
      <3>1. DOMAIN Marks(proposals) = Agents
        BY DEF Marks
      <3>2. SumFunction(Marks(proposals)) = SumFunctionOnSet(acks, Agents)
        BY <3>1 DEF SumFunction, MarkInv
      <3> QED
        BY <3>2 DEF Marks
    <2>9. SettlementIsEarned'
      BY <1>1, <2>1, <2>4, <2>6, <2>7, <2>8 DEF SettlementIsEarned, ballots
    <2> QED
      BY <1>1, <2>9 DEF SettledInv
  <1> QED
    BY <1>2, <1>3

LEMMA SettledNext == IInv /\ MarkInv /\ SettledInv /\ [Next]_vars => SettledInv'
  <1> SUFFICES ASSUME IInv, MarkInv, SettledInv, [Next]_vars PROVE SettledInv'
    OBVIOUS
  <1> DEFINE After == {"persist", "gossip"} \cup Final
  <1>1. CASE Settle
    BY <1>1, SettleEarns
  <1>2. CASE ~Settle
    <2>1. settlement' = settlement /\ (phase \in After => phase' \in After)
      <3>1. CASE Collect
        BY <3>1
        DEF Collect, Discover, Request, Record, Open, OwnHandler, RecordSelf, SelfFails, output, Final
      <3>2. CASE Update
        BY <3>2
        DEF Update, StartRound, EndRounds, Visit, NoEvidence, SendFalsification, Answer,
            FinishVisit, FinishRound, output, Final
      <3>3. CASE Conclude
        BY <1>2, <3>3
        DEF Conclude, Close, RunRaises, Persist, PersistFails, StartGossip, Push, Return,
            output, Final
      <3>4. CASE Crash \/ UNCHANGED vars
        BY <3>4 DEF Crash, vars, output, Final
      <3> QED
        BY <3>1, <3>2, <3>3, <3>4 DEF Next, Step
    <2>2. CASE settlement = NoSettlement
      BY <2>1, <2>2 DEF SettledInv, SettlementIsEarned, NoSettlement
    <2>3. CASE settlement # NoSettlement
      <3>1. phase \in After
        BY <2>3 DEF SettledInv
      <3>2. ~Answer /\ ~FinishVisit /\ phase \notin {"discover", "collect", "self"}
        BY <3>1 DEF Answer, FinishVisit, Final
      <3>3. proposals' = proposals
        BY <3>2, OtherSteps
      <3>4. SettlementIsEarned'
        BY <2>1, <3>3 DEF SettledInv, SettlementIsEarned
      <3> QED
        BY <2>1, <3>1, <3>4 DEF SettledInv
    <2> QED
      BY <2>2, <2>3
  <1> QED
    BY <1>1, <1>2

\* Whatever weights, votes and acknowledgements: the settlement names who
\* proposed, marks who was needed, and credits what was conceded.
THEOREM SettlementsAreEarned == Spec => []SettlementIsEarned
  <1>1. Init => MarkInv /\ SettledInv
    <2> SUFFICES ASSUME Init PROVE MarkInv /\ SettledInv
      OBVIOUS
    <2>1. /\ \A a \in Agents : proposals[a].falsified = {} /\ acks[a] = 0
          /\ settlement = NoSettlement
      BY DEF Init, NoProposal
    <2>2. \A a \in Agents : Marks(proposals)[a] = 0 /\ acks[a] = Marks(proposals)[a]
      BY <2>1, FS_EmptySet DEF Marks
    <2>3. SumFunctionOnSet(acks, Agents) = SumFunctionOnSet(Marks(proposals), Agents)
      <3>1. Agents \subseteq Agents /\ \A a \in Agents : Marks(proposals)[a] \in Nat
        BY <2>2
      <3> QED
        BY <2>2, <3>1, SumSame, PeerDeliberationAssumption
    <2> QED
      BY <2>1, <2>3, FS_EmptySet DEF MarkInv, SettledInv, SettlementIsEarned, NoSettlement
  <1>2. SettledInv => SettlementIsEarned
    BY DEF SettledInv
  <1> QED
    BY <1>1, <1>2, MarkNext, SettledNext, Invariance, ProposalsAreFresh, TranscriptInvariance, PTL
    DEF Spec
-----------------------------------------------------------------------------
(* What runs out. *)

\* The dissent conditions of a proposal are a list that was parsed from JSON
\* (transport.py:343-353), and the agents are finitely many.
FiniteConditions == IsFiniteSet(Conditions)

\* The stages of a run that are left: discovery, proposals, its own proposal,
\* the rounds, the close, the settlement, persisting and gossip.
StagesLeft ==
    CASE phase = "discover" -> 8
      [] phase = "collect"  -> 7
      [] phase = "self"     -> 6
      [] phase \in InRound \cup {"round"} -> 5
      [] phase = "close"    -> 4
      [] phase = "settle"   -> 3
      [] phase = "persist"  -> 2
      [] phase = "gossip"   -> 1
      [] OTHER              -> 0

\* What is left of the stage's loop.  A call of the proposal gather may put an
\* answer in its place, which is then recorded.
TurnsLeft ==
    CASE phase \in {"discover", "gossip"} -> Cardinality(pending)
      [] phase = "collect" -> 2 * Cardinality(pending) + Cardinality(Recorded(replies))
      [] phase \in InRound \cup {"round"} -> MaxRounds - rounds
      [] phase = "persist" -> Len(entries) - persisted
      [] OTHER -> 0

\* What is left of the round's loop over the rejecters, and of the visit's
\* over the conditions, of which each may be sent and answered.
VisitsLeft == IF phase \in InRound THEN Cardinality(rejecters) + 1 ELSE 0

TestsLeft ==
    CASE phase = "visit"  -> 2 * Cardinality(Conditions) + 1
      [] phase = "test"   -> 2 * Cardinality(active)
      [] phase = "answer" -> 2 * Cardinality(active) - 1
      [] OTHER -> 0

left == <<StagesLeft, TurnsLeft, VisitsLeft, TestsLeft>>

\* The lexicographic order of such tuples.
Below(v, w) ==
    \/ v[1] < w[1]
    \/ v[1] = w[1] /\ v[2] < w[2]
    \/ v[1] = w[1] /\ v[2] = w[2] /\ v[3] < w[3]
    \/ v[1] = w[1] /\ v[2] = w[2] /\ v[3] = w[3] /\ v[4] < w[4]

\* One element less.
LEMMA OneLess ==
    ASSUME NEW S, IsFiniteSet(S), NEW x \in S
    PROVE  /\ Cardinality(S) \in Nat \ {0}
           /\ Cardinality(S \ {x}) = Cardinality(S) - 1
  <1>1. Cardinality(S) \in Nat /\ Cardinality(S) # 0
    BY FS_CardinalityType, FS_EmptySet
  <1>2. Cardinality(S \ {x}) = Cardinality(S) - 1
    BY FS_RemoveElement
  <1> QED
    BY <1>1, <1>2

\* All the sets that are counted are finite.
LEMMA Counted ==
    ASSUME FiniteConditions, IInv
    PROVE  /\ IsFiniteSet(pending) /\ Cardinality(pending) \in Nat
           /\ IsFiniteSet(Recorded(replies)) /\ Cardinality(Recorded(replies)) \in Nat
           /\ IsFiniteSet(rejecters) /\ Cardinality(rejecters) \in Nat
           /\ IsFiniteSet(active) /\ Cardinality(active) \in Nat
           /\ Cardinality(Conditions) \in Nat
           /\ \A S \in SUBSET Conditions : /\ Cardinality(S) \in Nat
                                            /\ Cardinality(S) <= Cardinality(Conditions)
           /\ MaxRounds - rounds \in Nat
           /\ Len(entries) - persisted \in Nat
  <1>1. /\ pending \subseteq Agents /\ rejecters \subseteq Agents
        /\ Recorded(replies) \subseteq Agents
        /\ active \subseteq Conditions
    BY DEF IInv, TypeOK, Recorded
  <1>2. \A S \in SUBSET Agents : IsFiniteSet(S) /\ Cardinality(S) \in Nat
    BY PeerDeliberationAssumption, FS_Subset, FS_CardinalityType
  <1>3. \A S \in SUBSET Conditions : /\ IsFiniteSet(S) /\ Cardinality(S) \in Nat
                                     /\ Cardinality(S) <= Cardinality(Conditions)
    BY FS_Subset, FS_CardinalityType DEF FiniteConditions
  <1>4. MaxRounds - rounds \in Nat
    BY PeerDeliberationAssumption DEF IInv, TypeOK, RoundInv
  <1>5. Len(entries) - persisted \in Nat
    <2>1. Len(entries) \in Nat /\ persisted \in 0 .. Len(entries)
      BY DEF IInv, TypeOK
    <2> QED
      BY <2>1
  <1> QED
    BY <1>1, <1>2, <1>3, <1>4, <1>5

LEMMA LeftIsNatural == FiniteConditions /\ IInv => left \in Nat \X Nat \X Nat \X Nat
  <1> SUFFICES ASSUME FiniteConditions, IInv PROVE left \in Nat \X Nat \X Nat \X Nat
    OBVIOUS
  <1> USE Counted DEF InRound
  <1>1. StagesLeft \in Nat
    BY DEF StagesLeft
  <1>2. TurnsLeft \in Nat
    BY DEF TurnsLeft
  <1>3. VisitsLeft \in Nat
    BY DEF VisitsLeft
  <1>4. TestsLeft \in Nat
    <2>1. phase = "answer" => Cardinality(active) \in Nat \ {0}
      BY OneLess DEF IInv, VisitInv
    <2> QED
      BY <2>1 DEF TestsLeft
  <1> QED
    BY <1>1, <1>2, <1>3, <1>4 DEF left

\* The next stage, or the next turn in this one.
LEMMA StageOver ==
    ASSUME StagesLeft' < StagesLeft PROVE Below(left', left)
  BY DEF Below, left

LEMMA TurnOver ==
    ASSUME StagesLeft' = StagesLeft, TurnsLeft' < TurnsLeft PROVE Below(left', left)
  BY DEF Below, left

LEMMA CollectGoesDown ==
    ASSUME FiniteConditions, IInv, Collect PROVE Below(left', left)
  <1>1. ASSUME NEW p \in Peers, Discover(p) PROVE Below(left', left)
    <2>1. phase = "discover" /\ phase' = "discover" /\ p \in pending /\ pending' = pending \ {p}
      BY <1>1 DEF Discover
    <2>2. Cardinality(pending') < Cardinality(pending)
      BY <2>1, Counted, OneLess
    <2>3. StagesLeft' = StagesLeft
      BY <2>1 DEF StagesLeft, InRound
    <2>4. TurnsLeft = Cardinality(pending) /\ TurnsLeft' = Cardinality(pending')
      BY <2>1 DEF TurnsLeft, InRound
    <2> QED
      BY <2>2, <2>3, <2>4, TurnOver
  <1>2. ASSUME NEW p \in Peers, Request(p) PROVE Below(left', left)
    <2>1. phase = "collect" /\ phase' = "collect" /\ p \in pending /\ pending' = pending \ {p}
      BY <1>2 DEF Request
    <2>2. Cardinality(pending') = Cardinality(pending) - 1
      BY <2>1, Counted, OneLess
    <2>3. /\ Cardinality(Recorded(replies')) \in Nat
          /\ Cardinality(Recorded(replies')) <= Cardinality(Recorded(replies)) + 1
      <3>1. Recorded(replies') \subseteq Recorded(replies) \cup {p}
        BY <1>2 DEF Request, Recorded, IInv, TypeOK
      <3>2. /\ IsFiniteSet(Recorded(replies) \cup {p})
            /\ Cardinality(Recorded(replies) \cup {p}) <= Cardinality(Recorded(replies)) + 1
        <4>1. IsFiniteSet(Recorded(replies)) /\ Cardinality(Recorded(replies)) \in Nat
          BY Counted
        <4>2. /\ IsFiniteSet(Recorded(replies) \cup {p})
              /\ Cardinality(Recorded(replies) \cup {p}) =
                    IF p \in Recorded(replies) THEN Cardinality(Recorded(replies))
                    ELSE Cardinality(Recorded(replies)) + 1
          BY <4>1, FS_AddElement
        <4> QED
          BY <4>1, <4>2
      <3>3. /\ IsFiniteSet(Recorded(replies'))
            /\ Cardinality(Recorded(replies')) <= Cardinality(Recorded(replies) \cup {p})
        BY <3>1, <3>2, FS_Subset
      <3> QED
        BY <3>2, <3>3, Counted, FS_CardinalityType
    <2>4. StagesLeft' = StagesLeft
      BY <2>1 DEF StagesLeft, InRound
    <2>5. /\ TurnsLeft = 2 * Cardinality(pending) + Cardinality(Recorded(replies))
          /\ TurnsLeft' = 2 * Cardinality(pending') + Cardinality(Recorded(replies'))
      BY <2>1 DEF TurnsLeft, InRound, Recorded
    <2>6. TurnsLeft' < TurnsLeft
      BY <2>1, <2>2, <2>3, <2>5, Counted
    <2> QED
      BY <2>4, <2>6, TurnOver
  <1>3. ASSUME NEW p \in Peers, Record(p) PROVE Below(left', left)
    <2>1. phase = "collect" /\ phase' = "collect" /\ pending' = pending /\ p \in Recorded(replies)
      BY <1>3 DEF Record, Recorded, Peers
    <2>2. Recorded(replies') = Recorded(replies) \ {p}
      BY <1>3 DEF Record, Recorded, NoProposal, IInv, TypeOK
    <2>3. Cardinality(Recorded(replies')) = Cardinality(Recorded(replies)) - 1
      BY <2>1, <2>2, Counted, OneLess
    <2>4. StagesLeft' = StagesLeft
      BY <2>1 DEF StagesLeft, InRound
    <2>5. /\ TurnsLeft = 2 * Cardinality(pending) + Cardinality(Recorded(replies))
          /\ TurnsLeft' = 2 * Cardinality(pending') + Cardinality(Recorded(replies'))
      BY <2>1 DEF TurnsLeft, InRound, Recorded
    <2>6. TurnsLeft' < TurnsLeft
      BY <2>1, <2>3, <2>5, Counted
    <2> QED
      BY <2>4, <2>6, TurnOver
  <1>4. CASE Open
    BY <1>4, StageOver DEF Open, StagesLeft, InRound
  <1>5. CASE OwnHandler
    BY <1>5, StageOver DEF OwnHandler, StagesLeft, InRound
  <1>6. CASE RecordSelf
    BY <1>6, StageOver DEF RecordSelf, StagesLeft, InRound
  <1>7. CASE SelfFails
    BY <1>7, StageOver DEF SelfFails, StagesLeft, InRound
  <1> QED
    BY <1>1, <1>2, <1>3, <1>4, <1>5, <1>6, <1>7 DEF Collect

LEMMA UpdateGoesDown ==
    ASSUME FiniteConditions, IInv, Update PROVE Below(left', left)
  <1> USE DEF InRound
  <1>0. ASSUME phase \in InRound \cup {"round"}, phase' \in InRound \cup {"round"},
               UNCHANGED rounds
        PROVE  /\ StagesLeft' = StagesLeft /\ TurnsLeft' = TurnsLeft
               /\ VisitsLeft' < VisitsLeft => Below(left', left)
               /\ VisitsLeft' = VisitsLeft /\ TestsLeft' < TestsLeft => Below(left', left)
    <2>1. StagesLeft' = StagesLeft
      BY <1>0 DEF StagesLeft
    <2>2. TurnsLeft' = TurnsLeft
      BY <1>0 DEF TurnsLeft
    <2> QED
      BY <2>1, <2>2 DEF Below, left
  <1>1. CASE StartRound
    <2>1. phase = "round" /\ phase' = "visit" /\ rounds' = rounds + 1
      BY <1>1 DEF StartRound
    <2>2. StagesLeft' = StagesLeft
      BY <2>1 DEF StagesLeft
    <2>3. TurnsLeft = MaxRounds - rounds /\ TurnsLeft' = MaxRounds - rounds'
      BY <2>1 DEF TurnsLeft
    <2>4. TurnsLeft' < TurnsLeft
      BY <2>1, <2>3, PeerDeliberationAssumption DEF IInv, TypeOK
    <2> QED
      BY <2>2, <2>4, TurnOver
  <1>2. CASE EndRounds
    BY <1>2, StageOver DEF EndRounds, StagesLeft
  <1>3. ASSUME NEW r \in Agents, Visit(r) PROVE Below(left', left)
    <2>1. /\ phase = "visit" /\ phase' = "test" /\ UNCHANGED <<rounds, rejecters>>
          /\ active' = Unfalsified(proposals[r])
      BY <1>3 DEF Visit
    <2>2. active' \in SUBSET Conditions
      BY <2>1 DEF IInv, TypeOK, Proposals, Unfalsified
    <2>3. /\ Cardinality(active') \in Nat /\ Cardinality(Conditions) \in Nat
          /\ Cardinality(active') <= Cardinality(Conditions)
      BY <2>2, Counted
    <2>4. VisitsLeft' = VisitsLeft
      BY <2>1 DEF VisitsLeft
    <2>5. TestsLeft = 2 * Cardinality(Conditions) + 1 /\ TestsLeft' = 2 * Cardinality(active')
      BY <2>1 DEF TestsLeft
    <2>6. TestsLeft' < TestsLeft
      BY <2>3, <2>5
    <2> QED
      BY <1>0, <2>1, <2>4, <2>6
  <1>4. ASSUME NEW c \in Conditions, NoEvidence(c) PROVE Below(left', left)
    <2>1. /\ phase = "test" /\ phase' = "test" /\ UNCHANGED <<rounds, rejecters>>
          /\ c \in active /\ active' = active \ {c}
      BY <1>4 DEF NoEvidence
    <2>2. Cardinality(active') = Cardinality(active) - 1 /\ Cardinality(active) \in Nat
      BY <2>1, Counted, OneLess
    <2>3. VisitsLeft' = VisitsLeft
      BY <2>1 DEF VisitsLeft
    <2>4. TestsLeft = 2 * Cardinality(active) /\ TestsLeft' = 2 * Cardinality(active')
      BY <2>1 DEF TestsLeft
    <2>5. TestsLeft' < TestsLeft
      BY <2>2, <2>4
    <2> QED
      BY <1>0, <2>1, <2>3, <2>5
  <1>5. ASSUME NEW c \in Conditions, SendFalsification(c) PROVE Below(left', left)
    <2>1. phase = "test" /\ phase' = "answer" /\ UNCHANGED <<rounds, rejecters, active>>
      BY <1>5 DEF SendFalsification
    <2>2. VisitsLeft' = VisitsLeft
      BY <2>1 DEF VisitsLeft
    <2>3. TestsLeft = 2 * Cardinality(active) /\ TestsLeft' = 2 * Cardinality(active) - 1
      BY <2>1 DEF TestsLeft
    <2>4. TestsLeft' < TestsLeft
      BY <2>3, Counted
    <2> QED
      BY <1>0, <2>1, <2>2, <2>4
  <1>6. CASE Answer
    <2>1. /\ phase = "answer" /\ phase' = "test" /\ UNCHANGED <<rounds, rejecters>>
          /\ active' = active \ {asked} /\ asked \in active
      BY <1>6 DEF Answer, IInv, VisitInv
    <2>2. Cardinality(active') = Cardinality(active) - 1 /\ Cardinality(active) \in Nat
      BY <2>1, Counted, OneLess
    <2>3. VisitsLeft' = VisitsLeft
      BY <2>1 DEF VisitsLeft
    <2>4. TestsLeft = 2 * Cardinality(active) - 1 /\ TestsLeft' = 2 * Cardinality(active')
      BY <2>1 DEF TestsLeft
    <2>5. TestsLeft' < TestsLeft
      BY <2>2, <2>4
    <2> QED
      BY <1>0, <2>1, <2>3, <2>5
  <1>7. CASE FinishVisit
    <2>1. /\ phase = "test" /\ phase' = "visit" /\ UNCHANGED rounds
          /\ rejecters' = rejecters \ {current} /\ current \in rejecters
      BY <1>7 DEF FinishVisit, IInv, VisitInv
    <2>2. Cardinality(rejecters') = Cardinality(rejecters) - 1 /\ Cardinality(rejecters) \in Nat
      BY <2>1, Counted, OneLess
    <2>3. VisitsLeft = Cardinality(rejecters) + 1 /\ VisitsLeft' = Cardinality(rejecters') + 1
      BY <2>1 DEF VisitsLeft
    <2>4. VisitsLeft' < VisitsLeft
      BY <2>2, <2>3
    <2> QED
      BY <1>0, <2>1, <2>4
  <1>8. CASE FinishRound
    <2>1. CASE phase' = "round"
      <3>1. phase = "visit" /\ UNCHANGED rounds
        BY <1>8 DEF FinishRound, looping
      <3>2. VisitsLeft = Cardinality(rejecters) + 1 /\ VisitsLeft' = 0
        BY <2>1, <3>1 DEF VisitsLeft
      <3>3. VisitsLeft' < VisitsLeft
        BY <3>2, Counted
      <3> QED
        BY <1>0, <2>1, <3>1, <3>3
    <2>2. CASE phase' = "close"
      <3>1. phase = "visit"
        BY <1>8 DEF FinishRound
      <3> QED
        BY <2>2, <3>1, StageOver DEF StagesLeft
    <2> QED
      BY <1>8, <2>1, <2>2 DEF FinishRound
  <1> QED
    BY <1>1, <1>2, <1>3, <1>4, <1>5, <1>6, <1>7, <1>8 DEF Update

LEMMA ConcludeGoesDown ==
    ASSUME FiniteConditions, IInv, Conclude PROVE Below(left', left)
  <1> USE DEF InRound
  <1>1. CASE Close
    BY <1>1, StageOver DEF Close, StagesLeft
  <1>2. CASE Settle
    BY <1>2, StageOver DEF Settle, StagesLeft
  <1>3. CASE RunRaises
    BY <1>3, StageOver DEF RunRaises, StagesLeft
  <1>4. CASE Persist
    <2>1. /\ phase = "persist" /\ phase' = "persist" /\ persisted' = persisted + 1
          /\ UNCHANGED entries
      BY <1>4 DEF Persist
    <2>2. StagesLeft' = StagesLeft
      BY <2>1 DEF StagesLeft
    <2>3. TurnsLeft = Len(entries) - persisted /\ TurnsLeft' = Len(entries) - persisted'
      BY <2>1 DEF TurnsLeft
    <2>4. Len(entries) \in Nat /\ persisted \in 0 .. Len(entries)
      BY DEF IInv, TypeOK
    <2>5. TurnsLeft' < TurnsLeft
      BY <2>1, <2>3, <2>4
    <2> QED
      BY <2>2, <2>5, TurnOver
  <1>5. CASE PersistFails
    BY <1>5, StageOver DEF PersistFails, StagesLeft
  <1>6. CASE StartGossip
    BY <1>6, StageOver DEF StartGossip, StagesLeft
  <1>7. ASSUME NEW t \in Agents, Push(t) PROVE Below(left', left)
    <2>1. phase = "gossip" /\ phase' = "gossip" /\ t \in pending /\ pending' = pending \ {t}
      BY <1>7 DEF Push
    <2>2. Cardinality(pending') < Cardinality(pending)
      BY <2>1, Counted, OneLess
    <2>3. StagesLeft' = StagesLeft
      BY <2>1 DEF StagesLeft
    <2>4. TurnsLeft = Cardinality(pending) /\ TurnsLeft' = Cardinality(pending')
      BY <2>1 DEF TurnsLeft
    <2> QED
      BY <2>2, <2>3, <2>4, TurnOver
  <1>8. CASE Return
    BY <1>8, StageOver DEF Return, StagesLeft
  <1> QED
    BY <1>1, <1>2, <1>3, <1>4, <1>5, <1>6, <1>7, <1>8 DEF Conclude

\* Also a crash ends the run.
LEMMA CrashGoesDown ==
    ASSUME IInv, Crash PROVE Below(left', left)
  BY StageOver DEF Crash, Final, IInv, TypeOK, Phases, StagesLeft, InRound

\* However peers answer, refuse or fail, whatever raises and wherever the
\* process dies, every step of a run uses up something of what it had left: a
\* stage, a turn of that stage's loop, a rejecter to visit or a condition to
\* test, in this order.  What is left are natural numbers, so a run that goes
\* on taking steps ends: none of the loops of `run` (peer_deliberation.py:
\* 148-414) can go round for ever.
THEOREM EveryStepUsesUp ==
    FiniteConditions =>
        (Spec => /\ [](left \in Nat \X Nat \X Nat \X Nat)
                 /\ [][Below(left', left)]_vars)
  <1> SUFFICES ASSUME FiniteConditions
               PROVE  Spec => /\ [](left \in Nat \X Nat \X Nat \X Nat)
                              /\ [][Below(left', left)]_vars
    OBVIOUS
  <1>1. IInv => left \in Nat \X Nat \X Nat \X Nat
    BY LeftIsNatural
  <1>2. IInv /\ [Next]_vars => [Below(left', left)]_vars
    BY CollectGoesDown, UpdateGoesDown, ConcludeGoesDown, CrashGoesDown DEF Next, Step
  <1> QED
    BY <1>1, <1>2, Invariance, PTL DEF Spec
=============================================================================
