------------------------ MODULE PeerDeliberationProps ------------------------
(***************************************************************************)
(* What a run of PeerDeliberation must and must not do.                    *)
(***************************************************************************)
EXTENDS PeerDeliberation

Kinds == {"falsification_evidence", "acknowledge", "reject", "amend", "revise"}

Proposals ==
    [vote : Vote \cup {"none"}, conds : SUBSET Conditions,
     falsified : SUBSET Conditions, revisions : Nat]

Tallies == {Tally(box) : box \in BallotBox}

Entries ==
    [type : {"deliberation_opened"}, participants : SUBSET Agents, maxRounds : Nat]
    \cup [type : {"proposal_emitted"}, agent : Agents, vote : Vote \cup {"none"},
          conds : SUBSET Conditions]
    \cup [type : {"round_event"}, round : Nat, kind : Kinds,
          agent : Agents \cup {NoOne}, target : Agents \cup {NoOne},
          condition : Conditions \cup {NoOne}]
    \cup [type : {"deliberation_closed"}, status : Status, rounds : Nat,
          tally : Tallies, voters : SUBSET Agents]

Phases == {"discover", "collect", "self", "round", "visit", "test", "answer",
           "close", "settle", "persist", "gossip"} \cup Final

\* Every variable holds a value of its kind; each tally kept is the tally of
\* some ballot box (the state of PeerDeliberation.run, peer_deliberation.py).
TypeOK ==
    /\ phase \in Phases
    /\ pending \subseteq Agents
    /\ manifests \subseteq Peers
    /\ replies \in [Agents -> Proposals]
    /\ proposals \in [Agents -> Proposals]
    /\ tallied \in BallotBox
    /\ tallies \in Seq(Tallies)
    /\ acks \in [Agents -> Nat]
    /\ rounds \in Nat
    /\ evidence \in Agents \cup {NoOne}
    /\ rejecters \subseteq Agents
    /\ current \in Agents \cup {NoOne}
    /\ active \subseteq Conditions
    /\ asked \in Conditions \cup {NoOne}
    /\ allFalsified \in BOOLEAN
    /\ revised \in BOOLEAN
    /\ entries \in Seq(Entries)
    /\ persisted \in 0 .. Len(entries)
    /\ journal \in Seq(Entries)
    /\ delivered \subseteq Peers
    /\ DOMAIN settlement \subseteq Agents
-----------------------------------------------------------------------------
\* Nobody's vote is withdrawn without cause: a revised vote was a reject with
\* at least one dissent condition, all its conditions were falsified, and it
\* was revised exactly once, over all the rounds (the all_falsified flag and
\* the snapshot of active conditions, peer_deliberation.py:285-329).
JustifiedRevisions ==
    \A a \in Agents : proposals[a].revisions > 0 =>
        /\ proposals[a].vote = "reject"
        /\ proposals[a].conds # {}
        /\ proposals[a].falsified = proposals[a].conds
        /\ proposals[a].revisions = 1

\* While no round is changing votes, the last tally is the tally of the votes
\* as they stand; so the termination is never decided on stale votes (the
\* re-tally after each round that revised, peer_deliberation.py:331-336).
FinalTallyFresh ==
    phase \in {"round", "close", "settle", "persist", "gossip", "done"} =>
        /\ tallied = Ballots(proposals)
        /\ LastTally = Tally(Ballots(proposals))

IsEvent(e, kind) == e.type = "round_event" /\ e.kind = kind

IsAnswer(e) == \E kind \in {"acknowledge", "reject", "amend"} : IsEvent(e, kind)

\* The transcript interleaves no two falsifications: each answer directly
\* follows the evidence it answers, from the agent and on the condition the
\* evidence was aimed at, in the same round, and the evidence comes from an
\* agent that approves (peer_deliberation.py:289-322).
EveryAnswerIsAsked ==
    \A i \in 1 .. Len(entries) : IsAnswer(entries[i]) =>
        /\ i > 1
        /\ LET e == entries[i - 1]
           IN  /\ IsEvent(e, "falsification_evidence")
               /\ e.target = entries[i].agent
               /\ e.condition = entries[i].condition
               /\ e.round = entries[i].round
               /\ proposals[e.agent].vote = "approve"

\* A condition is tested at most once a round, and never again once its
\* holder has acknowledged the evidence (only ACTIVE conditions are tested,
\* peer_deliberation.py:286, across all the rounds of the run).
NeverRetested ==
    \A i, j \in 1 .. Len(entries) :
        (/\ i < j
         /\ IsEvent(entries[i], "falsification_evidence")
         /\ IsEvent(entries[j], "falsification_evidence")
         /\ entries[i].target = entries[j].target
         /\ entries[i].condition = entries[j].condition)
        => /\ entries[i].round < entries[j].round
           /\ ~IsEvent(entries[i + 1], "acknowledge")

\* Every round but the last one moved somebody's vote, so rounds cannot go on
\* longer than there are rejecters to move (`if not revised: break`,
\* peer_deliberation.py:331-332).
EveryRoundMoves ==
    rounds <= Cardinality({a \in Agents : proposals[a].revisions > 0}) + 1

\* The tracker credits an agent with exactly the acknowledgements that follow
\* evidence of its own in the transcript (contribution.py:45-55 against the
\* round events, peer_deliberation.py:294-320).
CreditMatchesTranscript ==
    \A a \in Agents :
        acks[a] = Cardinality({i \in 2 .. Len(entries) :
                                  /\ IsEvent(entries[i], "acknowledge")
                                  /\ entries[i - 1].agent = a})
-----------------------------------------------------------------------------
\* The ballots a reader of the log finds, from the proposals and the revise
\* events alone.
ReplayedBallots(log) ==
    LET emitted == {i \in 1 .. Len(log) : log[i].type = "proposal_emitted"}
    IN  [a \in {log[i].agent : i \in emitted} |->
            IF \E j \in 1 .. Len(log) : IsEvent(log[j], "revise") /\ log[j].agent = a
              THEN "abstain"
              ELSE log[CHOOSE i \in emitted : log[i].agent = a].vote]

Decided(log) == log # <<>> /\ log[Len(log)].type = "deliberation_closed"

\* A store that holds the closing entry explains it: replaying the stored
\* proposals and revisions gives the recorded tally, voters and outcome, and
\* the rounds of its events are those the closing entry counts.  This is so
\* although the store also holds the initiator's proposal a second time, from
\* its own handler (deliberation.py:119-135, peer_deliberation.py:243-255),
\* and although the process may have died anywhere in between.
JournalExplainsDecision ==
    Decided(journal) =>
        LET closed == journal[Len(journal)]
            box    == ReplayedBallots(journal)
        IN  /\ closed.voters = DOMAIN box
            /\ closed.tally = Tally(box)
            /\ \E reversibleSubset \in BOOLEAN :
                   closed.status = Termination(Tally(box), reversibleSubset)
            /\ \A i \in 1 .. Len(journal) :
                   journal[i].type = "round_event" => journal[i].round <= closed.rounds
            /\ \E i \in 1 .. Len(journal) : journal[i].type = "deliberation_opened"

\* The transcript leaves the process only when the local store has all of it:
\* a peer never knows of a decision the initiator can forget in a crash
\* (persist before gossip, peer_deliberation.py:404-414).
GossipIsDurable ==
    delivered # {} => /\ persisted = Len(entries)
                      /\ Decided(journal)

\* A settlement pays the agents that proposed, marks those without which the
\* approval of the final ballots would fall below the threshold when tallied
\* again, and credits as many acknowledgements as conditions were falsified
\* (contribution.py:61-117 against adp_manifest's tally).
SettlementIsEarned ==
    settlement # NoSettlement =>
        /\ DOMAIN settlement = Recorded(proposals)
        /\ {a \in DOMAIN settlement : settlement[a].loadBearing}
               = CounterfactualApprovers(Ballots(proposals))
        /\ SumFunction([a \in DOMAIN settlement |-> settlement[a].acknowledged])
               = SumFunction([a \in Agents |-> Cardinality(proposals[a].falsified)])

\* A step changes the vote of at most one agent whose proposal is recorded,
\* and only from reject to abstain; no recorded proposal is lost.
VotesOnlySoften ==
    [][/\ Recorded(proposals) \subseteq Recorded(proposals')
       /\ \A a \in Recorded(proposals) :
             CurrentVote(proposals'[a]) # CurrentVote(proposals[a]) =>
                 /\ CurrentVote(proposals[a]) = "reject"
                 /\ CurrentVote(proposals'[a]) = "abstain"
                 /\ \A b \in Agents \ {a} : proposals'[b] = proposals[b]]_vars

\* Whatever the peers do, the run ends.
Terminates == <>(phase \in Final)
-----------------------------------------------------------------------------
\* The run as a Deliberation: the ballots are those of the last tally, and
\* the decision is taken when its closing entry is in the store.
Stage ==
    IF Decided(journal) THEN "decided"
    ELSE IF phase \in {"failed", "crashed"} THEN "aborted"
    ELSE IF tallies = <<>> THEN "collecting"
    ELSE "deliberating"

ConvergedBy(box) == Tally(box).converged

OutcomesOf(box) == {Termination(Tally(box), subset) : subset \in BOOLEAN}

Abstract == INSTANCE Deliberation WITH
    Converged <- ConvergedBy,
    Outcomes  <- OutcomesOf,
    stage   <- Stage,
    ballots <- tallied,
    moves   <- IF tallies = <<>> THEN 0 ELSE Len(tallies) - 1,
    outcome <- IF Decided(journal) THEN journal[Len(journal)].status ELSE "none"

\* PeerDeliberation implements Deliberation.
ImplementsDeliberation == Abstract!Spec
-----------------------------------------------------------------------------
\* peer_deliberation.py:214-215: "the deliberation continues with whoever
\* produced a valid proposal (participation_floor enforces quorum
\* downstream)".  A quorum of the opened participants, by weight.
QuorumEnforced ==
    \A i \in 1 .. Len(entries) :
        (/\ entries[i].type = "deliberation_closed"
         /\ entries[i].status = "converged")
        => 2 * WeightOf(entries[i].voters) >= WeightOf(entries[1].participants)
=============================================================================
