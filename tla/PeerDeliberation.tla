-------------------------- MODULE PeerDeliberation --------------------------
(***************************************************************************)
(* peer_deliberation.py: one call of PeerDeliberation.run on one instance, *)
(* from peer discovery to the gossip of the transcript, with the process   *)
(* that executes it able to die between any two steps.                     *)
(*                                                                         *)
(* Peers are identified by their agent id (the URL -> id map is Transport).*)
(* The list orders of the code (configuration order, order of proposals    *)
(* and of dissent conditions) are abstracted to sets: each loop takes its  *)
(* elements in any order, which includes the order of the configuration.   *)
(***************************************************************************)
EXTENDS Contribution, Sequences, FiniteSets

CONSTANTS
    Self,             \* the initiator
    Conditions,       \* ids of dissent conditions
    Offers,           \* the [vote, conds] proposals the agents may make
    Funded,           \* is an ACB budget passed in the options?
    MaxParticipants,  \* budget.constraints.max_participants
    MaxRounds,        \* budget.constraints.max_rounds, 3 without a budget
    NoOne             \* no agent, no condition

ASSUME PeerDeliberationAssumption ==
    /\ Self \in Agents
    /\ IsFiniteSet(Agents)
    /\ NoOne \notin Agents \cup Conditions
    /\ Offers \subseteq [vote : Vote, conds : SUBSET Conditions]
    /\ Funded \in BOOLEAN
    /\ MaxParticipants \in Nat
    /\ MaxRounds \in Nat

VARIABLES
    phase,         \* where `run` stands
    pending,       \* calls of the current gather that have not returned
    manifests,     \* _manifests
    replies,       \* proposals received and not yet recorded
    proposals,     \* _proposals
    tallied,       \* proposals_by_agent, as the votes of the last tally
    tallies,       \* _tallies
    acks,          \* the tracker's _acknowledged
    rounds,        \* _rounds
    evidence,      \* evidence_agent of this round
    rejecters,     \* rejecters of this round still to be visited
    current,       \* the rejecter being visited
    active,        \* its active conditions still to be tested
    asked,         \* the condition whose falsification is in flight
    allFalsified,  \* all_falsified
    revised,       \* has a vote been revised in this round?
    entries,       \* _journal_entries, in memory
    persisted,     \* how many of them the store has accepted
    journal,       \* the entries of this deliberation in the store
    delivered,     \* peers that accepted the pushed transcript
    settlement     \* the contributions of settlement_entry

collecting == <<pending, manifests, replies>>
deciding   == <<proposals, tallied, tallies, acks>>
visit      == <<current, active, asked, allFalsified>>
looping    == <<rounds, evidence, rejecters, revised, visit>>
output     == <<persisted, journal, delivered, settlement>>
vars       == <<phase, collecting, deciding, looping, entries, output>>

Peers == Agents \ {Self}

Final == {"done", "failed", "crashed"}
-----------------------------------------------------------------------------
\* Proposals.  Every revision the code makes is to `abstain`.
NoProposal == [vote |-> "none", conds |-> {}, falsified |-> {}, revisions |-> 0]

\* As _proposal_from_dict reads it: no revisions, and every condition active,
\* which is how the agents of this runtime send them.
Submitted(offer) ==
    [vote |-> offer.vote, conds |-> offer.conds, falsified |-> {}, revisions |-> 0]

\* (mutant)
CurrentVoteFlipped(p) == IF p.revisions > 0 THEN "approve" ELSE p.vote

CurrentVote(p) == IF p.revisions > 0 THEN "abstain" ELSE p.vote

Recorded(ps) == {a \in Agents : ps[a].vote # "none"}

Ballots(ps) == [a \in Recorded(ps) |-> CurrentVote(ps[a])]

\* (mutant)
EveryCondition(p) == p.conds

Unfalsified(p) == p.conds \ p.falsified

MarkFalsified(ps, a, c) ==
    [ps EXCEPT ![a] = [vote |-> @.vote, conds |-> @.conds,
                       falsified |-> @.falsified \cup {c}, revisions |-> @.revisions]]

ReviseToAbstain(ps, a) ==
    [ps EXCEPT ![a] = [vote |-> @.vote, conds |-> @.conds,
                       falsified |-> @.falsified, revisions |-> @.revisions + 1]]

NoSettlement == [a \in {} |-> 0]

\* Journal entries.
Opened ==
    [type |-> "deliberation_opened", participants |-> manifests \cup {Self},
     maxRounds |-> 3]

Emitted(a, p) ==
    [type |-> "proposal_emitted", agent |-> a, vote |-> p.vote, conds |-> p.conds]

RoundEvent(kind, agent, target, condition) ==
    [type |-> "round_event", round |-> rounds, kind |-> kind, agent |-> agent,
     target |-> target, condition |-> condition]

\* (mutant)
ClosedOnFirstTally(status) ==
    [type |-> "deliberation_closed", status |-> status, rounds |-> rounds,
     tally |-> tallies[1], voters |-> Recorded(proposals)]

Closed(status) ==
    [type |-> "deliberation_closed", status |-> status, rounds |-> rounds,
     tally |-> tallies[Len(tallies)], voters |-> Recorded(proposals)]

Log(entry) == entries' = Append(entries, entry)

ResponseKind(action) ==
    IF action \in {"acknowledge", "reject", "amend"} THEN action ELSE "reject"

\* (mutant)
RespondsIfItWants(a) ==
    IF a = Self THEN {}
    ELSE {"acknowledge", "reject", "amend", "unknown", "error"}

\* What agent a's endpoint may answer; this runtime's own is a 501.
Responses(a) ==
    IF a = Self THEN {"error"}
    ELSE {"acknowledge", "reject", "amend", "unknown", "error"}
-----------------------------------------------------------------------------
Init ==
    /\ phase = "discover"
    /\ pending = Peers
    /\ manifests = {}
    /\ replies = [a \in Agents |-> NoProposal]
    /\ proposals = [a \in Agents |-> NoProposal]
    /\ tallied = [a \in {} |-> "abstain"]
    /\ tallies = <<>>
    /\ acks = [a \in Agents |-> 0]
    /\ rounds = 0
    /\ evidence = NoOne
    /\ rejecters = {}
    /\ current = NoOne
    /\ active = {}
    /\ asked = NoOne
    /\ allFalsified = FALSE
    /\ revised = FALSE
    /\ entries = <<>>
    /\ persisted = 0
    /\ journal = <<>>
    /\ delivered = {}
    /\ settlement = NoSettlement

\* _discover(p) returns: the manifest, or any exception and p is dropped.
Discover(p) ==
    /\ phase = "discover"
    /\ p \in pending
    /\ pending' = pending \ {p}
    /\ manifests' \in {manifests, manifests \cup {p}}
    /\ UNCHANGED <<phase, replies, deciding, looping, entries, output>>

OverBudget == Funded /\ Cardinality(manifests) + 1 > MaxParticipants

\* The discovery gather is over: open, unless the budget does not allow it.
Open ==
    /\ phase = "discover"
    /\ pending = {}
    /\ IF OverBudget
         THEN phase' = "failed" /\ UNCHANGED <<pending, entries>>
         ELSE phase' = "collect" /\ pending' = manifests /\ Log(Opened)
    /\ UNCHANGED <<manifests, replies, deciding, looping, output>>

\* _request_one(p) returns a proposal, or any exception and p is dropped.
Request(p) ==
    /\ phase = "collect"
    /\ p \in pending
    /\ pending' = pending \ {p}
    /\ \/ \E offer \in Offers : replies' = [replies EXCEPT ![p] = Submitted(offer)]
       \/ UNCHANGED replies
    /\ UNCHANGED <<phase, manifests, deciding, looping, entries, output>>

\* One turn of the loop over the results of the proposal gather.
Record(p) ==
    /\ phase = "collect"
    /\ pending = {}
    /\ replies[p].vote # "none"
    /\ proposals' = [proposals EXCEPT ![p] = replies[p]]
    /\ replies' = [replies EXCEPT ![p] = NoProposal]
    /\ Log(Emitted(p, replies[p]))
    /\ UNCHANGED <<phase, pending, manifests, tallied, tallies, acks, looping, output>>

PeersRecorded == pending = {} /\ Recorded(replies) = {}

\* The run posts to its own /api/propose, and its own handler, in the same
\* process and on the same store, journals the proposal before answering.
OwnHandler ==
    /\ phase = "collect"
    /\ PeersRecorded
    /\ \E offer \in Offers :
          /\ replies' = [replies EXCEPT ![Self] = Submitted(offer)]
          /\ journal' = Append(journal, Emitted(Self, Submitted(offer)))
    /\ phase' = "self"
    /\ UNCHANGED <<pending, manifests, deciding, looping, entries, persisted,
                   delivered, settlement>>

\* The round-0 tally follows the initiator's own proposal.
RecordSelf ==
    /\ phase = "self"
    /\ proposals' = [proposals EXCEPT ![Self] = replies[Self]]
    /\ replies' = [replies EXCEPT ![Self] = NoProposal]
    /\ Log(Emitted(Self, replies[Self]))
    /\ tallied' = Ballots(proposals')
    /\ tallies' = <<Tally(tallied')>>
    /\ phase' = "round"
    /\ UNCHANGED <<pending, manifests, acks, looping, output>>

\* The call to the own endpoint is not wrapped: an error or a timeout, before
\* or after the handler has journaled, ends the run.
SelfFails ==
    /\ \/ phase = "collect" /\ PeersRecorded
       \/ phase = "self"
    /\ phase' = "failed"
    /\ UNCHANGED <<collecting, deciding, looping, entries, output>>

-----------------------------------------------------------------------------
\* (mutant)
FirstTally == tallies[1]

LastTally == tallies[Len(tallies)]

\* (mutant)
EvidenceFromAnyone(approvers) ==
    {a \in Recorded(proposals) : \A b \in Recorded(proposals) : Weight[a] >= Weight[b]}

\* max(approvers, key=weight), any heaviest one, or None.
EvidenceAgents(approvers) ==
    IF approvers = {} THEN {NoOne}
    ELSE {a \in approvers : \A b \in approvers : Weight[a] >= Weight[b]}

\* Top of the round loop, when it goes round once more.
StartRound ==
    /\ phase = "round"
    /\ rounds < MaxRounds
    /\ ~LastTally.converged
    /\ rounds' = rounds + 1
    /\ revised' = FALSE
    /\ rejecters' = Voters(Ballots(proposals), "reject")
    /\ evidence' \in EvidenceAgents(Voters(Ballots(proposals), "approve"))
    /\ phase' = "visit"
    /\ UNCHANGED <<collecting, deciding, visit, entries, output>>

\* Top of the round loop, when it is over.
EndRounds ==
    /\ phase = "round"
    /\ rounds >= MaxRounds \/ LastTally.converged
    /\ phase' = "close"
    /\ UNCHANGED <<collecting, deciding, looping, entries, output>>

Visit(r) ==
    /\ phase = "visit"
    /\ r \in rejecters
    /\ current' = r
    /\ active' = Unfalsified(proposals[r])
    /\ allFalsified' = (active' # {})
    /\ phase' = "test"
    /\ UNCHANGED <<collecting, deciding, rounds, evidence, rejecters, revised,
                   asked, entries, output>>

\* Nobody approves, so nobody brings evidence against the condition.
NoEvidence(c) ==
    /\ phase = "test"
    /\ c \in active
    /\ evidence = NoOne
    /\ allFalsified' = FALSE
    /\ active' = active \ {c}
    /\ UNCHANGED <<phase, collecting, deciding, rounds, evidence, rejecters,
                   revised, current, asked, entries, output>>

SendFalsification(c) ==
    /\ phase = "test"
    /\ c \in active
    /\ evidence # NoOne
    /\ asked' = c
    /\ Log(RoundEvent("falsification_evidence", evidence, current, c))
    /\ phase' = "answer"
    /\ UNCHANGED <<collecting, deciding, rounds, evidence, rejecters, revised,
                   current, active, allFalsified, output>>

Acknowledged ==
    /\ proposals' = MarkFalsified(proposals, current, asked)
    /\ acks' = RecordAcknowledgement(acks, evidence)
    /\ UNCHANGED allFalsified

\* (mutant)
RefusedWithoutReset == UNCHANGED <<allFalsified, proposals, acks>>

Refused ==
    /\ allFalsified' = FALSE
    /\ UNCHANGED <<proposals, acks>>

\* The rejecter's answer, or what the transport makes of its absence.
Answer ==
    /\ phase = "answer"
    /\ \E action \in Responses(current) :
          /\ Log(RoundEvent(ResponseKind(action), current, NoOne, asked))
          /\ IF action = "acknowledge" THEN Acknowledged ELSE Refused
    /\ active' = active \ {asked}
    /\ asked' = NoOne
    /\ phase' = "test"
    /\ UNCHANGED <<collecting, tallied, tallies, rounds, evidence, rejecters,
                   revised, current, output>>

\* All its conditions are tested; if each was falsified in this visit the
\* rejecter's vote is revised on its behalf.
FinishVisit ==
    /\ phase = "test"
    /\ active = {}
    /\ IF allFalsified
         THEN /\ proposals' = ReviseToAbstain(proposals, current)
              /\ revised' = TRUE
              /\ Log(RoundEvent("revise", current, NoOne, NoOne))
         ELSE UNCHANGED <<proposals, revised, entries>>
    /\ rejecters' = rejecters \ {current}
    /\ current' = NoOne
    /\ allFalsified' = FALSE
    /\ phase' = "visit"
    /\ UNCHANGED <<collecting, tallied, tallies, acks, rounds, evidence, active,
                   asked, output>>

TallyAgain ==
    /\ tallied' = Ballots(proposals)
    /\ tallies' = Append(tallies, Tally(tallied'))

\* (mutant)
FinishRoundAlwaysAgain ==
    /\ phase = "visit"
    /\ rejecters = {}
    /\ TallyAgain
    /\ phase' = "round"
    /\ UNCHANGED <<collecting, proposals, acks, looping, entries, output>>

\* A round that changed no vote ends the loop; otherwise the votes are
\* tallied again.
FinishRound ==
    /\ phase = "visit"
    /\ rejecters = {}
    /\ IF revised
         THEN TallyAgain /\ phase' = "round"
         ELSE phase' = "close" /\ UNCHANGED <<tallied, tallies>>
    /\ UNCHANGED <<collecting, proposals, acks, looping, entries, output>>
-----------------------------------------------------------------------------
\* The adopter's has_reversible_subset may answer anything.
Close ==
    /\ phase = "close"
    /\ \E reversibleSubset \in BOOLEAN :
          Log(Closed(Termination(LastTally, reversibleSubset)))
    /\ phase' = "settle"
    /\ UNCHANGED <<collecting, deciding, looping, output>>

\* ACB settlement: the draw itself is acb_manifest's.
Settle ==
    /\ phase = "settle"
    /\ settlement' =
         IF Funded
           THEN Build(Recorded(proposals), acks,
                      LoadBearingAgents(LastTally, Ballots(proposals)))
           ELSE NoSettlement
    /\ phase' = "persist"
    /\ UNCHANGED <<collecting, deciding, looping, entries, persisted, journal,
                   delivered>>

\* The run raises: a rejecter that was not discovered under its id has no URL,
\* the action of a peer's answer cannot be a key of the dictionary, or the
\* adopter's callback or the pricing of the budget raises.
RunRaises ==
    /\ \/ phase = "answer" /\ current # Self
       \/ phase = "close"
       \/ phase = "settle" /\ Funded
    /\ phase' = "failed"
    /\ UNCHANGED <<collecting, deciding, looping, entries, output>>

\* One journal.append of the persist loop.
Persist ==
    /\ phase = "persist"
    /\ persisted < Len(entries)
    /\ persisted' = persisted + 1
    /\ journal' = Append(journal, entries[persisted + 1])
    /\ UNCHANGED <<phase, collecting, deciding, looping, entries, delivered,
                   settlement>>

\* journal.append raises (disk full, a deliberation id the store refuses).
PersistFails ==
    /\ phase = "persist"
    /\ persisted < Len(entries)
    /\ phase' = "failed"
    /\ UNCHANGED <<collecting, deciding, looping, entries, output>>

\* (mutant)
StartGossipEarly ==
    /\ phase = "persist"
    /\ pending' = Agents
    /\ phase' = "gossip"
    /\ UNCHANGED <<manifests, replies, deciding, looping, entries, output>>

\* The transcript goes to every configured peer, also to those that were
\* never discovered, and to the run's own endpoint.
StartGossip ==
    /\ phase = "persist"
    /\ persisted = Len(entries)
    /\ pending' = Agents
    /\ phase' = "gossip"
    /\ UNCHANGED <<manifests, replies, deciding, looping, entries, output>>

\* One push returns.  It never raises; a peer's runtime may take the entries,
\* this runtime's own journal endpoint has no POST and answers 405.
Push(t) ==
    /\ phase = "gossip"
    /\ t \in pending
    /\ pending' = pending \ {t}
    /\ \/ UNCHANGED delivered
       \/ t # Self /\ delivered' = delivered \cup {t}
    /\ UNCHANGED <<phase, manifests, replies, deciding, looping, entries,
                   persisted, journal, settlement>>

Return ==
    /\ phase = "gossip"
    /\ pending = {}
    /\ phase' = "done"
    /\ UNCHANGED <<collecting, deciding, looping, entries, output>>

\* The process dies.  Only `journal` and what was delivered outlive it: the
\* other variables keep what the run had reached, for nobody to read.
Crash ==
    /\ phase \notin Final
    /\ phase' = "crashed"
    /\ UNCHANGED <<collecting, deciding, looping, entries, output>>
-----------------------------------------------------------------------------
Collect == (\E p \in Peers : Discover(p) \/ Request(p) \/ Record(p))
           \/ Open \/ OwnHandler \/ RecordSelf \/ SelfFails

Update == StartRound \/ EndRounds \/ (\E r \in Agents : Visit(r))
          \/ (\E c \in Conditions : NoEvidence(c) \/ SendFalsification(c))
          \/ Answer \/ FinishVisit \/ FinishRound

Conclude == Close \/ Settle \/ RunRaises \/ Persist \/ PersistFails
            \/ StartGossip \/ (\E t \in Agents : Push(t)) \/ Return

Step == Collect \/ Update \/ Conclude

Next == Step \/ Crash

Spec == Init /\ [][Next]_vars

\* Every await of the run is an HTTP call with a timeout and every loop step
\* runs to the next await, so the run always takes another step.
FairSpec == Spec /\ WF_vars(Step)
=============================================================================
