----------------------------- MODULE Calibration -----------------------------
(***************************************************************************)
(* What an agent is scored on: the proposals its journal holds, the        *)
(* outcomes reported for their deliberations, and the two readings of both *)
(* that go into a signed snapshot (snapshot.py): the sample behind the     *)
(* calibration value, with the times from which the value decays, and the  *)
(* journal hash, which has no times.                                       *)
(*                                                                         *)
(* Proposals come from the agent's handler (deliberation.py) and, in the   *)
(* deliberations it initiates, once more from the end of run()             *)
(* (peer_deliberation.py).  Of an entry only what the readings use is      *)
(* kept, and of the order of entries only that of the outcomes of one      *)
(* deliberation.  Snapshots are built without an await, that is in one     *)
(* step.  The hash is taken to have no collisions.                         *)
(***************************************************************************)
EXTENDS JournalQueries

CONSTANTS
    Own, Foreign,   \* deliberations: those the agent initiates, and others'
    Self, Peers,
    DomainOf,       \* the domain of each agent: its first decision class, or
                    \* the first domain of a peer's manifest
    Domains,
    Successes,      \* what reports say
    Decimals,       \* of each, the first four, which the hash shows
    Times,          \* timestamps; the clock may be set back
    MaxReports,     \* bound: reports on all deliberations
    None

Deliberations == Own \cup Foreign

Agents == {Self} \cup Peers

ASSUME CalibrationAssumption ==
    /\ Own \cap Foreign = {}
    /\ Self \notin Peers
    /\ DomainOf \in [Agents -> Domains]
    /\ Times \subseteq Nat
    /\ MaxReports \in Nat
    /\ DOMAIN Decimals = Successes

\* A proposal is known by its id; each is made for one deliberation and domain.
Proposal == [deliberation : Deliberations, agent : Agents, domain : Domains]

Outcome == [success : Successes, timestamp : Times]

VARIABLES
    backend,   \* journal_backend: "jsonl" or "sqlite"
    emitted,   \* the proposals entered by the agent's handler
    copied,    \* the proposals entered by run()
    reports,   \* the outcomes of each deliberation, in the order of the store
    kept       \* a snapshot and its domain that a reader has kept

journal == <<emitted, copied, reports>>
vars == <<backend, journal, kept>>

Init ==
    /\ backend \in {"jsonl", "sqlite"}
    /\ emitted = {}
    /\ copied = {}
    /\ reports = [d \in Deliberations |-> <<>>]
    /\ kept = None
-----------------------------------------------------------------------------
\* Reading.

\* get_deliberation of either store: the rows by time, or the index as it is.
Stored(b, outcomes) == IF b = "sqlite" THEN Sorted(outcomes) ELSE outcomes

\* The outcome of get_calibration, which each store finds in its own way.
Scored(b, outcomes) == IF b = "sqlite" THEN Scanned(Sorted(outcomes)) ELSE Latest(outcomes)

\* The entries with a proposal.  Calibration is at stake in all of them.
Entries(p) == (IF p \in emitted THEN 1 ELSE 0) + (IF p \in copied THEN 1 ELSE 0)

Held(domain) == {p \in emitted \cup copied : p.domain = domain}

SuccessIn(outcome) == {o.success : o \in outcome}

Shown(successes) == {Decimals[s] : s \in successes}

\* get_calibration: how often each proposal of the agent is scored, and against
\* what outcome: the pair has its value and its time (observed_at, which
\* record_outcome makes the same as the entry's).
Sample(b, outcomes, agent, domain) ==
    LET scored(p) == Scored(b, outcomes[p.deliberation])
    IN  [p \in {q \in Held(domain) : q.agent = agent /\ scored(q) # {}} |->
            [times |-> Entries(p), outcome |-> scored(p)]]

\* (mutant)
HashedFromLast(outcomes) == LastAt(outcomes, 1 .. Len(outcomes))

Hashed(outcomes) == Latest(outcomes)

\* _compute_journal_hash: a line for every entry with a proposal, of whichever
\* agent, with "-" for no outcome.
JournalHash(b, outcomes, domain) ==
    [p \in Held(domain) |->
        [times   |-> Entries(p),
         success |-> Shown(SuccessIn(Hashed(Stored(b, outcomes[p.deliberation]))))]]

\* build_snapshot at a store b that holds the proposals and these outcomes.
Snapshot(b, outcomes, domain) ==
    [domain |-> domain,
     hash   |-> JournalHash(b, outcomes, domain),
     sample |-> Sample(b, outcomes, Self, domain)]
-----------------------------------------------------------------------------
\* Writing.

\* POST /api/propose: run_proposal appends the agent's own proposal, for the
\* class its caller names or for its first one.
Propose(d, domain) ==
    LET p == [deliberation |-> d, agent |-> Self, domain |-> domain]
    IN  /\ p \notin emitted
        /\ emitted' = emitted \cup {p}
        /\ UNCHANGED <<backend, copied, reports, kept>>

\* What an agent proposes in a deliberation of Self's.
InRun(d, a) == [deliberation |-> d, agent |-> a, domain |-> DomainOf[a]]

\* run() enters the proposals of the peers that answered and then its own,
\* which it got from its own handler; it may die on the way.
Persist(d, answered) ==
    /\ d \in Own
    /\ InRun(d, Self) \in emitted
    /\ \A a \in Agents : InRun(d, a) \notin copied
    /\ copied' = copied \cup {InRun(d, a) : a \in answered}
    /\ UNCHANGED <<backend, emitted, reports, kept>>

\* POST /api/record-outcome: for any deliberation, and more than once.
RecordOutcome(d, o) ==
    /\ ReduceSet(LAMBDA e, n : n + Len(reports[e]), Deliberations, 0) < MaxReports
    /\ reports' = [reports EXCEPT ![d] = Append(@, o)]
    /\ UNCHANGED <<backend, emitted, copied, kept>>

\* The process starts again: the index of the JSONL store is rebuilt by time.
Restart ==
    /\ backend = "jsonl"
    /\ reports' = [d \in Deliberations |-> Sorted(reports[d])]
    /\ UNCHANGED <<backend, emitted, copied, kept>>

\* GET /.well-known/adp-calibration.json, by a reader that keeps the answer.
Publish(domain) ==
    /\ kept = None
    /\ kept' = Snapshot(backend, reports, domain)
    /\ UNCHANGED <<backend, journal>>

Next ==
    \/ \E d \in Deliberations, domain \in Domains : Propose(d, domain)
    \/ \E d \in Deliberations, answered \in SUBSET Agents : Persist(d, answered)
    \/ \E d \in Deliberations, o \in Outcome : RecordOutcome(d, o)
    \/ Restart
    \/ \E domain \in Domains : Publish(domain)

Spec == Init /\ [][Next]_vars
-----------------------------------------------------------------------------
\* What a hash can tell of a sample: the successes to four decimals, no times.
Rounded(sample) ==
    [p \in DOMAIN sample |-> [times   |-> sample[p].times,
                              success |-> Shown(SuccessIn(sample[p].outcome))]]

\* What the hash fixes of the sample behind the value: a reader that finds the
\* hash it kept unchanged finds the same proposals, as often, scored against the
\* same successes to four decimals, although the two are read by separate
\* queries, and although outcomes are corrected, come late or with equal times,
\* and the store starts again in between (snapshot.py, build_snapshot and
\* _compute_journal_hash).  It does not fix the times of the outcomes, from which
\* the value decays: one more report of the same success changes the sample and
\* leaves the hash.
HashFixesScores ==
    kept # None =>
        LET now == Snapshot(backend, reports, kept.domain)
        IN  now.hash = kept.hash => Rounded(now.sample) = Rounded(kept.sample)

\* A peer that replays the journal, whose entries it is given by time, gets the
\* same hash and the same sample, times included, in either store (snapshot.py:
\* "A peer replaying the same journal must get the same value and hash").
ReplayAgrees ==
    LET served == [d \in Deliberations |-> Sorted(reports[d])]
    IN  \A domain \in Domains :
            LET here == Snapshot(backend, reports, domain)
            IN  \A b \in {"jsonl", "sqlite"} : Snapshot(b, served, domain) = here
=============================================================================
