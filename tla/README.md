# adp-agent-python in TLA+

TLA+ models of the ADP agent runtime in `src/packages/adp-agent` and of its
journal-anchoring companion in `src/packages/adp-agent-anchor`, checked with TLC
on small instances and, for the core, proved with TLAPS for every instance.
Paths below are relative to `src/`; `AG` stands for
`packages/adp-agent/src/adp_agent` and `AN` for
`packages/adp-agent-anchor/src/adp_agent_anchor`.

## The system

One agent is one process with one asyncio event loop. It serves HTTP (manifest,
journal, proposals, outcomes, budgets), keeps a journal of signed deliberation
entries on disk, can *initiate* a deliberation with other agents over HTTP, and
can publish signed calibration snapshots to an anchoring store on a timer.

| Component | State it keeps | Operations | Correct when |
| --- | --- | --- | --- |
| `PeerDeliberation` (`AG/peer_deliberation.py`) | manifests, weights, proposals, tallies, round counter, in-memory transcript | `run`: discovery, proposals, tally, belief-update rounds, close, settlement, persist, gossip | no vote is withdrawn without cause; the outcome follows from the last votes; the transcript explains the outcome; what peers learn, the initiator remembers; it always ends |
| `ContributionTracker` (`AG/contribution.py`) | who proposed, acknowledgements per agent, flags | `record_*`, `build`, `compute_load_bearing_agents` | credits agree with the transcript; load-bearing marks agree with a re-tally |
| Orchestrator, weighting, ACB pricing (`adp_manifest`, `acb_manifest`) | none | `tally`, `determine_termination`, `compute_weight`, ... | external; modelled as far as the caller depends on it |
| `HttpTransport` (`AG/transport.py`) | URL to agent-id map | six calls, each with a timeout; failures of `send_falsification`, `fetch_calibration` and `push_journal_entries` become values | every call ends; the right token goes to the right peer |
| `RuntimeDeliberation` (`AG/deliberation.py`) | none of its own | `run_proposal`, `record_outcome` | what is answered is journaled first; calibration counts each outcome once |
| Journal stores (`AG/journal/`) | JSONL: one file per deliberation and an in-memory index; SQLite: one table | `append`, `append_batch`, `get_*`, `list_*`, rebuild at start-up | an acknowledged append survives; a restart changes no answer |
| `AnchorScheduler` (`AN/scheduler.py`) | task, stop event, history of 128 results | `start`, `stop`, the loop, `publish_now`, `get_status` | at most one loop; stop drains; a failing domain does not keep the others from their turn |
| Anchor stores (`AN/mock.py`, `AN/neo3.py`, `AN/factory.py`) | mock: last snapshot per agent and domain | `publish`, `get_latest` | the latest published snapshot wins |
| `AgentHost` (`AG/host.py`) | server task, `_started`, hooks | `start`, `run`, `stop` | start returns iff listening; stop closes the journal after the server |
| Middleware (`AG/middleware.py`) | request counts per client and window | auth, fixed-window rate limit | only token holders write; at most N per window |
| Routes (`AG/routing.py`) | none | 14 HTTP handlers | maps requests to the components above; nothing is written without the token |
| Evaluators (`AG/evaluator.py`, `AG/llm_evaluator.py`) | none | `evaluate` | any failure is an abstain |
| Calibration snapshot (`AG/snapshot.py`) | none | `build_snapshot` | the hash fixes what the agent is scored on, though not the times behind the value; a replay agrees |
| Signing (`AG/signing.py`) | none | canonical JSON, Ed25519 | what is signed is what the receiver reads |
| Config, manifest, factory, serialisation | none | pure functions | round trips |

How they interact: a route calls `RuntimeDeliberation`, which appends to the
journal store; `PeerDeliberation` calls every peer, *and its own HTTP endpoint*,
through `HttpTransport`, so its own handler runs on the same event loop and
appends to the same store while the run is suspended in an await; `AgentHost`
starts and stops the server and runs the hooks that start and stop the
`AnchorScheduler`, which reads the journal and writes to an anchor store.

What is hard here: awaits at which other tasks and peers act (proposal gather,
falsification round trips, overlapping `start`/`stop`), crashes between journal
appends and in the middle of one, failures that are swallowed into values
(drop a peer, reject, abstain) against one that is not (the initiator's own
proposal), clocks that step back, and answers that change across a restart.
The full list, with lines, is `hazards` in `PROJECT.json`; smaller ones met on
the way are under Findings.

## How the modules follow the code

Every definition that models code is mapped to its lines in `PROJECT.json`
(`map`). Definitions marked `(mutant)` in a module are deliberate bugs, one per
property: put in the place of the definition that follows them, each makes its
property fail. They are not part of any specification.

| Module | Models | State | Actions |
| --- | --- | --- | --- |
| `Orchestrator` | what `run` needs of `adp_manifest` | none | `Tally` (weights per vote, participation floor, threshold of the tier, veto), `Termination`; an external library, known from its use |
| `Contribution` | `AG/contribution.py` | none of its own: `acks` belongs to the run | `RecordAcknowledgement`, `Contributions`, `LoadBearingAgents` |
| `PeerDeliberation` | `run`, `AG/peer_deliberation.py:138-420` | the fields of the instance, the program counter `phase`, the local variables of the loops, the store's entries of this deliberation | one action per await, and per stretch between awaits (below) |
| `PeerDeliberationProps` | nothing: the properties and the refinement mapping | | |
| `Deliberation` | what a deliberation promises (abstract) | stage, ballots, moves, outcome | `Open`, `Round`, `Decide`, `Abort` |
| `Evaluators` | `AG/evaluator.py`, `AG/llm_evaluator.py` | none | outputs to vote and confidence |
| `Proposing` | `request_proposal`, `/api/propose`, `run_proposal`, `evaluate` for several calls; the text that is signed and the one the caller verifies | where each call, handler and process stands, what has been journaled and answered | request, timeouts, exit of the process, evaluation, append, answer, reading of the answer |
| `Transport` | the URL map and the tokens of `AG/transport.py`, discovery and the order of calls in `run`, `AuthMiddleware` as the receiving end | `_peer_agent_ids`, who is behind each URL, what each run has discovered, asked and got | handover of a URL, manifest fetched, read or lost, ask, falsify |
| `JournalEntries` | `AG/journal/store.py`: entries, calls, the text of a file | none | |
| `JournalQueries` | the order of returned entries, the two ways to the latest outcome | none | `Arranged`, `Sorted`, `LatestAt`, `Latest`, `Scanned` |
| `Calibration` | `AG/snapshot.py`, `record_outcome`, what both stores give to it | proposals of the handler and of `run`, outcomes of each deliberation, a kept snapshot | propose, persist, report an outcome, restart, publish |
| `JournalStore` | what a store promises (abstract) | log, acknowledged entries, `broken` | `Take`, `Break` |
| `JsonlJournal` | `AG/journal/jsonl.py` | files (lines and the tail), index, the call in progress | append, repeated call, write errors, torn writes, crash, restart |
| `SqliteJournal` | `AG/journal/sqlite.py` | rows, open transaction, call in progress | append, batch, repeated call, failing statement, crash, restart, close |
| `AnchorScheduler` | `AN/scheduler.py`, `AN/mock.py` | `_task`, `_stop_event`, loops, their cycles, the store | start, stop, loop, `publish_now` |
| `AgentHost`, with `HostState` | `AG/host.py` around uvicorn | server, `started`, `should_exit`, journal, two tasks | start, hooks, run, stop, timeout |
| `Gateway` | `AG/middleware.py`, every route of `AG/routing.py` with its statuses and writes | a window per client, the journal's entries by token | tick, admit, refuse, turn away |

`PeerDeliberation` in more detail. `Discover`-phase actions let each peer's
manifest arrive or fail; the collect phase lets each proposal, and its author's
calibration, arrive or fail (`_request_one`); the self phase is the request
that no `try` protects and `OwnHandler` the agent's own `/api/propose`, which
writes to the same store meanwhile. A round is split at its only await:
evidence is logged and sent, then the answer is taken in, then the rejecter's
vote is decided. Closing, settling, each append of the final loop, and each
push are steps; the callback, the settlement, an append and the handling of a
rejecter's answer (`AG/peer_deliberation.py:303-310`: an id that was not
discovered, an `action` that cannot be a key) may raise, and the process may
crash before any step. The `status` of a condition that a peer sends is not
modelled: agents of this runtime send every condition as active. Loops over lists take
their elements in any order, which includes the order of the code. Weights are
constants, since they are computed once, before the first tally, and never
change. Entries keep the fields a reader needs to replay the decision.

`Proposing` opens the box that `PeerDeliberation` treats as "the proposal
arrives or fails": it is the same two endpoints, seen for several calls at one
peer and down to the evaluator's process. The two are related by their
interface and not composed: the product would be large, and the only state they
share is the journal, of which `Proposing` keeps one slot per call. Of the text
that a result takes over from a process or a provider it is kept whether it can
be written in UTF-8; the texts and parameters of the request itself are taken to
be encodable.

`JsonlJournal` and `SqliteJournal` implement the same `JournalStore`. They
differ in two ways. One is `broken`: a JSONL file can be torn by a write that stops
part-way, and then the promise is void and the weaker `LossIsLoud` remains; the
SQLite store never uses that way out. The other is `Once`: SQLite inserts an
entry or ignores it, while JSONL writes an entry that is appended again once
more, so that it holds it twice. In both modules a call is repeated after
whatever became of it; JSONL's only while the store loads. An append may also
raise when its line is already written, at the close; the index then lacks the line
until a restart, and `astray` remembers the deliberations where this happened.
How the stores order what they return, and
how each finds the latest outcome, is `JournalQueries`; `Calibration` uses it with
the two stores side by side, as `backend`.

In `Calibration` a proposal is (deliberation, agent, domain), and the agent's own
handler enters each once; the hash has no collisions and shows four decimals of
an outcome, as the code does. The value itself decays with the clock
(`AG/snapshot.py` takes `now`), so two snapshots of one journal differ in it by
design: what is compared is the sample the value is computed from, which is
for each scored proposal its outcome with the time it decays from. The hash has
no times: `HashFixesScores` therefore compares the samples without them,
`ReplayAgrees` with them.

In `Transport` a handover is the deployment's, not the code's: a URL leads to
another agent from some moment on. A manifest is answered in one step and read
in a later one, so that an answer may be out of date when it is bound.
`disturbed` remembers which URLs had this happen during a run.

In `Gateway` time passes in ticks and a window is known by its age; a route is
one step, whose statuses and write are those of its handler. The bearer token
comes first and the limiter behind it, which is the order of
`AG/host.py:66-80`.

The text that is signed is modelled in `Proposing` by the one thing that can
make the caller read another text: an int is written without a fraction, and
`AG/transport.py:364` makes a float of it. `Canonical` and `Read` are these two
conversions; `AnswerVerifies` states when a signature survives them.

## What is checked

Ten runs pass, over all the components above but the pure ones, and two refute
something that the repository says. The bounds are in the `.cfg` files.

| Run | Instance | What it shows |
| --- | --- | --- |
| `peer_safety` | initiator and two peers, the initiator lighter; two conditions; a budget of 4 rounds; crash anywhere; 427,128 states up to symmetry | the transcript, votes, credits, settlement and store of a run. Two rejecters with two conditions each are needed for a flag to leak from one to the other, and for a condition to stay falsified over rounds. Four rounds are more than the two rejecters can use, so the bound never ends a run that had something to do |
| `peer_refines` | initiator and three peers, one with a veto; one condition; budget of 3 participants, which four exceed; reversible tier | a run implements `Deliberation` and always ends |
| `proposing` | two concurrent calls; each evaluator; signing or not; a confidence out of range, NaN, none, an int; text that can be encoded and text that cannot | answers are journaled first, are what the evaluator said, and verify at the caller; with an LLM evaluator only such text, or the journal, keeps a proposal from being made |
| `transport` | two runs over one transport, three agents, three URLs, two handovers; a peer list with the initiator's own URL in it, too; 2.5 million states | calls reach the agent that was discovered, answers are counted for their author, nobody is asked twice; and exactly when not |
| `calibration` | a deliberation of the agent's own and one of another, two domains, three reports; three successes, two of which share four decimals; both stores; 537,000 states | an unchanged hash means the same proposals scored against the same successes; a peer that replays the journal gets the same. Three reports make a correction, a tie and a report out of order at once |
| `jsonl_store` | two deliberations, three entries in calls of one or two, made once or repeated, two timestamps in any order; 4.1 million states | the files implement `JournalStore`, a loss is loud, a restart changes no answer. Three entries make an entry before, in and after a torn line; a call can be repeated as long as the files have at most two lines, enough to repeat a batch that raised half-way or returned |
| `sqlite_store` | two deliberations, three entries in calls of one or two, made once or repeated; 207,000 states | the table implements `JournalStore`; batches are whole |
| `gateway` | two clients with the right, a wrong and no token at every route; two requests per window of three ticks | at most twice the limit in any span of one window; only what was served uses up a window; only token holders write; refusals do not extend the window |
| `anchor_lifecycle` | one task that starts and stops the scheduler up to three times, one that calls `publish_now`, two domains, two versions of the journal | one loop at a time, stops drain, a failing domain keeps nobody from its turn |
| `host_stop` | two hooks of each kind, `run()` and an outside `stop()` | the journal is closed, and last; `start` ends unless the server was over before it listened |
| `peer_quorum` | equal weights, no budget | *violated*: see the findings |
| `anchor_restart` | two tasks that start and stop | *violated* |

Bounds: `MaxRounds` and `MaxParticipants` are the budget's, not ours.
`MaxStarts` bounds the loops ever created, `MaxVersion` the journal's versions,
`MaxEntries` the entries ever made, `MaxLines` the lines of the files when a JSONL call begins, `Calls` the requests, `MaxHandovers` and
`MaxReports` what the environment does to the URLs and the outcomes. Deadlock is not
checked where the system may really stop: a deliberation ends in `done`,
`failed` or `crashed`, the host is over when it has stopped, proposing when all
calls are, the runs of `Transport` when they are done or failed, the JSONL
store when its entries are made and its lines are written, or it does not load,
`Calibration` when all reports are in.

### Fairness

* `PeerDeliberation`: weak fairness of every step except `Crash`. The code
  justifies it because every await of `run` is a call with an HTTP timeout
  (`AG/transport.py:150-155`), and what is not an await runs to its end.
* `Proposing`: weak fairness of the caller's timeout and of each handler's
  step, hence of the evaluator's timeout (`AG/evaluator.py:121`). Not of
  the arrival of a request, nor of the exit of a process.
* `AnchorScheduler`: weak fairness of each loop and of each return of a stop.
  This assumes that the anchoring store answers: `publish_calibration` is
  awaited without a timeout (`AN/scheduler.py:100`).
* `AgentHost`: weak fairness of the two tasks and of the start of the server,
  not of its end: a server with open connections may ignore `should_exit`, and
  `wait_for` (`AG/host.py:141`) is there for it.
* `Gateway`: time passes. Clients need not keep asking; who does is let through.

### Findings

Two places where the code does not do what the repository says, each with a
run that shows it:

1. `peer_quorum`: "participation_floor enforces quorum downstream"
   (`AG/peer_deliberation.py:213-215`). Agents that did not answer have no
   weight, so the floor is taken over those who did: alone, the initiator
   converges.
2. `anchor_restart`: `start` is "idempotent" (`AN/scheduler.py:49`), but does
   nothing while a stop is pending; the scheduler is then off after a start.

Three more that the passing runs' properties take into account:

* Agents "whose removal would have changed the termination state"
  (`AG/contribution.py:70-72`): in a run that is below the participation floor
  no removal changes it, and approvers are marked all the same.
* `start` is to "return once it's listening" (`AG/host.py:101-102`), and polls
  for ever (line 119) if the server's task ends before; `StartEnds` excepts this.
* A default vote of an evaluator that is configured with an int confidence is
  signed as `1` and read as `1.0`: the signature then fails; `AnswerVerifies`
  excepts this.

Also met while modelling, without a run, some of them among the hazards of
`PROJECT.json`: with two callers that restart the scheduler at once, two loops
run side by side; the order and the membership of
`list_deliberations_since` may change with a restart (`AG/journal/jsonl.py:120`)
when the clock stepped back; rate-limit windows are never
removed (`AG/middleware.py:91`); an after-start hook that raises leaves the
server up (`AG/host.py:127`); calibration is asked with `agent_id` where the
route takes `agentId` (`AG/transport.py:190`), so the answer is 422 and the
weight the default's; the pushed entries meet a path that only answers GET, and
falsification requests a 501, at agents of this runtime; without a token
configured for itself an agent cannot initiate, whatever
`public_journal_endpoint` says; the opening entry always announces three rounds;
an amended condition is dropped; JSON output of a shell evaluator that is not an
object raises instead of abstaining, and its confidence is not clamped;
`Retry-After` may say 0; an LLM answer whose confidence has the wrong shape
votes with 0.5, where the class promises to abstain
(`AG/llm_evaluator.py:47-49`); a proposal that comes back under another
agent's id has no URL, and evidence against it ends the run in a `KeyError`
(`AG/peer_deliberation.py:303`), as an answer whose `action` is a list ends it
in a `TypeError` (lines 306-310); an LLM answer with a lone surrogate in its text
passes the evaluator, where other mismatches "surface as `Vote.ABSTAIN`"
(`AG/llm_evaluator.py:47-48`), and then makes the signature raise
(`AG/signing.py:118`), which `LlmFailsOnText` allows for; one more report of the same success,
later, leaves the journal hash, the "hash of the journal state used to produce a
calibration value" (`AG/snapshot.py:156-158`), as it was, but not the times that
the value decays from; an append that is repeated is a second line in a JSONL
journal, and its proposal is scored twice; an append that raises at the
close has written a line that the index lacks until a restart; a token with
characters outside ASCII is answered 500 instead of 401 (`AG/middleware.py:66`),
and so is a `since` without a time zone.

## What is proved

`PeerDeliberationProof` holds for every finite set of agents, every weight,
tier, veto, budget, set of conditions and of offers:

| Theorem | States |
| --- | --- |
| `Invariance` | `Spec => []IInv` |
| `TypeCorrect` | `Spec => []TypeOK` |
| `RevisionsAreJustified` | `Spec => []JustifiedRevisions` |
| `TerminationIsFresh` | `Spec => []FinalTallyFresh` |
| `GossipFollowsStore` | `Spec => []GossipIsDurable` |
| `RunImplementsDeliberation` | `Spec => ImplementsDeliberation` |

The assumptions are the named ones on the constants (`OrchestratorAssumption`,
`PeerDeliberationAssumption`); of the external tally the proofs use only that
its `converged` is a Boolean, but for `SettlementsAreEarned`, which is about it.

None of the properties is inductive. `JustifiedRevisions` needs to know, in
the middle of a visit, that a flag still up means that every condition not yet
falsified is still to be tested (`VisitInv`); without it, a state with the flag
up and an untested condition would revise. `FinalTallyFresh` needs to know how
votes and the tallied ballots may differ inside a round (`TallyInv`: only by
softenings, and only if `revised` is set), since the tally is redone at the end
only. The refinement also needs the number of tallies to follow the rounds
(`RoundInv`), so that moves stay within `MaxRounds`; the closing entry to be
the last of the transcript and to carry the last tally's termination
(`EntryInv`); and that entry to reach the store last (`JournalInv`), so that a
decision appears in one step. `IInv` is the
conjunction of these and of `TypeOK`. A round becomes one abstract step, at its
re-tally; everything else up to the last append stutters.

The rest of the module builds on that invariant:

| Theorem | States |
| --- | --- |
| `ProposalsAreFresh` | `Spec => []FreshInv` |
| `VotesOnlyEverSoften` | `Spec => VotesOnlySoften` |
| `RoundsMove` | `Spec => []EveryRoundMoves` |
| `AnswersAreAsked` | `Spec => []EveryAnswerIsAsked` |
| `NobodyIsRetested` | `Spec => []NeverRetested` |
| `CreditsMatch` | `Spec => []CreditMatchesTranscript` |
| `DecisionsAreExplained` | `Spec => []JournalExplainsDecision` |
| `SettlementsAreEarned` | `Spec => []SettlementIsEarned` |
| `DecisionsAreFinal` | `Spec => [][Decided(journal) => ...]_vars`: the store keeps the decision, its outcome and the ballots it was taken on |
| `EveryStepUsesUp` | `FiniteConditions => (Spec => /\ [](left \in Nat \X Nat \X Nat \X Nat) /\ [][Below(left', left)]_vars)` |

A vote could also change by being recorded a second time, from a later answer;
`FreshInv` excludes it: who is still to be recorded has no proposal yet. For
`EveryRoundMoves`, `MoveInv` counts the agents that were revised: a finite set
that grows by one whenever `revised` goes up, because nobody is revised twice,
so it bounds the rounds held before the current one.

The next three are about the transcript, which only grows. `EvidenceInv` says
of each question in it that it went from an approver to a recorded agent and
that, if it was acknowledged, the condition is marked. `QuestionInv` says where
the loops stand with it: during an answer the question is the last entry, and
no condition that is still to be tested in this round has been tested in it.
`NeverRetested` needs the first to know that an acknowledged condition is not
among those left to test, and the second for the rest of a round. Votes and
marks are never taken back (`VotesStay`), which keeps the old entries true.

`DecisionsAreExplained` relates the store to the run. `StoryInv` says that every entry of
the transcript is true of the proposals as they stand, that every proposal and
every revision is told by one, and that a closing entry speaks of the present
ballots. `BookInv` says that the store holds the entry of the initiator's own
handler, if there is one, and then a prefix of the transcript. A store that ends
with the closing entry therefore has all of it, and who replays true entries, and
all of them, finds the ballots (`Replaying`), from whichever of the
initiator's two entries.

`SettlementsAreEarned` is the one theorem that unfolds the tally. Its weights are
sums over finite sets; a sum of naturals is the size of a set that has f[x]
elements for each x (`SumIsCount`), so what is needed of sums follows from what
is known of cardinalities. Without an approver's ballot the approval is its weight
less and the rejection the same, which is the shortcut the code takes
(`ShortcutIsCounterfactual`). `MarkInv` has the credits in balance with the
falsified conditions from the first question on, and `SettledInv` says
that no proposal changes after the settlement.

`DecisionsAreFinal` is read off the refinement: the abstract deliberation takes no
step once it is decided, so what maps to it stutters.

`EveryStepUsesUp` is the argument behind `Terminates`, for every size. `left` is
what a run has left: stages, turns of the stage's loop, rejecters to visit,
conditions to test. `Below` orders these lexicographically, and every step goes
down, a crash included: an answer that is taken in makes one recording more but one call
less, a round that is held uses up one of `MaxRounds`, a visit finds no more
conditions than there are. Only here must there be finitely many conditions
(`FiniteConditions`: they come in a list). What stays with TLC is that the run does
take another step, which is its fairness.

`ProposingProof`, for any number of calls, every evaluator and all its outputs:

| Theorem | States |
| --- | --- |
| `ProposingInvariance` | `Spec => []IInv` |
| `ProposingTypes` | `Spec => []TypeOK` |
| `AnswersAreJournaled` | `Spec => []AnswerIsJournaled` |
| `VotesComeFromEvaluators` | `Spec => []VotesAreEvaluated` |
| `LlmProposalsFailOnText` | `Spec => []LlmFailsOnText` |
| `AnswersVerify` | `Spec => []AnswerVerifies` |

`CallInv` ties the four parts of a call together (its handler, the process, the
journal and the reply); the votes then follow from lemmas about what each
parser returns for each form of output. `LlmProposalsFailOnText` names the one
thing besides the journal that stops a proposal of an LLM evaluator: `ShapedSigns` shows that
whatever else comes out has a confidence that can be signed. The assumptions are
`EvaluatorsAssumption` and `ProposingAssumption`.

`LifecycleProof` is about what starts and stops. The scheduler, for any number of
domains, adopters and restarts (`AnchorSchedulerAssumption`); all but the second take `OneCaller`, that a
single task calls `start` and `stop`, as a hypothesis:

| Theorem | States |
| --- | --- |
| `SchedulerInvariance` | `OneCaller => (Spec => []IInv)` |
| `SchedulerTypes` | `Spec => []TypeOK` |
| `OneLoopAtMost` | `OneCaller => (Spec => []AtMostOneLoop)` |
| `StopsDrain` | `OneCaller => (Spec => []StopDrains)` |
| `StartsRun` | `OneCaller => (Spec => []StartedMeansRunning)` |
| `LoopsAnchorForward` | `OneCaller => (Spec => LoopsAnchorInOrder)` |

The hypothesis is needed: run `anchor_restart` is a counterexample with two
callers. `LoopInv` says that a live loop is the current task with the current
event, so the anew-read `self._stop_event` is the loop's own; `StopInv` that
this event is set only while the caller waits in `stop`, which is what makes a
later `start` create a loop that runs; `OrderInv` that only a publishing loop
holds a record, no older than what the loops have put, so with at most one of
them nothing is overtaken.

The host, there the instance `Host` with the server and the journal of `HostState`,
for any number of hooks; that these numbers are numbers, `AgentHost`'s own
assumption, is the hypothesis `HooksAreCounted` here:

| Theorem | States |
| --- | --- |
| `HostInvariance` | `HooksAreCounted => (Host!Spec => []HostInv)` |
| `HostTypes` | `HooksAreCounted => (Host!Spec => []Host!TypeOK)` |
| `JournalIsClosedLast` | `HooksAreCounted => (Host!Spec => []JournalClosedLast)` |

`WaitInv` says that whoever is past its wait has seen the server's task end,
and that there is no stop before the start has made a server.

`SqliteJournalProof` and `JsonlJournalProof`, for any deliberations, timestamps,
sizes of batches and number of entries (`JournalEntriesAssumption`, `JsonlJournalAssumption`):

| Theorem | States |
| --- | --- |
| `SqliteInvariance` | `Spec => []IInv` |
| `SqliteTypes` | `Spec => []TypeOK` |
| `BatchesAreWhole` | `Spec => []BatchIsWhole` |
| `SqliteImplementsStore` | `Spec => ImplementsJournalStore` |
| `NothingIsForgotten` | `Spec => [](acked \subseteq In(rows) /\ ...)`: and no entry is in two rows |
| `JsonlInvariance` | `Spec => []IInv` |
| `LossesAreLoud` | `Spec => []LossIsLoud` |
| `BatchesArePrefixes` | `Spec => []BatchIsPrefix` |
| `JsonlImplementsStore` | `Spec => ImplementsJournalStore` |
| `RestartsChangeNoAnswer` | `Spec => []RestartChangesNoAnswer` |

Of the entries of a call SQLite's proof needs to know only which call they are of
(`Called`); JSONL's, that they are numbered in the order they were made, those
of a call one after the other (`Numbered`, `TodoInv`). For SQLite, `CallInv` says
that a call brings all that was ever made for it, and that what it has no longer
to insert is in the table or in the transaction, so a commit leaves nothing of it
out. For JSONL, `DiskInv` holds while every file parses: what is acknowledged is
on the disk; of the call in progress at least the entries before the next one
are; and of no call is a later entry there without the earlier ones. It says
nothing of how often an entry is there, and a repeated call starts from any such
disk (`AgainStep`), because nothing of it was made before its first entry
(`NoneBefore`). A torn line makes the file unparsable, which
ends `DiskInv` and is what `LossIsLoud` speaks of. The refinement maps a write
of a whole line to `Take`, a torn one to `Break`, and all else to a stutter.

The refinement of the table has to speak of the rows of one deliberation. They
are its rows in their order (`Arranged`), and of such a sequence all that the
proof needs is where it finds an element: the k-th is the row with k - 1 of the
deliberation before it (`PlacesByOrder`, by counting, without induction). A
commit leaves what is before a row alone, so every selected sequence grows at its
end only (`SelectedGrows`), and by new entries only, since no entry is twice in
the table and the transaction together (`TableInv`). Then a commit is one `Take`
and all else a stutter.

`RestartsChangeNoAnswer` compares the index, in the order of appending, with what
a restart would load, the same lines sorted by time. `IndexInv` says that
the index of a deliberation whose file is whole, and had no line left by an append that
raised (`astray`), is a rearrangement of the
file's lines in which those of one timestamp keep their order (`Rearranged`);
an entry that was appended twice is in both as often:
a write appends to both, and a restart sorts, which is one such rearrangement
(`SortedRearranges`). Two sequences so related give the same outcome, pairs and
entries (`RearrangedAnswers`), because the first of the latest outcomes is among
those of one timestamp. That a sorted order exists for every file is proved by
counting, too (`OrderExists`).

`GatewayProof`, for any clients, tokens, limit and length of a window
(`GatewayAssumption`):

| Theorem | States |
| --- | --- |
| `GatewayInvariance` | `Spec => []IInv` |
| `NoBurstBeyondTwice` | `Spec => []AtMostTwice` |
| `OnlyBusyClientsAreRefused` | `Spec => []RefusalsAreEarned` |
| `OnlyAuthorisedWrites` | `Spec => []WritesAreAuthorised` |

`AtMostTwice` is not inductive, and its bound is the sum of two that are. A
window of a client splits the requests that are still young into those since it
began, which are as many as its count says and at most the limit, and those
from before, which the window before let through and which are at most the limit
as well. When a window begins, the first become the second, and the old second
have all grown too old.

`TransportProof`, for any agents, URLs, runs and handovers (`TransportAssumption`):

| Theorem | States |
| --- | --- |
| `TransportInvariance` | `Spec => []IInv` |
| `CallsReachWhomTheyName` | `Spec => []FreshCallsReachTheirAgent` |
| `TokensKeepPeersApart` | `Spec => []AnswersAreAttributed` |
| `OneProposalEach` | `Spec => []AskedOnce` |

`MapInv` relates the one URL map to what each run has discovered: a URL that was
fetched in a run and not handed over since is bound to the agent behind it, even
if another run has bound it in between. `AskInv` counts: an agent's answers in a
run are at most the targets already asked, and one agent has one target, so it is
asked a second time only as the initiator's own. The
proof attempt of `TokensKeepPeersApart` showed that the property had claimed too
much: under the wildcard of the configured tokens two agents may share a token,
and one can then answer for the other without any run having discovered it; the
property now says so.

`CalibrationProof`, for any agents, deliberations, domains, outcomes and times
(`CalibrationAssumption`):

| Theorem | States |
| --- | --- |
| `CalibrationInvariance` | `Spec => []IInv` |
| `StoresAgree` | for every sequence `s` of outcomes: `Scored` and `Hashed`, of either store, of `s` and of `Sorted(s)`, are `Latest(s)` |
| `HashStandsForScores` | `Spec => []HashFixesScores` |
| `ReplaysAgree` | `Spec => []ReplayAgrees` |

Which outcome counts is found in two ways: JSONL takes `max` of a list in the order
of arrival, SQLite goes through the rows by time and replaces what it has when a
row is later (`Scanned`, a fold). That both find the first of the latest ones is
`ScanFindsLatest`, and that a sort by time keeps the order of equal times, so that
the first of the latest stays the first, `SortKeepsLatest`; `StoresAgree` combines them for the value
and for the hash, before and after a restart. Then both readings of
a snapshot are functions of the latest outcomes (`Readings`), a replay has the same ones, and the
agent's part of the hash is its sample, rounded and without its times (`SampleIsInHash`).
`KeptInv` says so of the snapshot that was kept, whatever the journal has become
since; so two snapshots with one hash have the same proposals, as often, against
the same successes. More would be false: the times are not in the hash. `ReplaysAgree`,
whose two snapshots have the same outcomes, does include them.

All proofs are first-order with finite sets. Where one would use
induction over a sequence, it takes a least or greatest element of a finite set
instead (`MaxExists`, `SumIsCount`, `FirstExists`) or counts (`ListExists`). That SQLite's
scan, which is a fold, computes the latest outcome is shown in the same way, by a
smallest set of rows on which it would not (`ScanFindsLatest`). For the same reason the queries choose a
sequence with the wanted order (`Arranged`) instead of computing one.

Only model-checked:

* all liveness: `Terminates` (but for what `EveryStepUsesUp` says of it),
  `EveryCallEnds`, `EveryDomainTried`, `EveryStopReturns`, `StopCloses`, `StartEnds`,
  `EveryClientGetsThrough`;
* `QuorumEnforced` of run `peer_quorum`, and `StartedMeansRunning` with two callers, have
  counterexamples (see the findings) and cannot be proved.

## What is not modelled

* `adp_manifest`, `acb_manifest` and `adj_manifest` are not in the repository.
  Weights are constants (calibration never changes them, see the findings);
  draws, discounts and scores are left out.
* Ed25519 itself, the sorting of keys and the making of keys (`AG/signing.py`);
  `AG/config.py`, `AG/manifest.py` and the field conversions of
  `AG/journal/_serialize.py`: pure functions of data the models abstract.
* The Brier score and its decay by the clock (`AG/snapshot.py`): functions of the
  sample that `Calibration` compares.
* The history of results that the scheduler's `get_status` shows.
* `AN/neo3.py` raises on every call; `AN/factory.py` chooses a class.
* A second `run` on the same instance; the initiator's own handler that
  journals after the run has given up on it (`Proposing` has the late handler,
  `PeerDeliberation` does not); the loss of a machine (nothing is synced to
  the device); a crash between the append of a proposal and its reply.
* Two callers of `start` and `stop` in `anchor_lifecycle`: `anchor_restart`
  has them, for the one property it refutes. The order between `publish_now` and
  the loop, which `LoopsAnchorInOrder` leaves out.
* Floats: weights are naturals, and shares are compared by multiplying, so what
  rounding does at the very threshold is not seen.

## Plan

What a next step would add, in the order of importance:

1. A second `run` on one instance (`AG/peer_deliberation.py:128`), which starts
   with the first run's proposals, tallies and transcript: `PeerDeliberation`
   from a state in which a run is done, once it is known what an adopter may rely on.
2. The host with the scheduler as its hooks, and a handler that still appends
   when the journal is closed (`Proposing` has the refused append).
3. Serialisation as functions on records, checked against their inverses.
