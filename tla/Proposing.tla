------------------------------ MODULE Proposing ------------------------------
(***************************************************************************)
(* One request_proposal of an initiator (transport.py) and what it sets    *)
(* off at a peer: the route /api/propose, run_proposal (deliberation.py)   *)
(* and the evaluator, for several requests at once, with timeouts on both  *)
(* sides, lost messages, processes that hang, and a journal that refuses   *)
(* appends (its disk is full, or the host has closed it).                  *)
(*                                                                         *)
(* The peer's event loop runs one handler at a time, and run_proposal      *)
(* awaits nothing once it has its evaluator's result: signing, journalling *)
(* and the return are one step.                                            *)
(***************************************************************************)
EXTENDS Evaluators

CONSTANTS
    Calls,    \* requests
    Kinds,    \* kinds of evaluators: "exit-code", "json" (ShellEvaluator),
              \* "llm", "static"
    None

ASSUME ProposingAssumption ==
    /\ Kinds \subseteq {"exit-code", "json", "llm", "static"}
    /\ None \notin Result

VARIABLES
    config,    \* AgentConfig: the kind of evaluator, and is there a private key?
    caller,    \* request_proposal: "idle", "waiting", "answered", "failed" (raised)
    handler,   \* the route: "none", "evaluating", "answering", "failing", "over"
    work,      \* the process or the provider's client: "none", "running",
               \* "exited", "killed" (closed)
    output,    \* what came out of it
    journal,   \* what run_proposal has appended for each call
    reply,     \* what it has returned, and signed if there is a key
    answer,    \* what request_proposal has returned
    refused    \* the calls whose append raised (history variable)

wires     == <<caller, answer>>
evaluator == <<work, output>>
emitted   == <<handler, journal, reply, refused>>
vars      == <<config, wires, evaluator, emitted>>

Init ==
    /\ config \in [evaluator : Kinds, key : BOOLEAN]
    /\ caller = [c \in Calls |-> "idle"]
    /\ handler = [c \in Calls |-> "none"]
    /\ work = [c \in Calls |-> "none"]
    /\ output = [c \in Calls |-> None]
    /\ journal = [c \in Calls |-> None]
    /\ reply = [c \in Calls |-> None]
    /\ answer = [c \in Calls |-> None]
    /\ refused = {}
-----------------------------------------------------------------------------
\* The initiator.

Request(c) ==
    /\ caller[c] = "idle"
    /\ caller' = [caller EXCEPT ![c] = "waiting"]
    /\ UNCHANGED <<config, answer, evaluator, emitted>>

\* _PROPOSAL_TIMEOUT, a connection that breaks, or a status that is no success.
GivesUp(c) == caller[c] = "waiting"

CallFails(c) ==
    /\ GivesUp(c)
    /\ caller' = [caller EXCEPT ![c] = "failed"]
    /\ UNCHANGED <<config, answer, evaluator, emitted>>
-----------------------------------------------------------------------------
\* The peer.

Goto(c, place) == handler' = [handler EXCEPT ![c] = place]

\* JSON in UTF-8 has no NaN, no Infinity and no lone surrogate.
Encodable(r) == r.confidence \notin NotFinite /\ r.text = "plain"

\* sign_proposal, of a proposal whose request can itself be encoded.
Signs(r) == config.key => Encodable(r)

Append(c, r) ==
    /\ journal' = [journal EXCEPT ![c] = r]
    /\ reply' = [reply EXCEPT ![c] = r]
    /\ Goto(c, "answering")
    /\ UNCHANGED refused

\* (mutant)
AnswerAnyway(c, r) ==
    /\ refused' = refused \cup {c}
    /\ reply' = [reply EXCEPT ![c] = r]
    /\ Goto(c, "answering")
    /\ UNCHANGED journal

\* self._journal.append raises, and run_proposal with it.
AppendRaises(c, r) ==
    /\ refused' = refused \cup {c}
    /\ Goto(c, "failing")
    /\ UNCHANGED <<journal, reply>>

\* run_proposal from the evaluator's result on.
Emit(c, r) ==
    /\ IF r # Raises /\ Signs(r)
         THEN Append(c, r) \/ AppendRaises(c, r)
         ELSE Goto(c, "failing") /\ UNCHANGED <<journal, reply, refused>>
    /\ UNCHANGED <<config, wires>>

\* The request reaches the route, at the latest when its caller has given up.
Arrived(c) == caller[c] # "idle" /\ handler[c] = "none"

\* The evaluator starts its process, or its request to the provider.
Evaluate(c) ==
    /\ Arrived(c)
    /\ config.evaluator # "static"
    /\ Goto(c, "evaluating")
    /\ work' = [work EXCEPT ![c] = "running"]
    /\ UNCHANGED <<config, wires, output, journal, reply, refused>>

\* The evaluator has nothing to start: no process, no model, no API key.
CannotEvaluate(c) ==
    /\ Arrived(c)
    /\ config.evaluator # "static"
    /\ Emit(c, Abstain)
    /\ UNCHANGED evaluator

EvaluateStatic(c) ==
    /\ Arrived(c)
    /\ config.evaluator = "static"
    /\ Emit(c, StaticResult)
    /\ UNCHANGED evaluator

\* The process ends, or the provider answers.
Exit(c) ==
    /\ work[c] = "running"
    /\ work' = [work EXCEPT ![c] = "exited"]
    /\ \E out \in IF config.evaluator = "exit-code" THEN ExitOutputs ELSE TextOutputs :
          output' = [output EXCEPT ![c] = out]
    /\ UNCHANGED <<config, wires, emitted>>

\* (mutant)
SomeOutput(c) == CHOOSE out \in {output[d] : d \in Calls} : out # None

Output(c) == output[c]

Parsed(c) ==
    CASE config.evaluator = "exit-code" -> ParsedExitCode(Output(c))
      [] config.evaluator = "json"      -> ParsedJson(Output(c))
      [] config.evaluator = "llm"       -> Shaped(Output(c))

Evaluated(c) ==
    /\ handler[c] = "evaluating"
    /\ work[c] = "exited"
    /\ Emit(c, Parsed(c))
    /\ UNCHANGED evaluator

\* (mutant)
NeverDue(c) == FALSE

\* timeout_ms is over, and nothing has come out.
Due(c) == handler[c] = "evaluating" /\ work[c] = "running"

\* proc.kill() and proc.wait(), or the client's aclose().
Kill(c) == work' = [work EXCEPT ![c] = "killed"]

EvaluatorTimesOut(c) ==
    /\ Due(c)
    /\ Kill(c)
    /\ Emit(c, Abstain)
    /\ UNCHANGED output

\* _proposal_from_dict: whatever number is read becomes a float.
Read(r) == [r EXCEPT !.form = "float"]

\* The reply is sent.  It is received if the caller still waits for it; for
\* one that it cannot encode the framework sends an error instead.
Answer(c) ==
    /\ handler[c] = "answering"
    /\ Goto(c, "over")
    /\ IF caller[c] = "waiting" /\ Encodable(reply[c])
         THEN /\ caller' = [caller EXCEPT ![c] = "answered"]
              /\ answer' = [answer EXCEPT ![c] = Read(reply[c])]
         ELSE UNCHANGED wires
    /\ UNCHANGED <<config, evaluator, journal, reply, refused>>

\* run_proposal has raised: a 500, that the caller takes as CallFails.
Fail(c) ==
    /\ handler[c] = "failing"
    /\ Goto(c, "over")
    /\ UNCHANGED <<config, wires, evaluator, journal, reply, refused>>
-----------------------------------------------------------------------------
Handle(c) == Evaluated(c) \/ EvaluatorTimesOut(c) \/ Answer(c) \/ Fail(c)

Next ==
    \E c \in Calls :
        \/ Request(c) \/ CallFails(c)
        \/ Evaluate(c) \/ CannotEvaluate(c) \/ EvaluateStatic(c)
        \/ Exit(c)
        \/ Handle(c)

Spec == Init /\ [][Next]_vars

\* Timers expire and asyncio runs what is ready.  A request need not arrive,
\* and a process or a provider may hang.
FairSpec == Spec /\ \A c \in Calls : WF_vars(CallFails(c)) /\ WF_vars(Handle(c))
-----------------------------------------------------------------------------
\* Every variable holds a value of its kind, and a caller is answered with a
\* number in the place of the confidence (transport.py:234-242).
TypeOK ==
    /\ config \in [evaluator : Kinds, key : BOOLEAN]
    /\ caller \in [Calls -> {"idle", "waiting", "answered", "failed"}]
    /\ handler \in [Calls -> {"none", "evaluating", "answering", "failing", "over"}]
    /\ work \in [Calls -> {"none", "running", "exited", "killed"}]
    /\ output \in [Calls -> ExitOutputs \cup TextOutputs \cup {None}]
    /\ journal \in [Calls -> Result \cup {None}]
    /\ reply \in [Calls -> Result \cup {None}]
    /\ answer \in [Calls -> [vote : Vote, confidence : Int, form : {"float"}, text : Text]
                             \cup {None}]
    /\ refused \subseteq Calls

\* A proposal that an initiator counts is one its author has journalled with
\* the same vote and confidence, and so can be held to: it is appended before
\* the reply, and none is sent if the append fails (deliberation.py:135-137).
AnswerIsJournaled ==
    \A c \in Calls :
        caller[c] = "answered" =>
            answer[c] # None /\ journal[c] # None /\ answer[c] = Read(journal[c])

\* canonicalize of a proposal: 1 and 1.0 are the same number, but not the same
\* text.
Canonical(r) == <<r.vote, r.confidence, r.form, r.text>>

\* The default is taken over as it was configured.
TakesDefault == config.evaluator \in {"static", "exit-code"}

\* The signature of an answer verifies at the caller, who signs nothing itself
\* and has to write the proposal anew ("so the caller can verify without
\* re-fetching", transport.py, PeerProposalResponse) - except where a default
\* configured as an int is sent on as it is.
AnswerVerifies ==
    \A c \in Calls :
        (caller[c] = "answered" /\ config.key /\ ~(TakesDefault /\ DefaultForm = "int")) =>
            Canonical(answer[c]) = Canonical(reply[c])

Says(out, vote) ==
    \/ out.form = "exit" /\ (vote = "approve" <=> out.code = 0)
    \/ out.form = "object" /\ out.vote = vote

\* An evaluator that hangs, is cut off or puts out something else never votes: an
\* approval or a rejection in the journal is what the evaluator put out for this
\* very call, and before its timeout (evaluator.py:117-184, llm_evaluator.py:60-85).
\* By its exit code a command that fails, or dies of a signal, does reject.
VotesAreEvaluated ==
    \A c \in Calls :
        (config.evaluator # "static" /\ journal[c] # None /\ journal[c].vote # "abstain") =>
            work[c] = "exited" /\ Says(output[c], journal[c].vote)

\* With an LLM evaluator run_proposal fails only with its journal, or when it has
\* to sign text from the provider that UTF-8 cannot encode: no number that the
\* provider answers, not even a NaN, no missing field and no failure keeps the
\* proposal from being made (llm_evaluator.py:79-83, 205-216, against
\* signing.py:92-94).
LlmFailsOnText ==
    \A c \in Calls :
        (config.evaluator = "llm" /\ handler[c] = "failing") =>
            \/ c \in refused
            \/ /\ config.key
               /\ work[c] = "exited"
               /\ output[c].form \in {"bad", "object"} /\ output[c].text = "surrogate"

\* No call of request_proposal waits for ever, whether its request is lost or
\* the peer hangs (transport.py:150-155), and no handler evaluates for ever,
\* though its process or provider may hang (evaluator.py:121-128).
EveryCallEnds ==
    \A c \in Calls :
        /\ caller[c] = "waiting" ~> caller[c] # "waiting"
        /\ handler[c] = "evaluating" ~> handler[c] = "over"
=============================================================================
