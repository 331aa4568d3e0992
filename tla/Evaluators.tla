----------------------------- MODULE Evaluators -----------------------------
(***************************************************************************)
(* evaluator.py and llm_evaluator.py: how the vote and the confidence of   *)
(* an agent follow from what its evaluator's process or provider puts out. *)
(*                                                                         *)
(* Confidences are numbers in percent, or NaN or Infinity, which JSON as   *)
(* Python reads it can hold; whether they are ints or floats shows in      *)
(* their JSON.  What else may stand in their place, or be missing there,   *)
(* is NoNumber.                                                            *)
(*                                                                         *)
(* Of the text that a result takes over (the rationale with what it quotes *)
(* and the evidence) it is kept whether it holds a lone surrogate: JSON    *)
(* can bring one in by an escape, and UTF-8 cannot encode it.              *)
(***************************************************************************)
EXTENDS Integers

CONSTANTS
    Numbers,             \* numbers that an evaluator may put out
    NotFinite,           \* NaN and Infinity
    NoNumber,
    DefaultVote,         \* AgentConfig.default_vote
    DefaultConfidence,   \* AgentConfig.default_confidence
    DefaultForm          \* whether it was configured as an "int" or a "float"

Vote == {"approve", "reject", "abstain"}

Text == {"plain", "surrogate"}

ASSUME EvaluatorsAssumption ==
    /\ Numbers \subseteq Int
    /\ NotFinite \cap Int = {} /\ NoNumber \notin Int \cup NotFinite
    /\ DefaultVote \in Vote
    /\ DefaultConfidence \in 0 .. 100
    /\ DefaultForm \in {"int", "float"}

\* What comes out: the end of the process, of which only the exit code counts
\* (its output is decoded with replacements), or text; "bad" is a status that is
\* not 200, text that is not JSON, or a response without the block or the message
\* that holds the answer, and "unfit" is JSON that is no object or holds an int
\* beyond any float, so that get() or float() raises.
ExitOutputs == [form : {"exit"}, code : {0, 1}]

TextOutputs ==
    [form : {"empty", "unfit"}]
        \cup [form : {"bad"}, text : Text]
        \cup [form : {"object"},
              vote : Vote \cup {"unknown", "missing"},
              confidence : Numbers \cup NotFinite \cup {NoNumber},
              text : Text]

Result ==
    [vote : Vote, confidence : Int \cup NotFinite, form : {"int", "float"}, text : Text]

\* EvaluationResult.abstain, with a rationale that quotes some text.
AbstainWith(text) ==
    [vote |-> "abstain", confidence |-> 0, form |-> "float", text |-> text]

Abstain == AbstainWith("plain")

\* The evaluator raises.
Raises == [Abstain EXCEPT !.vote = "none"]
-----------------------------------------------------------------------------
StaticResult ==
    [vote |-> DefaultVote, confidence |-> DefaultConfidence, form |-> DefaultForm,
     text |-> "plain"]

\* parse_output "exit-code".
ParsedExitCode(out) ==
    [StaticResult EXCEPT !.vote = IF out.code = 0 THEN "approve" ELSE "reject"]

\* (mutant)
ParsedJsonAsRead(out) ==
    IF out.form = "unfit" THEN Raises
    ELSE IF out.form # "object" \/ out.vote \notin Vote THEN Abstain
    ELSE IF out.confidence = NoNumber THEN [StaticResult EXCEPT !.vote = out.vote]
    ELSE [vote |-> out.vote, confidence |-> out.confidence, form |-> "float",
          text |-> out.text]

\* parse_output "json", which makes every confidence a float, and quotes a vote
\* it does not know.
ParsedJson(out) ==
    IF out.form = "unfit" THEN Raises
    ELSE IF out.form # "object" \/ out.vote = "missing" THEN Abstain
    ELSE IF out.vote = "unknown" THEN AbstainWith(out.text)
    ELSE [vote |-> out.vote,
          confidence |-> IF out.confidence = NoNumber THEN DefaultConfidence
                                                      ELSE out.confidence,
          form |-> "float",
          text |-> out.text]

\* (mutant)
Unclamped(confidence) == confidence

\* max(0.0, min(1.0, confidence)); Python's min(1.0, nan) is 1.0.
Clamped(confidence) ==
    IF confidence \in NotFinite \/ confidence > 100 THEN 100
    ELSE IF confidence < 0 THEN 0
    ELSE confidence

\* The model's answer.  Whatever is raised on the way to it becomes an
\* abstention, which quotes an answer that is not JSON; a confidence that is no
\* number becomes 0.5.
Shaped(out) ==
    IF out.form \in {"empty", "unfit"} THEN Abstain
    ELSE IF out.form = "bad" THEN AbstainWith(out.text)
    ELSE [vote |-> IF out.vote \in {"approve", "reject"} THEN out.vote ELSE "abstain",
          confidence |-> IF out.confidence = NoNumber THEN 50 ELSE Clamped(out.confidence),
          form |-> "float",
          text |-> out.text]
=============================================================================
