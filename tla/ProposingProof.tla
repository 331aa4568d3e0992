--------------------------- MODULE ProposingProof ---------------------------
(***************************************************************************)
(* Theorems about Proposing, for any number of calls, every evaluator and  *)
(* whatever numbers it puts out.                                           *)
(***************************************************************************)
EXTENDS Proposing, TLAPS

Outputs == ExitOutputs \cup TextOutputs

Emitted(c) == handler[c] \in {"answering", "failing", "over"}

\* A call's handler, process, output and journal go forward together: nothing
\* is journalled before the evaluator is over, and what is being answered is
\* what was journalled.
CallInv(c) ==
    /\ handler[c] = "none" => work[c] = "none"
    /\ ~Emitted(c) => journal[c] = None
    /\ handler[c] = "evaluating" => config.evaluator # "static"
    /\ work[c] = "exited" =>
          output[c] \in IF config.evaluator = "exit-code" THEN ExitOutputs ELSE TextOutputs
    /\ handler[c] = "answering" => journal[c] # None /\ reply[c] = journal[c]
    /\ caller[c] = "answered" => handler[c] = "over" /\ reply[c] = journal[c]
    /\ journal[c] # None /\ ~(TakesDefault /\ DefaultForm = "int") => journal[c].form = "float"

IInv ==
    /\ TypeOK
    /\ \A c \in Calls : CallInv(c)
    /\ AnswerIsJournaled
    /\ VotesAreEvaluated
    /\ LlmFailsOnText
    /\ AnswerVerifies
-----------------------------------------------------------------------------
(* What evaluators return. *)

\* Every evaluator returns a vote and a number, finite or not, or raises
\* (evaluator.py:142-184, llm_evaluator.py:205-224).
LEMMA ResultTypes ==
    /\ Abstain \in Result /\ StaticResult \in Result
    /\ \A out \in ExitOutputs : ParsedExitCode(out) \in Result
    /\ \A out \in TextOutputs : ParsedJson(out) \in Result \cup {Raises}
    /\ \A out \in TextOutputs : Shaped(out) \in Result
  <1> USE EvaluatorsAssumption DEF Result, Vote, Text
  <1>1. /\ StaticResult \in Result
        /\ \A text \in Text : AbstainWith(text) \in Result /\ Abstain \in Result
    BY DEF Abstain, AbstainWith, StaticResult
  <1>2. \A out \in ExitOutputs : ParsedExitCode(out) \in Result
    BY DEF ParsedExitCode, StaticResult
  <1>3. ASSUME NEW out \in TextOutputs PROVE ParsedJson(out) \in Result \cup {Raises}
    <2>1. CASE out.form # "object"
      BY <1>1, <2>1 DEF ParsedJson, TextOutputs
    <2>2. CASE out.form = "object"
      <3>1. /\ out.confidence \in Int \cup NotFinite \cup {NoNumber} /\ out.text \in Text
            /\ out.vote \in Vote \cup {"unknown", "missing"}
        BY <2>2 DEF TextOutputs
      <3> QED
        BY <1>1, <2>2, <3>1 DEF ParsedJson
    <2> QED
      BY <2>1, <2>2
  <1>4. ASSUME NEW out \in TextOutputs PROVE Shaped(out) \in Result
    <2>1. CASE out.form # "object"
      <3>1. out.form \in {"empty", "unfit"} \/ (out.form = "bad" /\ out.text \in Text)
        BY <2>1 DEF TextOutputs
      <3> QED
        BY <1>1, <3>1 DEF Shaped
    <2>2. CASE out.form = "object"
      <3>1. out.confidence \in Int \cup NotFinite \cup {NoNumber} /\ out.text \in Text
        BY <2>2 DEF TextOutputs
      <3> QED
        BY <2>2, <3>1 DEF Shaped, Clamped
    <2> QED
      BY <2>1, <2>2
  <1> QED
    BY <1>1, <1>2, <1>3, <1>4

\* Text that no UTF-8 can hold, in what the provider put out.
TextOf(out) == out.form \in {"bad", "object"} /\ out.text = "surrogate"

\* The LLM evaluator never raises, and what it returns can be encoded unless the
\* provider's text cannot (llm_evaluator.py:79-83, 210-216).
LEMMA ShapedSigns ==
    \A out \in TextOutputs :
        Shaped(out) # Raises /\ (Encodable(Shaped(out)) \/ TextOf(out))
  <1> SUFFICES ASSUME NEW out \in TextOutputs
               PROVE  Shaped(out) # Raises /\ (Encodable(Shaped(out)) \/ TextOf(out))
    OBVIOUS
  <1> USE EvaluatorsAssumption
  <1>1. /\ \A text : AbstainWith(text) # Raises
        /\ Encodable(AbstainWith("plain"))
    BY DEF AbstainWith, Abstain, Raises, Encodable
  <1>2. CASE out.form \in {"empty", "unfit"}
    BY <1>1, <1>2 DEF Shaped, Abstain
  <1>3. CASE out.form = "bad"
    <2>1. out.text \in Text
      BY <1>3 DEF TextOutputs
    <2>2. Shaped(out) = AbstainWith(out.text)
      BY <1>3 DEF Shaped
    <2> QED
      BY <1>1, <1>3, <2>1, <2>2 DEF TextOf, Text
  <1>4. CASE out.form = "object"
    <2>1. out.confidence \in Int \cup NotFinite \cup {NoNumber} /\ out.text \in Text
      BY <1>4 DEF TextOutputs
    <2>2. Shaped(out).confidence \in Int /\ Shaped(out).text = out.text
      BY <1>4, <2>1 DEF Shaped, Clamped
    <2>3. Shaped(out).vote \in Vote
      BY <1>4 DEF Shaped, Vote
    <2>4. Shaped(out) # Raises
      BY <2>3 DEF Raises, Abstain, AbstainWith, Vote
    <2> QED
      BY <1>4, <2>1, <2>2, <2>4 DEF Encodable, TextOf, Text
  <1> QED
    BY <1>2, <1>3, <1>4 DEF TextOutputs

\* A parsed vote that is no abstention is what the evaluator put out.
LEMMA ParsedSays ==
    /\ \A out \in ExitOutputs : Says(out, ParsedExitCode(out).vote)
    /\ \A out \in TextOutputs :
          /\ ParsedJson(out) # Raises /\ ParsedJson(out).vote # "abstain" =>
                Says(out, ParsedJson(out).vote)
          /\ Shaped(out).vote # "abstain" => Says(out, Shaped(out).vote)
  <1>1. \A out \in ExitOutputs : Says(out, ParsedExitCode(out).vote)
    <2>1. ASSUME NEW out \in ExitOutputs
          PROVE  out.form = "exit" /\ (ParsedExitCode(out).vote = "approve" <=> out.code = 0)
      BY <2>1 DEF ExitOutputs, ParsedExitCode, StaticResult
    <2> QED
      BY <2>1, Zenon DEF Says
  <1>2. \A out \in TextOutputs : Shaped(out).vote # "abstain" => Says(out, Shaped(out).vote)
    <2>1. ASSUME NEW out \in TextOutputs, out.form # "object"
          PROVE  Shaped(out).vote = "abstain"
      <3>1. out.form \in {"empty", "unfit", "bad"}
        BY <2>1 DEF TextOutputs
      <3> QED
        BY <3>1 DEF Shaped, Abstain, AbstainWith
    <2>2. ASSUME NEW out \in TextOutputs, out.form = "object"
          PROVE  Shaped(out).vote = "abstain" \/ Shaped(out).vote = out.vote
      BY <2>2 DEF Shaped
    <2>3. ASSUME NEW out \in TextOutputs, Shaped(out).vote # "abstain"
          PROVE  Says(out, Shaped(out).vote)
      BY <2>1, <2>2, <2>3 DEF Says
    <2> QED
      BY <2>3
  <1>3. \A out \in TextOutputs :
           ParsedJson(out) # Raises /\ ParsedJson(out).vote # "abstain" =>
                Says(out, ParsedJson(out).vote)
    <2>1. ASSUME NEW out \in TextOutputs, out.form # "object"
          PROVE  ParsedJson(out) = Raises \/ ParsedJson(out).vote = "abstain"
      BY <2>1 DEF TextOutputs, ParsedJson, Abstain, AbstainWith
    <2>2. ASSUME NEW out \in TextOutputs, out.form = "object"
          PROVE  ParsedJson(out).vote = "abstain" \/ ParsedJson(out).vote = out.vote
      BY <2>2 DEF ParsedJson, Abstain, AbstainWith
    <2>3. ASSUME NEW out \in TextOutputs, ParsedJson(out) # Raises,
                 ParsedJson(out).vote # "abstain"
          PROVE  Says(out, ParsedJson(out).vote)
      BY <2>1, <2>2, <2>3 DEF Says
    <2> QED
      BY <2>3
  <1> QED
    BY <1>1, <1>2, <1>3
\* What is no configured default is a float (evaluator.py:44, 181,
\* llm_evaluator.py:210).
LEMMA ResultForms ==
    /\ Abstain.form = "float"
    /\ DefaultForm # "int" => StaticResult.form = "float"
    /\ DefaultForm # "int" => \A out \in ExitOutputs : ParsedExitCode(out).form = "float"
    /\ \A out \in TextOutputs : ParsedJson(out).form = "float" /\ Shaped(out).form = "float"
  BY EvaluatorsAssumption
  DEF Abstain, AbstainWith, StaticResult, ParsedExitCode, ParsedJson, Shaped, Raises

\* A number with its form is what its canonical text shows.
LEMMA ReadVerifies ==
    ASSUME NEW r \in Result, r.form = "float"
    PROVE  Canonical(Read(r)) = Canonical(r)
  BY DEF Canonical, Read, Result
-----------------------------------------------------------------------------
(* The invariant. *)

\* One call's part of the properties.
Shown(c) ==
    /\ caller[c] = "answered" =>
          answer[c] # None /\ journal[c] # None /\ answer[c] = Read(journal[c])
    /\ (config.evaluator # "static" /\ journal[c] # None /\ journal[c].vote # "abstain") =>
          work[c] = "exited" /\ Says(output[c], journal[c].vote)
    /\ (config.evaluator = "llm" /\ handler[c] = "failing") =>
          c \in refused \/ (config.key /\ work[c] = "exited" /\ TextOf(output[c]))

LEMMA InvInit == Init => IInv
  BY DEF Init, IInv, TypeOK, CallInv, Emitted, AnswerIsJournaled, VotesAreEvaluated, LlmFailsOnText,
         AnswerVerifies

\* What a call's step does to the others: nothing.
LEMMA OtherCalls ==
    ASSUME TypeOK, NEW c \in Calls, NEW d \in Calls \ {c},
           \/ Request(c) \/ CallFails(c)
           \/ Evaluate(c) \/ CannotEvaluate(c) \/ EvaluateStatic(c)
           \/ Exit(c) \/ Handle(c)
    PROVE  /\ config' = config
           /\ caller'[d] = caller[d] /\ handler'[d] = handler[d] /\ work'[d] = work[d]
           /\ output'[d] = output[d] /\ journal'[d] = journal[d] /\ reply'[d] = reply[d]
           /\ answer'[d] = answer[d] /\ (d \in refused' <=> d \in refused)
  <1> USE DEF TypeOK, wires, evaluator, emitted, Goto
  <1>1. CASE Request(c) \/ CallFails(c)
    BY <1>1 DEF Request, CallFails, GivesUp
  <1>2. CASE Evaluate(c) \/ Exit(c)
    BY <1>2 DEF Evaluate, Exit
  <1>3. ASSUME NEW r, Emit(c, r)
        PROVE  /\ config' = config
               /\ caller'[d] = caller[d] /\ handler'[d] = handler[d]
               /\ journal'[d] = journal[d] /\ reply'[d] = reply[d]
               /\ answer'[d] = answer[d] /\ (d \in refused' <=> d \in refused)
    BY <1>3 DEF Emit, Append, AppendRaises
  <1>4. CASE CannotEvaluate(c) \/ EvaluateStatic(c)
    BY <1>4, <1>3 DEF CannotEvaluate, EvaluateStatic
  <1>5. CASE Evaluated(c) \/ EvaluatorTimesOut(c)
    BY <1>5, <1>3 DEF Evaluated, EvaluatorTimesOut, Kill
  <1>6. CASE Answer(c) \/ Fail(c)
    BY <1>6 DEF Answer, Fail
  <1> QED
    BY <1>1, <1>2, <1>4, <1>5, <1>6 DEF Handle

\* run_proposal's end, whatever the evaluator's result: it is journalled and
\* answered, or neither (deliberation.py:115-137).
LEMMA EmitNext ==
    ASSUME IInv, NEW c \in Calls, NEW r \in Result \cup {Raises}, Emit(c, r),
           handler[c] \in {"none", "evaluating"}
    PROVE  /\ config' = config /\ caller' = caller /\ answer' = answer
           /\ caller[c] # "answered"
           /\ journal' \in [Calls -> Result \cup {None}]
           /\ reply' \in [Calls -> Result \cup {None}]
           /\ handler' \in [Calls -> {"none", "evaluating", "answering", "failing", "over"}]
           /\ refused' \subseteq Calls
           /\ \/ /\ handler'[c] = "answering"
                 /\ r \in Result
                 /\ journal'[c] = r
                 /\ reply'[c] = r
              \/ /\ handler'[c] = "failing"
                 /\ journal'[c] = None
                 /\ c \in refused' \/ r = Raises \/ (config.key /\ ~Encodable(r))
  <1>1. TypeOK /\ CallInv(c)
    BY DEF IInv
  <1> USE <1>1 DEF TypeOK, CallInv, Emitted, Goto, wires
  <1>2. CASE r # Raises /\ Signs(r)
    <2>1. CASE Append(c, r)
      BY <1>2, <2>1 DEF Emit, Append
    <2>2. CASE AppendRaises(c, r)
      BY <1>2, <2>2 DEF Emit, AppendRaises
    <2> QED
      BY <1>2, <2>1, <2>2 DEF Emit
  <1>3. CASE ~(r # Raises /\ Signs(r))
    BY <1>3 DEF Emit, Signs
  <1> QED
    BY <1>2, <1>3

\* One call's step keeps its part of the invariant.
LEMMA ShownNext ==
    ASSUME IInv, NEW c \in Calls,
           \/ Request(c) \/ CallFails(c)
           \/ Evaluate(c) \/ CannotEvaluate(c) \/ EvaluateStatic(c)
           \/ Exit(c) \/ Handle(c)
    PROVE  TypeOK' /\ CallInv(c)' /\ Shown(c)'
  <1>a. TypeOK /\ CallInv(c) /\ Shown(c)
    BY DEF IInv, Shown, TextOf, AnswerIsJournaled, VotesAreEvaluated, LlmFailsOnText
  <1>b. None \notin Result /\ Raises \notin Result
    BY ProposingAssumption DEF Result, Raises, Abstain, AbstainWith, Vote
  <1> USE <1>a DEF TypeOK, CallInv, Emitted, TakesDefault, Goto, wires, evaluator, emitted
  <1>1. CASE Request(c)
    BY <1>1 DEF Request, Shown
  <1>2. CASE CallFails(c)
    BY <1>2 DEF CallFails, GivesUp, Shown
  <1>3. CASE Evaluate(c)
    BY <1>3, <1>b DEF Evaluate, Arrived, Shown
  <1>4. CASE Exit(c)
    BY <1>4 DEF Exit, Shown
  <1>5. CASE CannotEvaluate(c)
    <2>1. Emit(c, Abstain) /\ handler[c] = "none" /\ UNCHANGED <<work, output>>
      BY <1>5 DEF CannotEvaluate, Arrived
    <2>2. Abstain # Raises /\ Encodable(Abstain) /\ Abstain.vote = "abstain"
      BY EvaluatorsAssumption DEF Abstain, AbstainWith, Raises, Encodable
    <2> QED
      BY <2>1, <2>2, <1>b, ResultTypes, ResultForms, EmitNext DEF Shown
  <1>6. CASE EvaluateStatic(c)
    <2>1. Emit(c, StaticResult) /\ handler[c] = "none" /\ config.evaluator = "static"
          /\ UNCHANGED <<work, output>>
      BY <1>6 DEF EvaluateStatic, Arrived
    <2> QED
      BY <2>1, <1>b, EvaluatorsAssumption, ResultTypes, ResultForms, EmitNext DEF Shown
  <1>7. CASE Evaluated(c)
    <2>1. Emit(c, Parsed(c)) /\ handler[c] = "evaluating" /\ work[c] = "exited"
          /\ UNCHANGED <<work, output>>
      BY <1>7 DEF Evaluated
    <2>2. config.evaluator \in {"exit-code", "json", "llm"}
      BY <2>1, ProposingAssumption
    <2>3. /\ Parsed(c) \in Result \cup {Raises}
          /\ Parsed(c) # Raises /\ Parsed(c).vote # "abstain" => Says(output[c], Parsed(c).vote)
          /\ config.evaluator = "llm" =>
                Parsed(c) # Raises /\ (Encodable(Parsed(c)) \/ TextOf(output[c]))
          /\ ~(TakesDefault /\ DefaultForm = "int") => Parsed(c).form = "float"
      BY <2>1, <2>2, ResultTypes, ResultForms, ParsedSays, ShapedSigns DEF Parsed, Output
    <2> QED
      BY <2>1, <2>2, <2>3, <1>b, EmitNext DEF Shown
  <1>8. CASE EvaluatorTimesOut(c)
    <2>1. Emit(c, Abstain) /\ handler[c] = "evaluating" /\ UNCHANGED output
          /\ work' = [work EXCEPT ![c] = "killed"]
      BY <1>8 DEF EvaluatorTimesOut, Due, Kill
    <2>2. Abstain # Raises /\ Encodable(Abstain) /\ Abstain.vote = "abstain"
      BY EvaluatorsAssumption DEF Abstain, AbstainWith, Raises, Encodable
    <2> QED
      BY <2>1, <2>2, <1>b, ResultTypes, ResultForms, EmitNext DEF Shown
  <1>9. CASE Answer(c)
    <2>1. reply[c] \in Result /\ reply[c] = journal[c]
      BY <1>9, <1>b DEF Answer
    <2>2. Encodable(reply[c]) =>
             /\ Read(reply[c]) \in
                   [vote : Vote, confidence : Int, form : {"float"}, text : Text]
             /\ Read(reply[c]) # None
      BY <2>1, <1>b DEF Result, Read, Encodable
    <2> QED
      BY <1>9, <2>1, <2>2, <1>b DEF Answer, Shown
  <1>10. CASE Fail(c)
    BY <1>10 DEF Fail, Shown
  <1> QED
    BY <1>1, <1>2, <1>3, <1>4, <1>5, <1>6, <1>7, <1>8, <1>9, <1>10 DEF Handle

LEMMA InvNext == IInv /\ [Next]_vars => IInv'
  <1> SUFFICES ASSUME IInv, [Next]_vars PROVE IInv'
    OBVIOUS
  <1>1. ASSUME NEW c \in Calls,
               \/ Request(c) \/ CallFails(c)
               \/ Evaluate(c) \/ CannotEvaluate(c) \/ EvaluateStatic(c)
               \/ Exit(c) \/ Handle(c)
        PROVE  IInv'
    <2>1. TypeOK' /\ CallInv(c)' /\ Shown(c)'
      BY <1>1, ShownNext
    <2>2. ASSUME NEW d \in Calls \ {c} PROVE CallInv(d)' /\ Shown(d)'
      <3>1. CallInv(d) /\ Shown(d)
        BY DEF IInv, Shown, TextOf, AnswerIsJournaled, VotesAreEvaluated, LlmFailsOnText
      <3>2. /\ config' = config
            /\ caller'[d] = caller[d] /\ handler'[d] = handler[d] /\ work'[d] = work[d]
            /\ output'[d] = output[d] /\ journal'[d] = journal[d] /\ reply'[d] = reply[d]
            /\ answer'[d] = answer[d] /\ (d \in refused' <=> d \in refused)
        BY <1>1, OtherCalls DEF IInv
      <3> QED
        BY <3>1, <3>2 DEF CallInv, Emitted, TakesDefault, Shown
    <2>3. \A d \in Calls : CallInv(d)' /\ Shown(d)'
      BY <2>1, <2>2
    <2>4. AnswerVerifies'
      <3> SUFFICES ASSUME NEW d \in Calls, caller'[d] = "answered",
                          ~(TakesDefault' /\ DefaultForm = "int")
                   PROVE  Canonical(answer'[d]) = Canonical(reply'[d])
        BY DEF AnswerVerifies, Canonical
      <3>1. /\ journal'[d] # None /\ journal'[d].form = "float"
            /\ reply'[d] = journal'[d] /\ answer'[d] = Read(journal'[d])
        BY <2>3 DEF CallInv, Shown
      <3>2. journal'[d] \in Result
        BY <2>1, <3>1 DEF TypeOK
      <3> QED
        BY <3>1, <3>2, ReadVerifies
    <2> QED
      BY <2>1, <2>3, <2>4
      DEF IInv, Shown, TextOf, AnswerIsJournaled, VotesAreEvaluated, LlmFailsOnText
  <1>2. CASE UNCHANGED vars
    BY <1>2
    DEF vars, wires, evaluator, emitted, IInv, TypeOK, CallInv, Emitted, AnswerIsJournaled,
        VotesAreEvaluated, LlmFailsOnText, AnswerVerifies, TakesDefault
  <1> QED
    BY <1>1, <1>2 DEF Next

\* The invariant from which the others follow (deliberation.py:63-137).
THEOREM ProposingInvariance == Spec => []IInv
  BY InvInit, InvNext, PTL DEF Spec

\* Every variable holds a value of its kind, whatever the evaluators put out.
THEOREM ProposingTypes == Spec => []TypeOK
  <1>1. IInv => TypeOK
    BY DEF IInv
  <1> QED
    BY <1>1, ProposingInvariance, PTL

\* What an initiator counts, its author has journalled.
THEOREM AnswersAreJournaled == Spec => []AnswerIsJournaled
  <1>1. IInv => AnswerIsJournaled
    BY DEF IInv
  <1> QED
    BY <1>1, ProposingInvariance, PTL

\* No failure, timeout or foreign output becomes an approval or a rejection.
THEOREM VotesComeFromEvaluators == Spec => []VotesAreEvaluated
  <1>1. IInv => VotesAreEvaluated
    BY DEF IInv
  <1> QED
    BY <1>1, ProposingInvariance, PTL

\* Whatever the evaluator puts out, its author's signature verifies at the
\* caller, unless a default configured as an int was sent on.
THEOREM AnswersVerify == Spec => []AnswerVerifies
  <1>1. IInv => AnswerVerifies
    BY DEF IInv
  <1> QED
    BY <1>1, ProposingInvariance, PTL

\* Whatever number the provider answers, an LLM evaluator's proposal is made and
\* signed, unless the journal refuses it or the provider's text cannot be encoded.
THEOREM LlmProposalsFailOnText == Spec => []LlmFailsOnText
  <1>1. IInv => LlmFailsOnText
    BY DEF IInv
  <1> QED
    BY <1>1, ProposingInvariance, PTL
=============================================================================
