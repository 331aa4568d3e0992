CONSTANTS
    NaN = NaN
    NotFinite = {NaN}
    NoNumber = NoNumber
    None = None
    Numbers = {120}
    DefaultVote = "approve"
    DefaultConfidence = 100
    DefaultForm = "int"
    c1 = c1
    c2 = c2
    Calls = {c1, c2}
    Kinds = {"exit-code", "json", "llm", "static"}
SPECIFICATION FairSpec
INVARIANTS
    AnswerIsJournaled
    VotesAreEvaluated
    LlmFailsOnText
    AnswerVerifies
PROPERTIES
    EveryCallEnds
CHECK_DEADLOCK FALSE
