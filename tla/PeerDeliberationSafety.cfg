CONSTANTS
    me = me
    p1 = p1
    p2 = p2
    p3 = p3
    c1 = c1
    c2 = c2
    Agents <- TwoPeers
    Self = me
    Weight <- UnevenWeight
    Tier = "partially_reversible"
    VetoHolders <- NoHolders
    Conditions = {c1, c2}
    Offers <- PlainOffers
    Funded = TRUE
    MaxParticipants = 8
    MaxRounds = 4
    NoOne = NoOne
SYMMETRY Symmetry
SPECIFICATION Spec
INVARIANTS
    JustifiedRevisions
    EveryAnswerIsAsked
    NeverRetested
    EveryRoundMoves
    CreditMatchesTranscript
    JournalExplainsDecision
    GossipIsDurable
    SettlementIsEarned
PROPERTIES
    VotesOnlySoften
CHECK_DEADLOCK FALSE
