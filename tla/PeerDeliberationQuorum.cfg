CONSTANTS
    me = me
    p1 = p1
    p2 = p2
    p3 = p3
    c1 = c1
    c2 = c2
    Agents <- TwoPeers
    Self = me
    Weight <- EqualWeight
    Tier = "partially_reversible"
    VetoHolders <- NoHolders
    Conditions = {c1}
    Offers <- PlainOffers
    Funded = FALSE
    MaxParticipants = 8
    MaxRounds = 3
    NoOne = NoOne
SPECIFICATION Spec
INVARIANTS
    QuorumEnforced
CHECK_DEADLOCK FALSE
