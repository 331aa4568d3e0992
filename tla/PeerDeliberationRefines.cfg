CONSTANTS
    me = me
    p1 = p1
    p2 = p2
    p3 = p3
    c1 = c1
    c2 = c2
    Agents <- ThreePeers
    Self = me
    Weight <- EqualWeight
    Tier = "reversible"
    VetoHolders <- OneHolder
    Conditions = {c1}
    Offers <- PlainOffers
    Funded = TRUE
    MaxParticipants = 3
    MaxRounds = 3
    NoOne = NoOne
SPECIFICATION FairSpec
PROPERTIES
    ImplementsDeliberation
    Terminates
CHECK_DEADLOCK FALSE
