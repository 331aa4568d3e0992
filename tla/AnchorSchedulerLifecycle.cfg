CONSTANTS
    host = host
    operator = operator
    d1 = d1
    d2 = d2
    Callers = {host}
    Adopters = {adopter}
    Domains = {d1, d2}
    HasKey = TRUE
    MaxStarts = 3
    MaxVersion = 2
SPECIFICATION FairSpec
INVARIANTS
    AtMostOneLoop
    StopDrains
    StartedMeansRunning
PROPERTIES
    LoopsAnchorInOrder
    EveryDomainTried
    EveryStopReturns
