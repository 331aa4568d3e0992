CONSTANTS
    a = a
    b = b
    right = right
    wrong = wrong
    None = None
    Clients = {a, b}
    Tokens = {right, wrong, None}
    Bearer = right
    SigningKey = TRUE
    Acb = FALSE
    Max = 2
    Window = 3
SPECIFICATION FairSpec
INVARIANTS
    AtMostTwice
    RefusalsAreEarned
    WritesAreAuthorised
PROPERTIES
    EveryClientGetsThrough
