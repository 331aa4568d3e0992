CONSTANTS
    host = host
    operator = operator
    d1 = d1
    d2 = d2
    Callers = {host, operator}
    Adopters = {adopter}
    Domains = {d1, d2}
    HasKey = TRUE
    MaxStarts = 2
    MaxVersion = 1
SPECIFICATION Spec
INVARIANTS
    StartedMeansRunning
