CONSTANTS
    self = self
    peer = peer
    s1 = s1
    s2 = s2
    s3 = s3
    None = None
    Self = self
    Peers = {peer}
    Own = {"own"}
    Foreign = {"foreign"}
    Domains = {"code", "tests"}
    DomainOf <- MCDomainOf
    Successes = {s1, s2, s3}
    Decimals <- MCDecimals
    Times = {1, 2}
    MaxReports = 3
SYMMETRY Symmetry
SPECIFICATION Spec
INVARIANTS
    HashFixesScores
    ReplayAgrees
CHECK_DEADLOCK FALSE
