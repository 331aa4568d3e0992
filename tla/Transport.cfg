CONSTANTS
    self = self
    a = a
    b = b
    u = u
    v = v
    home = home
    r1 = r1
    r2 = r2
    None = None
    Agents = {self, a, b}
    Urls = {u, v, home}
    Self = self
    SelfUrl = home
    PeerLists <- MCPeerLists
    Runs = {r1, r2}
    Bearer <- MCBearer
    PeerTokens <- MCPeerTokens
    MaxHandovers = 2
SYMMETRY Symmetry
SPECIFICATION Spec
INVARIANTS
    FreshCallsReachTheirAgent
    AnswersAreAttributed
    AskedOnce
CHECK_DEADLOCK FALSE
