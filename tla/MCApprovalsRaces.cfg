SPECIFICATION SpecA
CONSTANTS
    o = o
    s1 = s1
    p1 = p1
    r1 = r1
    r2 = r2
    x1 = x1
    x2 = x2
    Agents = {o, s1}
    Orchestrators = {o}
    Slots = {r1, r2}
    Monitors = {}
    Posts = {}
    NoPost = NoPost
    Todos = {"clear"}
    Rests = {"blocked", "idle"}
    Approvals = {x1, x2}
    Choices = {"approve"}
    NoApproval = NoApproval
    NoAgent = NoAgent
SYMMETRY MCSymmetry
CONSTRAINT OrchestratorOnly
INVARIANT AwaitingHasPendingApproval
