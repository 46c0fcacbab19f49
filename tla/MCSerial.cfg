SPECIFICATION MCSpec
CONSTANTS
    o = o
    s1 = s1
    p1 = p1
    p2 = p2
    r1 = r1
    r2 = r2
    Agents = {o, s1}
    Orchestrators = {o}
    Slots = {r1}
    Monitors = {}
    Posts = {p1, p2}
    NoPost = NoPost
    Todos = {"clear", "open"}
    Rests = {"blocked", "idle", "sleeping"}
SYMMETRY MCSymmetry
INVARIANTS TypeOK JobFollowsExecution NoStrandedPost
PROPERTIES TerminalIsFinal ContractHonoured
