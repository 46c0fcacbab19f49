SPECIFICATION Spec
CONSTANTS
    o = o
    s1 = s1
    p1 = p1
    p2 = p2
    r1 = r1
    r2 = r2
    Agents = {o, s1}
    Orchestrators = {o}
    Slots = {r1, r2}
    Monitors = {}
    Posts = {p1}
    NoPost = NoPost
    Todos = {"clear"}
    Rests = {"blocked", "idle"}
SYMMETRY MCSymmetry
INVARIANT NoStrandedPost
