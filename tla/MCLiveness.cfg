SPECIFICATION MCSpec
CONSTANTS
    p1 = p1
    p2 = p2
    r1 = r1
    s1 = s1
    s2 = s2
    a1 = a1
    user = user
    everyone = everyone
    c1 = c1
    c2 = c2
    c3 = c3
    none = none
    Projects = {p1, p2}
    Runs = {r1}
    Chains <- Pair
    NoProject = NoProject
    NoRun = NoRun
    Slots = {s1, s2}
    Interleaved = TRUE
    Ops = {"start", "launch", "close", "complete_project", "complete"}
    Faults = {"mark"}
PROPERTIES
    FinishedChainEnds
    ThreadsServed
    Recovers
CHECK_DEADLOCK FALSE
