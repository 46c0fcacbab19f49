SPECIFICATION MCSpec
CONSTANTS
    a = a
    b = b
    c = c
    d = d
    t1 = t1
    t2 = t2
    t3 = t3
    Tokens = {a, b, c, d}
    Roots = {a, b}
    NoToken = NoToken
    Slots = {t1, t2, t3}
    NoSlot = NoSlot
    MaxEpoch = 2
    p1 = p1
    p2 = p2
    p3 = p3
    Pair = {p1, p2}
    Trio = {p1, p2, p3}
    Solo = {r1}
    Duo = {r1, r2}
    PairChains <- InTurn
    TrioChains <- AllThree
    NoProject = NoProject
    NoRun = NoRun
    Callers = {s1, s2}
    Alone = s0
    RaceOps = {"start", "launch", "stall", "close", "complete", "resume", "archive"}
    SerialOps = {"start", "launch", "stall", "close", "complete_project", "complete", "settle", "decide", "cancel", "release", "remove", "delete", "reopen"}
    TurnOps = {"start", "launch", "stall", "complete_project", "complete", "cancel", "remove", "delete", "deactivate"}
SYMMETRY Symmetry
INVARIANTS
    OneSuccessor
    NothingSurvivesEviction
    TruthfulCopies
PROPERTIES
    PurgedAreFinished
    PassedAreFinished
    RunsHonoured
CHECK_DEADLOCK FALSE
