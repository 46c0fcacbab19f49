SPECIFICATION MCSpec
CONSTANTS
    i1 = i1
    i2 = i2
    i3 = i3
    p1 = p1
    p2 = p2
    j1 = j1
    k1 = k1
    k2 = k2
    o1 = o1
    null = null
    PlainProducts = {p1, p2}
    PlainItems = {k1, k2}
    PlainLegacy = {k1}
    PlainTop = 3
    Members = {j1}
    Crew = {o1}
    Leads = {o1}
    MemberOf <- Sole
    Linked = {j1}
    Lines = 3
    MaxEntries = 2
    Callers = {c1, c2}
    Alone = s0
    Products = {p1}
    Items = {i1, i2, i3}
    Slots = {s1, s2}
    Top = 3
    Legacy = {}
    Ops = {"task", "project", "restore", "trash", "reap"}
    Interleaved = TRUE
    PlainOps = {"task", "project", "restore", "trash", "reap", "purge", "convert", "plan", "remove", "switch", "renumber"}
    MemoryOps = {"write", "close", "complete", "delete", "agents"}
    LedgerOps = {"write", "close", "complete", "closeout", "delete", "tune", "agents", "owe"}
SYMMETRY Symmetry
INVARIANTS
    OneCounter
    
PROPERTIES
    PlainKeepsNumber
    PlainRoadmapKept
    EntriesKept
CHECK_DEADLOCK FALSE
