SPECIFICATION MCSpec
CONSTANTS
    k1 = k1
    k2 = k2
    e1 = e1
    e2 = e2
    checker = checker
    refresh = refresh
    skills = skills
    o = o
    a1 = a1
    r1 = r1
    nothing = nothing
PROPERTIES
    BannersSettle
    StaleWorkerNoticed
CHECK_DEADLOCK FALSE
