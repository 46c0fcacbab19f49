SPECIFICATION MCSpec
CONSTANTS
    Agents = {o, s1}
    Orchestrators = {o}
    Slots = {h1}
    Monitors = {"health"}
    Posts = {}
    NoPost = NoPost
    Todos = {"clear"}
    Rests = {"blocked"}
    Callers = {r1, r2}
    CallerRests = {"blocked", "idle", "sleeping"}
SYMMETRY MCSymmetry
INVARIANTS
    StagingLockHeld
    LaunchedAfterStaging
    WatchedJobsFollow
