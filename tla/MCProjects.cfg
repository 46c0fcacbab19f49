SPECIFICATION MCSpec
CONSTANTS
    NoProject = NoProject
    Callers = {c1, c2}
    Projects = {p1, p2}
    ChainProjects = {}
    Orchs = {o1, o2}
    Workers = {w1}
    Slots = {"t1"}
    Interleaved = FALSE
    Ops = {"activate", "deactivate", "complete", "delete", "restore", "reset", "mission", "unstage", "restage", "cancel_staging", "launch", "stage", "cancel", "deactivate_product"}
    Products = {q1, q2}
    Started = {j1, j2}
    SwitchOps = {"activate", "deactivate", "delete", "restore", "start", "stop", "complete"}
    Overlapping = TRUE
    RaceOps = {"activate", "deactivate", "stage", "restage"}
    RaceOrchs = {o1, o2, o3}
    ReopenOps = {"activate", "deactivate", "complete", "continue", "launch", "stage"}
SYMMETRY Symmetry
INVARIANTS
    SerialCrew
    CrewKept
    OneActiveEach
PROPERTIES
    SerialRunsKept
CHECK_DEADLOCK FALSE
