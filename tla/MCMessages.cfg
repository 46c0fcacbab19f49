SPECIFICATION MCSpec
CONSTANTS
    a1 = a1
    w1 = w1
    w2 = w2
    close = close
    none = none
    p1 = p1
    q1 = q1
    q2 = q2
    Agents = {a1, a2}
    Other = a2
    Roster = {a1}
    User = user
    Authors = {user}
    Everyone = everyone
    Slots = {i1, i2}
    Resolvers = {s1}
    MaxPosts = 3
    MaxThreads = 2
    Kinds <- Mixed
    ReadKinds = {"unread", "directed", "tail"}
    DrainKind = "unread"
    Ops = {"delete", "organic"}
    Interleaved = FALSE
    Replacements <- SomeLists
    Appends <- SomeAppends
    Blank = none
    Closeouts = {close}
    Reports = {1, 2}
    MaxRows = 5
    Overlapping = TRUE
    Sockets = {c1, c2}
    NoSocket = none
    Entities = {p1}
    MaxAttempts = 1
    MaxQueue = 2
    MaxPins = 2
    MaxFrames = 2
    MaxFaults = 1
    Faults = {"drop", "evict", "restart"}
    SocketOps = {"logout", "manual"}
    Queries = {q1, q2}
    First = q1
    Bare = none
    Standings = {"open", "done"}
    Selects <- ByStatus
    Fetches = {i1, i2}
    Pulls = {r1}
    MaxChanges = 2
    Failures = TRUE
    PageOps = {"search", "activate", "leave"}
    Gets = {i1, i2}
    MaxWire = 2
    FlagOps = {"reconnect", "abort"}
    Workers = {a1}
    Projects = {p1, p2}
    ProjectOf <- Home
    None = none
    Loads = {i1, i2}
    MaxVersion = 2
    MaxEvents = 4
    BoardOps = {"remove", "switch", "reconnect"}
SYMMETRY Symmetry
INVARIANTS
    NothingSkipped
    DecisionsMeet
    OrderKept
    SubscriptionsAgree
    ListSettled
    PageSettled
PROPERTIES
    CompletedKept
CHECK_DEADLOCK FALSE
