SPECIFICATION Spec
CONSTANTS
    p1 = p1
    a1 = a1
    Jobs = {j1, j2}
    Projects = {p1}
    Profiles = {a1}
    ProjectOf <- MCProjectOf
    ProfileOf <- MCProfileOf
    Handlers = {h1, h2}
    NoJob = NoJob
    MaxRevision = 3
    MaxOwner = 2
    MaxEvents = 1
SYMMETRY Symmetric
CHECK_DEADLOCK FALSE
INVARIANTS
    SingleWriter
    WriterHoldsLane
    CancelWins
    RevocationSticks
    LaunchedOnce
PROPERTIES
    SettledIsLast
