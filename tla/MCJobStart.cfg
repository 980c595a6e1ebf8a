SPECIFICATION Spec
CONSTANTS
    Requests = {h1, h2}
    Checkouts = {c1, c2}
    Gone = Gone
    MaxMade = 3
    Planners = {p1, p2}
    Tries = 5
SYMMETRY Symmetric
INVARIANTS
    BoundWasWhole
    RollbackRemovesOwn
    PlannedOnce
