SPECIFICATION Spec
CONSTANTS
    Contents = {a, b}
    Secret = {}
    Incomplete = {}
    None = None
    Commands = {k1, k2}
    Requests = {h1}
    MaxRounds = 2
    Reviewers = {v1, v2}
    Ttl = 1
    RetentionDays = 1
    MaxClock = 2
SYMMETRY Symmetric
INVARIANTS
    ReviewConsistent
    ApprovedWasVerified
    OutcomeBindsReview
PROPERTIES
    HistoryFrozen
