SPECIFICATION Spec
CONSTANTS
    x = x
    y = y
    Tracked = {1}
    Untracked = {2}
    Texts = {x, y}
    Large = {z}
    Binary = {v}
    Link = Link
    Absent = Absent
    BaseOf <- MCBaseOf
    Rejected <- MCRejected
    Identities = {i1, i2}
    Original = i1
    Gone = Gone
    MaxPatches = 1
    MaxStamp = 3
    Requests = {h1, h2}
    Deadline = 1
    MaxClock = 1
SYMMETRY Symmetric
INVARIANTS
    RemovedOnce
    DestroyedWasReviewed
    StableDiff
PROPERTIES
    UncertainStays
