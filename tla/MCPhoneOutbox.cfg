SPECIFICATION Spec
CONSTANTS
    Reviews = {a}
    Replies = {}
    MaxParts = 2
    MaxVersion = 2
    Labelled = {2}
    Slots = {s1, s2}
    None = None
SYMMETRY Symmetric
INVARIANTS
    PartsInOrder
    LatestNoticed
PROPERTIES
    KeepsContract
