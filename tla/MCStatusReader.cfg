SPECIFICATION ReaderSpec
CONSTANTS
    Updates = {1, 2, 3}
    Commands = {1, 3}
    Scopes = {s1, s2}
    None = None
    Window = 1
    MaxClock = 2
SYMMETRY Symmetric
INVARIANTS
    NoUpdateLost
    StaleReplyStays
PROPERTIES
    KeepsContract
