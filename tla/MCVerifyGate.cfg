SPECIFICATION GateSpec
CONSTANTS
    Contents = {a, b, s, e}
    Secret = {s}
    Incomplete = {e}
    None = None
    Commands = {k1, k2}
    Requests = {h1, h2, h3}
    MaxRounds = 1
SYMMETRY Symmetric
INVARIANTS
    ReadyIsVerified
    CheckedOnce
PROPERTIES
    PassedMeansUnmoved
