SPECIFICATION Spec
CONSTANTS
    j1 = j1
    j2 = j2
    a = a
    b = b
    Jobs = {j1, j2}
    Contents = {a, b}
    ApprovedOf <- MCApprovedOf
    Base = Base
    Foreign = Foreign
    Requests = {h1, h2}
    NoJob = NoJob
SYMMETRY Symmetric
INVARIANTS
    AppliedOnce
    CompletedIsApproved
PROPERTIES
    InterruptedStays
