SPECIFICATION FairSpec
CONSTANTS
    Jobs = {j1, j2}
    Keys = {k}
    NoKey = NoKey
    BatchSize = 2
    MaxEvents = 4
INVARIANTS
    StreamIsPrefix
PROPERTIES
    StreamCatchesUp
