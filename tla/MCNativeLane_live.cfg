SPECIFICATION FairSpec
CONSTANTS
    p1 = p1
    a1 = a1
    Jobs = {j1}
    Projects = {p1}
    Profiles = {a1}
    ProjectOf <- MCProjectOf
    ProfileOf <- MCProfileOf
    Handlers = {h1}
    NoJob = NoJob
    MaxRevision = 3
    MaxOwner = 2
    MaxEvents = 1
CHECK_DEADLOCK FALSE
PROPERTIES
    CancelEndsSupervision
