CONSTANTS
    Handlers = {h1, h2}
    Clients = {c1}
    Second = 2
    MaxInt = 8
    MaxAge = 4
    MaxWindow = 4
    None = None
    Requested <- MCRequested
SPECIFICATION Spec
INVARIANTS
    TypeOK
    BurstBound
    NothingLost
    ListedIsEnforced
PROPERTIES
    EmptyBucketRefills
