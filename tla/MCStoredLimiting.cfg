CONSTANTS
    Askers = {r1, r2}
    Handlers = {h1}
    Clients = {c1}
    Storages = {"hybrid", "postgres"}
    Second = 2
    MaxInt = 3
    MaxAge = 3
    MaxLag = 1
    MaxWindow = 2
    None = None
    Requested <- MCRequested
SPECIFICATION Spec
SYMMETRY AskersAreAlike
INVARIANTS
    TypeOK
    BurstBound
    ListedIsKept
    StaleOnlyByRace
    LeftoverOnlyByRace
    LocksAreInUse
PROPERTIES
    RefusedSoonAfterGrant
