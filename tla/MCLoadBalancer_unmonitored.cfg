CONSTANTS
    Requests = {r1, r2}
    N = 2
    CounterMod = 2
    MaxAttempts = 3
    Kinds = {"none", "fresh", "upgrade"}
    ClientsFail = TRUE
    BackendsFail = TRUE
    HealthChecks = FALSE
    None = None
SPECIFICATION HSpec
PROPERTIES
    No503PastASoundBackend
    DownForGood
    NobodyIsHeldUp
SYMMETRY Symmetry
