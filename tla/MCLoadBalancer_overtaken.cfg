CONSTANTS
    Requests = {r1, r2}
    N = 2
    CounterMod = 2
    MaxAttempts = 2
    Kinds = {"none"}
    ClientsFail = TRUE
    BackendsFail = FALSE
    HealthChecks = TRUE
    None = None
SPECIFICATION HSpec
INVARIANTS
    RetryAvoidsCondemned
PROPERTIES
    RefusedOnlyIfOvertaken
SYMMETRY Symmetry
CONSTRAINT ChecksInOrder
