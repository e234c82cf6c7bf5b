CONSTANTS
    Requests = {r1, r2}
    N = 2
    CounterMod = 2
    MaxAttempts = 3
    Kinds = {"none"}
    ClientsFail = TRUE
    BackendsFail = FALSE
    HealthChecks = TRUE
    None = None
SPECIFICATION Spec
PROPERTIES
    No503WhileAllUp
