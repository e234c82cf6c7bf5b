CONSTANTS
    Requests = {r1}
    N = 2
    CounterMod = 2
    MaxAttempts = 3
    Kinds = {"fresh"}
    ClientsFail = FALSE
    BackendsFail = TRUE
    HealthChecks = TRUE
    None = None
SPECIFICATION Spec
PROPERTIES
    OnlyFailingBackendsAreMarked
