CONSTANTS
    Requests = {r1}
    N = 2
    CounterMod = 2
    MaxAttempts = 2
    Kinds = {"none", "fresh"}
    ClientsFail = TRUE
    BackendsFail = TRUE
    HealthChecks = TRUE
    None = None
SPECIFICATION Spec
INVARIANTS
    TypeOK
    NobodyLeavesHoldingTheLock
PROPERTIES
    FlagsChangeHands
    EveryRequestEnds
    Recovery
    Exclusion
