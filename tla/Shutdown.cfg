CONSTANTS
    Targets = {b1, b2}
    Conns = {r1, r2}
    Timeouts = {0, 1, 3, 4}
    Intervals = {0, 1, 2, 4, 5}
    MonitorGrace = 4
    ServerGrace = 5
    TotalGrace = 15
SPECIFICATION Spec
INVARIANTS
    TypeOK
    QuietAfterStop
    StopIsInTime
    ExitsInTime
PROPERTIES
    CyclesDoNotOverlap
    LostOnlyAfterGrace
    ComesToRest
    SignalEndsProcess
    KeepsChecking
CHECK_DEADLOCK FALSE
