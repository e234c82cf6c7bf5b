CONSTANTS
    Targets = {b1}
    Conns = {r1}
    Timeouts = {3}
    Intervals = {15}
    MonitorGrace = 4
    ServerGrace = 5
    TotalGrace = 15
SPECIFICATION Spec
INVARIANTS
    NoRequestLost
CHECK_DEADLOCK FALSE
