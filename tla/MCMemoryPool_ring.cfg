CONSTANTS
    u1 = u1
    u2 = u2
    stranger = stranger
    looker = c1
    marker = c2
    None = None
    Callers = {c1, c2}
    N = 3
    CounterMod = 4
    MaxConnections = 1
    Urls = {u1, u2, stranger}
    UrlOf <- TwoUrls
SPECIFICATION RolesSpec
INVARIANTS
    TypeOK
    RingOrder
    NoFalseUnhealthy
    NoDeadPick
    LeastLoaded
CHECK_DEADLOCK FALSE
