CONSTANTS
    u1 = u1
    u2 = u2
    stranger = stranger
    looker = c1
    marker = c2
    None = None
    Callers = {c1, c2}
    N = 3
    CounterMod = 3
    MaxConnections = 0
    Urls = {u1, u2}
    UrlOf <- TwoUrls
SPECIFICATION HSpec
INVARIANTS
    RingOrder
PROPERTY
    MarksAreAtomicWrites
CHECK_DEADLOCK FALSE
