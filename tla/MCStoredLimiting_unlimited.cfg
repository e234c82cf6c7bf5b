CONSTANTS
    Askers = {r1, r2}
    Handlers = {h1}
    Clients = {c1}
    Storages = {"hybrid"}
    Second = 2
    MaxInt = 3
    MaxAge = 3
    MaxLag = 1
    MaxWindow = 2
    None = None
    Requested <- MCRequested
SPECIFICATION Spec
INVARIANTS
    UnlimitedPass
