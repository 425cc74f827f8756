SPECIFICATION Spec
CONSTANTS
    Handlers = {p1, p2}
    None = None
    Users = {u1}
    IPs = {i1}
    Ops = {"login", "logout", "switch", "admin", "delegate", "oauth", "validate", "refresh", "org", "restart"}
    Failures = TRUE
    SessionTTL = 1
    RefreshTTL = 1
    BlacklistTTL = 2
    AccessTTL = 1
    Latency = 1
    MaxSid = 2
    MaxTok = 2
    MaxTime = 2
SYMMETRY Symmetry
CONSTRAINT Overlap
ACTION_CONSTRAINT RestartBound
INVARIANT SessionInv
CHECK_DEADLOCK FALSE
PROPERTIES KeepsPromise SpentIsForever
