SPECIFICATION Spec
CONSTANTS
    Handlers = {p1, p2}
    None = None
    Users = {u1}
    IPs = {i1}
    Ops = {"login"}
    Failures = FALSE
    SessionTTL = 2
    RefreshTTL = 2
    BlacklistTTL = 2
    AccessTTL = 1
    Latency = 1
    MaxSid = 2
    MaxTok = 2
    MaxTime = 2
SYMMETRY Symmetry
INVARIANT SingleActiveSession
CHECK_DEADLOCK FALSE
