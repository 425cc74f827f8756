SPECIFICATION MCSpec
CONSTANTS
    None = None
    Handlers = {p1, p2}
    Users = {u1}
    IPs = {i0}
    Addresses = {i1, i2}
    Ops = {"login", "logout", "switch", "admin", "delegate", "oauth", "restart"}
    Failures = FALSE
    SessionTTL = 2
    RefreshTTL = 2
    BlacklistTTL = 2
    AccessTTL = 1
    Latency = 1
    MaxSid = 2
    MaxTok = 2
    MaxTime = 3
SYMMETRY Symmetry
CHECK_DEADLOCK FALSE
INVARIANTS RevocationIsFinal DeletedUntilBlacklisted ChainKeepsBinding ExchangedOnce
