SPECIFICATION MCSpec
CONSTANTS
    None = None
    Handlers = {p1, p2}
    Clients = {c1}
    Hosts = {g1}
    Verifiers = {v1}
    Ops = {"authorize", "exchange", "update"}
    Failures = FALSE
    CodeTTL = 1
    Latency = 1
    MaxCode = 1
    MaxTime = 3
    MaxIssued = 2
SYMMETRY Symmetry
CHECK_DEADLOCK FALSE
INVARIANTS TokenMatchesCode IssuedInTime OneTokenPerExchange
PROPERTY SettledIsFinal
