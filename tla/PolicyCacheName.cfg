CONSTANTS
    Readers = {r1}
    Orgs = {o1}
    Branches = {b1}
    None = None
    ParamName = "teller_operating_hours"
    Lossy = FALSE
    TTL = 2
    Latency = 1
    MaxVer = 2
SPECIFICATION Spec
INVARIANT InvalidatedOnUpdate
