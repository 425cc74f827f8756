SPECIFICATION MCSpec
CONSTANTS
    None = None
    Readers = {e1, e2}
    Orgs = {s1}
    Branches = {b1, b2}
    ParamName = "operational_hours"
    Lossy = TRUE
    TTL = 2
    Latency = 1
    MaxVer = 2
    One = {s1}
    Two = {p1, p2}
    Codes = {r1, r2}
    Perms = {x1, x2}
SYMMETRY Symmetry
CHECK_DEADLOCK FALSE
INVARIANTS
    TypesKept ReadWithinWindow SetRolesOutcome BoundedStaleness StaleOnlyByRace
     AccessGuarded
