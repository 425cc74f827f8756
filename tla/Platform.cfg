CONSTANTS
    None = None
    One = {s1}
    Two = {h1, h2}
    Instances = {i1, i2}
    Changes = {c1, c2, c3}
    Forwarding = TRUE
    Failures = TRUE
    Stops = TRUE
    Crashes = TRUE
    Orgs = {o1, o2}
SPECIFICATION MCSpec
SYMMETRY Symmetry
CHECK_DEADLOCK FALSE
INVARIANTS LimitExact GateExact KeysServe EventHasRow DrainedFirst
