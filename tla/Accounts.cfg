CONSTANTS
    None = None
    One = {s1}
    Two = {h1, h2}
    Initial = p0
    Other = p1
    Another = p2
    Tokens = {t1, t2}
SPECIFICATION Spec
SYMMETRY Symmetry
CHECK_DEADLOCK FALSE
INVARIANTS
    TypeOK ForcedChange RecoverySpent  Overshoot   
