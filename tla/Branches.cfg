CONSTANTS
    None = None
    One = {s1}
    Two = {p1, p2}
    Offices = {b2, b3}
    Kept = b1
    Defaults = {r1, r2}
SPECIFICATION Spec
SYMMETRY Symmetry
INVARIANTS LastCommitWins PrimaryIsLive WalkComplete
PROPERTIES TombstoneRight ReplacesSet
