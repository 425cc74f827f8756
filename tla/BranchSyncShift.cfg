CONSTANTS
    Pollers = {p1}
    None = None
    Order <- ThreeBranches
    Codes = {"k1", "k2", "k3"}
    PerPage = 2
    MaxChanges = 1
    Midpass = TRUE
    Empties = FALSE
    CodeReuse = FALSE
SPECIFICATION Spec
PROPERTY TombstoneRight
