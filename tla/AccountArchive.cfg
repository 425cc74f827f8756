CONSTANTS
    Handlers = {h1}
    None = None
    Initial = p0
    Passwords = {p1, p2}
    Tokens = {t1}
    HistoryCount = 1
    Ops = {"create", "change"}
    TokenColumn = TRUE
    Failures = FALSE
SPECIFICATION Spec
SYMMETRY Symmetry
INVARIANTS ArchiveSucceeds
