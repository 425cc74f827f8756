CONSTANTS
    None = None
    One = {s1}
    Two = {h1, h2}
    Orgs = {o1}
    Sites = {a1}
    Offices = {b1, b2}
SPECIFICATION Spec
CHECK_DEADLOCK FALSE
PROPERTIES
    EventuallyFresh CallbackEnds  Delivered
