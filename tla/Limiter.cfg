SPECIFICATION Spec
CONSTANTS
    Requests = {r1, r2, r3}
    Limit = 2
    Sec = 2
    NoEntry = NoEntry
INVARIANTS
    LimitKept
    Overshoot
PROPERTIES
    NotLockedOut
