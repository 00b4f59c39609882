\* Two devices, two requests in flight, every operation.
CONSTANTS
    Devices = {d1, d2}
    Workers = {w1, w2}
    None = None
    Ops <- AllOps
    MaxClock = 2
    MaxRows = 3
SYMMETRY Symmetry
SPECIFICATION Spec
INVARIANTS
    OneSession
    ClosedStaysOut
    NoSpentToken
    SessionIsNewest
PROPERTIES
    LogoutHoldsUnlessRaced
\* The clock and the rows are bounded, and a closed account stays closed.
CHECK_DEADLOCK FALSE
