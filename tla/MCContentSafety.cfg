CONSTANTS
    Users = {u1, u2}
    Items = {x1}
    Workers = {w1, w2}
SPECIFICATION Spec
SYMMETRY Symmetry
INVARIANTS
    HiddenStaysHidden
    OneDecision
    RemovalOnRecord
PROPERTIES
    ClosedStaysClosed
    SanctionsApplied
