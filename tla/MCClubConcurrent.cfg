CONSTANTS
    Clubs = {c1}
    Users = {u1, u2}
    Nobody = Nobody
    Workers = {w1, w2}
    Ops <- ConcurrentOps
    MaxRows = 4
SYMMETRY Symmetry
SPECIFICATION Spec
INVARIANTS
    RowsNeedClub
PROPERTIES
    AcceptAdmits
    CloseSucceeds
\* The system stops once every account is closed.
CHECK_DEADLOCK FALSE
