CONSTANTS
    Users = {u1, u2}
    Nobody = Nobody
    Rows = {r1, r2}
    Kinds = {"post", "comment", "like", "event"}
    Workers = {w1, w2}
    Ops <- AllOps
    MaxKeys = 2
SPECIFICATION Spec
SYMMETRY Symmetry
INVARIANTS
    OnlyRacesLeave
    KeysNameObjects
CHECK_DEADLOCK FALSE
