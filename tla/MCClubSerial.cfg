CONSTANTS
    Clubs = {c1}
    Users = {u1, u2, u3}
    Nobody = Nobody
    Workers = {w1}
    Ops <- AllOps
    MaxRows = 5
SYMMETRY Symmetry
SPECIFICATION Spec
PROPERTIES
    Serial
