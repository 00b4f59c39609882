CONSTANTS
    Jobs = {j1, j2}
    Nobody = Nobody
    Users = {u1, u2}
    Names = {n1, n2}
    Sockets = {s1, s2}
    Pool = 2
SPECIFICATION FairSpec
INVARIANTS
    FreezesOnlyOnConflict
PROPERTIES
    FrozenForGood
    Answered
CHECK_DEADLOCK FALSE
