CONSTANTS
    u1 = u1  u2 = u2  u3 = u3
    Members = {u1, u2, u3}
    Nobody = Nobody
    Conns = {c1, c2}
    Owners <- AnyOwners
    Feuds <- NoneOneTwo
    Phones <- AllButOne
    MaxCrossing = 2
    MaxMessages = 1
    MaxFaults = 3
SPECIFICATION Spec
SYMMETRY Symmetry
INVARIANTS
    ListenerWhileNeeded
    DeliveredOnce
    ReachesConnections
    ReachesMembers
    BlockedHearNothing
CHECK_DEADLOCK FALSE
