\* Two requests in flight and a Redis that fails at will.
CONSTANTS
    Workers = {w1, w2}
    Ops <- AllOps
    RedisFails = TRUE
    TTL = 2
    Cooldown = 1
SPECIFICATION FairSpec
INVARIANTS
    CacheTypeOK
    OnlyKnownLeaks
PROPERTIES
    SuspensionTakesHold
    EveryRequestAnswered
