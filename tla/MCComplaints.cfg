CONSTANTS
    Ids = {c1}
    Users = {u1}
    Nobody = Nobody
    Texts = {t1, t2}
    Workers = {w1, w2}
    MaxImages = 1
    MaxEvidence = 1
SPECIFICATION FairSpec
INVARIANTS
    HistoryIsPath
    ListAddsUp
    NoticesAreTrue
PROPERTIES
    EditedWhilePending
    EveryChangeTold
