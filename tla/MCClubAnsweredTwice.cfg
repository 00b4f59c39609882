\* The leader's two clients answer the same join request at the same time.
CONSTANTS
    Clubs = {c1}
    Users = {u1, u2}
    Nobody = Nobody
    Workers = {w1, w2}
    Ops <- AnswerOps
    MaxRows = 4
SPECIFICATION Spec
PROPERTIES
    AnswerIsFinal
CHECK_DEADLOCK FALSE
