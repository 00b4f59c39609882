\* Two clubs, which one account may lead together, and two accounts: a leader
\* and an heir.  MCClubSerial adds a bystander.
CONSTANTS
    Clubs = {c1, c2}
    Users = {u1, u2}
    Nobody = Nobody
SYMMETRY Symmetry
SPECIFICATION Spec
INVARIANTS
    TypeOK
    LeaderIsMember
    DeletedLeavesNothing
    ArchivedIsOrphan
PROPERTIES
    ArchivedIsFrozen
    AnswerIsFinal
    PrivateAdmission
