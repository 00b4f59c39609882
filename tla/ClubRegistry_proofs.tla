------------------------- MODULE ClubRegistry_proofs -------------------------
(***************************************************************************)
(* Proofs about ClubRegistry, for every set of clubs and users.            *)
(*                                                                         *)
(* The four invariants need each other.  An heir or a new leader is not a  *)
(* closed account because closed accounts hold no membership; an archived  *)
(* club never moves because its leader is a closed account and cannot act; *)
(* an identifier about to become a club has no rows left from another one. *)
(***************************************************************************)
EXTENDS ClubRegistry, TLAPS

IInv ==
    /\ TypeOK
    /\ LeaderIsMember
    /\ DeletedLeavesNothing
    /\ ArchivedIsOrphan
    /\ RowsNeedClub

-----------------------------------------------------------------------------
(* Type correctness. *)

LEMMA InitType == Init => TypeOK
BY NobodyIsNoUser DEF Init, TypeOK, Resolved

LEMMA ClubStepType ==
    ASSUME TypeOK, NEW u \in Users, NEW c \in Clubs, ClubStep(u, c)
    PROVE  TypeOK'
<1> USE NobodyIsNoUser DEF TypeOK, Resolved, CanAct, Leads, HasRow
<1>1. CASE \E p \in BOOLEAN : CreateClub(u, c, p)
  BY <1>1 DEF CreateClub
<1>2. CASE \E p \in BOOLEAN : UpdateClub(u, c, p)
  BY <1>2 DEF UpdateClub
<1>3. CASE DeleteClub(u, c)
  BY <1>3 DEF DeleteClub
<1>4. CASE JoinPublic(u, c)
  BY <1>4 DEF JoinPublic
<1>5. CASE RequestJoin(u, c)
  BY <1>5 DEF RequestJoin
<1>6. CASE Leave(u, c)
  BY <1>6 DEF Leave
<1>7. ASSUME NEW v \in Users, Accept(u, c, v) PROVE TypeOK'
  BY <1>7 DEF Accept
<1>8. ASSUME NEW v \in Users, Reject(u, c, v) PROVE TypeOK'
  BY <1>8 DEF Reject
<1>9. ASSUME NEW v \in Users, Remove(u, c, v) PROVE TypeOK'
  BY <1>9 DEF Remove
<1>10. ASSUME NEW v \in Users, Transfer(u, c, v) PROVE TypeOK'
  BY <1>10 DEF Transfer
<1> QED
  BY <1>1, <1>2, <1>3, <1>4, <1>5, <1>6, <1>7, <1>8, <1>9, <1>10 DEF ClubStep

LEMMA AccountStepType ==
    ASSUME TypeOK, NEW u \in Users, AccountStep(u)
    PROVE  TypeOK'
<1>1. CASE DeleteAccount(u)
  <2>1. leader' \in [Clubs -> Users \cup {Nobody}]
    BY <1>1 DEF DeleteAccount, TypeOK
  <2>2. \A c \in Clubs : (leader'[c] = Nobody) = (status'[c] \in {"absent", "deleted"})
    BY <1>1, NobodyIsNoUser DEF DeleteAccount, Led, Leads, HasRow, TypeOK
  <2> QED
    BY <1>1, <2>1, <2>2 DEF DeleteAccount, TypeOK, Resolved
<1>2. ASSUME NEW b \in BOOLEAN, SetActive(u, b) PROVE TypeOK'
  BY <1>2 DEF SetActive, TypeOK
<1> QED
  BY <1>1, <1>2 DEF AccountStep

\* Every variable keeps its type, and exactly the clubs with a row have a
\* leader.
THEOREM TypeCorrect == Spec => []TypeOK
<1>1. Init => TypeOK
  BY InitType
<1>2. TypeOK /\ [Next]_vars => TypeOK'
  <2>1. CASE Next
    BY <2>1, ClubStepType, AccountStepType DEF Next
  <2>2. CASE UNCHANGED vars
    BY <2>2 DEF vars, TypeOK
  <2> QED
    BY <2>1, <2>2
<1> QED
  BY <1>1, <1>2, PTL DEF Spec

-----------------------------------------------------------------------------
(* The inductive invariant. *)

LEMMA InitIInv == Init => IInv
<1> SUFFICES ASSUME Init PROVE IInv
  OBVIOUS
<1>1. TypeOK
  BY InitType
<1>2. LeaderIsMember /\ DeletedLeavesNothing /\ ArchivedIsOrphan /\ RowsNeedClub
  BY DEF Init, LeaderIsMember, DeletedLeavesNothing, ArchivedIsOrphan, RowsNeedClub, HasRow
<1> QED
  BY <1>1, <1>2 DEF IInv

\* What a caller may do to one club keeps the four invariants.
LEMMA ClubStepIInv ==
    ASSUME IInv, NEW u \in Users, NEW c \in Clubs, ClubStep(u, c)
    PROVE  /\ LeaderIsMember'
           /\ DeletedLeavesNothing'
           /\ ArchivedIsOrphan'
           /\ RowsNeedClub'
<1> USE DEF IInv, TypeOK, LeaderIsMember, DeletedLeavesNothing,
            ArchivedIsOrphan, RowsNeedClub, CanAct, Leads, HasRow
<1> DEFINE Goal == /\ LeaderIsMember'
                   /\ DeletedLeavesNothing'
                   /\ ArchivedIsOrphan'
                   /\ RowsNeedClub'
<1>1. ASSUME NEW p \in BOOLEAN, CreateClub(u, c, p) PROVE Goal
  BY <1>1 DEF CreateClub
<1>2. ASSUME NEW p \in BOOLEAN, UpdateClub(u, c, p) PROVE Goal
  BY <1>2 DEF UpdateClub
<1>3. CASE DeleteClub(u, c)
  BY <1>3 DEF DeleteClub
<1>4. CASE JoinPublic(u, c)
  BY <1>4 DEF JoinPublic
<1>5. CASE RequestJoin(u, c)
  BY <1>5 DEF RequestJoin
<1>6. CASE Leave(u, c)
  BY <1>6 DEF Leave
<1>7. ASSUME NEW v \in Users, Accept(u, c, v) PROVE Goal
  BY <1>7 DEF Accept
<1>8. ASSUME NEW v \in Users, Reject(u, c, v) PROVE Goal
  BY <1>8 DEF Reject
<1>9. ASSUME NEW v \in Users, Remove(u, c, v) PROVE Goal
  BY <1>9 DEF Remove
<1>10. ASSUME NEW v \in Users, Transfer(u, c, v) PROVE Goal
  BY <1>10 DEF Transfer
<1> QED
  BY <1>1, <1>2, <1>3, <1>4, <1>5, <1>6, <1>7, <1>8, <1>9, <1>10 DEF ClubStep

\* Closing an account keeps the four invariants: what it leads goes to a member
\* other than itself or is archived under its name.
LEMMA DeleteAccountIInv ==
    ASSUME IInv, NEW u \in Users, DeleteAccount(u)
    PROVE  /\ LeaderIsMember'
           /\ DeletedLeavesNothing'
           /\ ArchivedIsOrphan'
           /\ RowsNeedClub'
<1> DEFINE inherited == {c \in Led(u) : Heirs(u, c) # {}}
<1> USE DEF IInv
<1>1. PICK heir \in [inherited -> Users] :
         /\ \A c \in inherited : heir[c] \in Heirs(u, c)
         /\ leader' = [c \in Clubs |-> IF c \in inherited THEN heir[c] ELSE leader[c]]
  BY DEF DeleteAccount
<1>2. \A c \in inherited : heir[c] \in members[c] /\ heir[c] # u
  BY <1>1 DEF Heirs
<1>3. \A c \in Clubs :
        /\ members'[c] = members[c] \ {u}
        /\ status'[c] = IF c \in Led(u) \ inherited THEN "archived" ELSE status[c]
        /\ request'[c][u] = "none"
        /\ \A v \in Users \ {u} : request'[c][v] = request[c][v]
  BY DEF DeleteAccount, TypeOK
<1>4. u \notin deleted /\ deleted' = deleted \cup {u}
  BY DEF DeleteAccount, CanAct
\* The account leads no archived club: their leaders are closed already.
<1>5. \A c \in Led(u) : c \in Clubs /\ status[c] = "live" /\ leader[c] = u
  BY <1>4 DEF Led, Leads, HasRow, ArchivedIsOrphan
<1>6. \A c \in Clubs \ Led(u) : HasRow(c) => leader[c] # u
  BY DEF Led, Leads
<1>7. LeaderIsMember'
  <2> SUFFICES ASSUME NEW c \in Clubs, status'[c] = "live"
               PROVE  leader'[c] \in members'[c]
    BY DEF LeaderIsMember
  <2>1. CASE c \in inherited
    BY <1>1, <1>2, <1>3, <2>1
  <2>2. CASE c \notin inherited
    BY <1>1, <1>3, <1>6, <2>2 DEF LeaderIsMember, HasRow
  <2> QED
    BY <2>1, <2>2
<1>8. DeletedLeavesNothing'
  <2> SUFFICES ASSUME NEW v \in deleted', NEW c \in Clubs
               PROVE  /\ v \notin members'[c]
                      /\ request'[c][v] = "none"
                      /\ status'[c] = "live" => leader'[c] # v
    BY DEF DeletedLeavesNothing
  <2>1. CASE v = u
    BY <1>1, <1>2, <1>3, <1>6, <2>1 DEF HasRow
  <2>2. CASE v # u
    BY <1>1, <1>2, <1>3, <1>4, <2>2 DEF DeletedLeavesNothing, TypeOK
  <2> QED
    BY <2>1, <2>2
<1>9. ArchivedIsOrphan'
  BY <1>1, <1>3, <1>4, <1>5 DEF ArchivedIsOrphan
<1>10. RowsNeedClub'
  <2> SUFFICES ASSUME NEW c \in Clubs, ~HasRow(c)'
               PROVE  members'[c] = {} /\ \A v \in Users : request'[c][v] = "none"
    BY DEF RowsNeedClub
  <2>1. ~HasRow(c)
    BY <1>3 DEF HasRow
  <2> QED
    BY <1>3, <2>1 DEF RowsNeedClub
<1> QED
  BY <1>7, <1>8, <1>9, <1>10

LEMMA NextIInv == IInv /\ [Next]_vars => IInv'
<1> SUFFICES ASSUME IInv, [Next]_vars PROVE IInv'
  OBVIOUS
<1>1. ASSUME NEW u \in Users, NEW c \in Clubs, ClubStep(u, c) PROVE IInv'
  BY <1>1, ClubStepType, ClubStepIInv DEF IInv
<1>2. ASSUME NEW u \in Users, AccountStep(u) PROVE IInv'
  <2>1. TypeOK'
    BY <1>2, AccountStepType DEF IInv
  <2>2. CASE DeleteAccount(u)
    BY <2>1, <2>2, DeleteAccountIInv DEF IInv
  <2>3. ASSUME NEW b \in BOOLEAN, SetActive(u, b) PROVE IInv'
    BY <2>1, <2>3 DEF SetActive, IInv, LeaderIsMember, DeletedLeavesNothing,
                      ArchivedIsOrphan, RowsNeedClub, HasRow
  <2> QED
    BY <1>2, <2>2, <2>3 DEF AccountStep
<1>3. CASE UNCHANGED vars
  BY <1>3 DEF vars, IInv, TypeOK, LeaderIsMember, DeletedLeavesNothing,
              ArchivedIsOrphan, RowsNeedClub, HasRow
<1> QED
  BY <1>1, <1>2, <1>3 DEF Next

\* The inductive invariant holds of every reachable state.
THEOREM Invariance == Spec => []IInv
BY InitIInv, NextIInv, PTL DEF Spec

\* In every club that is not archived the leader is a member.
THEOREM LeaderAlwaysMember == Spec => []LeaderIsMember
<1>1. IInv => LeaderIsMember
  BY DEF IInv
<1> QED
  BY <1>1, Invariance, PTL

\* A closed account holds no membership, no request and no open club.
THEOREM NothingLeft == Spec => []DeletedLeavesNothing
<1>1. IInv => DeletedLeavesNothing
  BY DEF IInv
<1> QED
  BY <1>1, Invariance, PTL

\* Only closed accounts lead archived clubs.
THEOREM ArchivedOrphans == Spec => []ArchivedIsOrphan
<1>1. IInv => ArchivedIsOrphan
  BY DEF IInv
<1> QED
  BY <1>1, Invariance, PTL

\* No membership and no request outlives its club.
THEOREM NoOrphanRows == Spec => []RowsNeedClub
<1>1. IInv => RowsNeedClub
  BY DEF IInv
<1> QED
  BY <1>1, Invariance, PTL

-----------------------------------------------------------------------------
(* Action properties. *)

Frozen ==
    \A c \in Clubs : status[c] = "archived" =>
       /\ status'[c] = "archived"
       /\ leader'[c] = leader[c]
       /\ members'[c] \subseteq members[c]
       /\ \A u \in Users : request'[c][u] \in {request[c][u], "none"}

\* An archived club is closed for good: its leader is a closed account, so no
\* action reserved to the leader is enabled, and entering asks for a live club.
THEOREM Archived == Spec => ArchivedIsFrozen
<1>1. IInv /\ [Next]_vars => [Frozen]_vars
  <2> SUFFICES ASSUME IInv, Next PROVE Frozen
    OBVIOUS
  <2> USE DEF Frozen, IInv, TypeOK
  <2>1. ASSUME NEW u \in Users, NEW d \in Clubs, ClubStep(u, d) PROVE Frozen
    BY <2>1 DEF ClubStep, ArchivedIsOrphan, CanAct, Leads, HasRow,
                CreateClub, UpdateClub, DeleteClub, JoinPublic, RequestJoin,
                Leave, Accept, Reject, Remove, Transfer
  <2>2. ASSUME NEW u \in Users, AccountStep(u) PROVE Frozen
    <3>1. CASE DeleteAccount(u)
      <4>1. \A c \in Led(u) : status[c] # "archived"
        BY <3>1 DEF DeleteAccount, CanAct, Led, Leads, ArchivedIsOrphan
      <4> QED
        BY <3>1, <4>1 DEF DeleteAccount
    <3>2. ASSUME NEW b \in BOOLEAN, SetActive(u, b) PROVE Frozen
      BY <3>2 DEF SetActive
    <3> QED
      BY <2>2, <3>1, <3>2 DEF AccountStep
  <2> QED
    BY <2>1, <2>2 DEF Next
<1> QED
  BY <1>1, Invariance, PTL DEF Spec, ArchivedIsFrozen, Frozen

Final ==
    \A c \in Clubs, u \in Users : request[c][u] \in Resolved =>
       request'[c][u] \in {request[c][u], "none"}

Admission ==
    \A c \in Clubs : HasRow(c) /\ private[c] =>
       \A u \in members'[c] \ members[c] :
           request[c][u] = "PENDING" /\ request'[c][u] = "ACCEPTED"

\* No answer to a join request is ever revised, and nobody enters a private
\* club without one: requests served one at a time read what they overwrite.
THEOREM AnswersAndAdmission == Spec => AnswerIsFinal /\ PrivateAdmission
<1>1. TypeOK /\ [Next]_vars => [Final]_vars /\ [Admission]_vars
  <2> SUFFICES ASSUME TypeOK, Next PROVE Final /\ Admission
    OBVIOUS
  <2> USE DEF TypeOK, Resolved, HasRow
  <2>1. ASSUME NEW u \in Users, NEW d \in Clubs, ClubStep(u, d) PROVE Final
    BY <2>1 DEF Final, ClubStep, CreateClub, UpdateClub, DeleteClub, JoinPublic,
                RequestJoin, Leave, Accept, Reject, Remove, Transfer
  <2>2. ASSUME NEW u \in Users, NEW d \in Clubs, ClubStep(u, d) PROVE Admission
    BY <2>2 DEF Admission, ClubStep, CreateClub, UpdateClub, DeleteClub, JoinPublic,
                RequestJoin, Leave, Accept, Reject, Remove, Transfer
  <2>3. ASSUME NEW u \in Users, AccountStep(u) PROVE Final /\ Admission
    <3>1. CASE DeleteAccount(u)
      BY <3>1 DEF DeleteAccount, Final, Admission
    <3>2. ASSUME NEW b \in BOOLEAN, SetActive(u, b) PROVE Final /\ Admission
      BY <3>2 DEF SetActive, Final, Admission
    <3> QED
      BY <2>3, <3>1, <3>2 DEF AccountStep
  <2> QED
    BY <2>1, <2>2, <2>3 DEF Next
<1> QED
  BY <1>1, TypeCorrect, PTL DEF Spec, AnswerIsFinal, PrivateAdmission, Final, Admission
=============================================================================
