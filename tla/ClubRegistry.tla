---------------------------- MODULE ClubRegistry ----------------------------
(***************************************************************************)
(* What the club API promises, with every request taken as one indivisible *)
(* step: who leads a club, who belongs to it, who is waiting to be let in, *)
(* and what closing an account does to all three.                          *)
(*                                                                         *)
(* The state is the part of the database those promises are about: the     *)
(* rows of club, club_member and club_join_request and two columns of      *)
(* user.  A request the API refuses (a 4xx answer) changes nothing, so it  *)
(* is a stuttering step here.  ClubHandlers.tla splits the same handlers   *)
(* into their SELECTs and their COMMIT and is shown to implement this      *)
(* module when requests are served one at a time.                          *)
(***************************************************************************)
EXTENDS FiniteSets

CONSTANTS
    Clubs,   \* identifiers the club table may hand out, each used once
    Users,   \* accounts; a user row is anonymised but never removed
    Nobody   \* the leader of an identifier that names no club

ASSUME NobodyIsNoUser == Nobody \notin Users

VARIABLES
    status,   \* status[c]: "absent" before the INSERT, "deleted" after the DELETE
    leader,   \* leader[c]: club.id_leader
    private,  \* private[c]: club.is_private
    members,  \* members[c]: users with a club_member row for c
    request,  \* request[c][u]: status of u's club_join_request row for c
    active,   \* users with is_active
    deleted   \* users anonymised by DELETE /users/me

vars == <<status, leader, private, members, request, active, deleted>>

Resolved == {"ACCEPTED", "REJECTED"}

TypeOK ==
    /\ status \in [Clubs -> {"absent", "live", "archived", "deleted"}]
    /\ leader \in [Clubs -> Users \cup {Nobody}]
    /\ private \in [Clubs -> BOOLEAN]
    /\ members \in [Clubs -> SUBSET Users]
    /\ request \in [Clubs -> [Users -> {"none", "PENDING"} \cup Resolved]]
    /\ active \in SUBSET Users
    /\ deleted \in SUBSET Users
    /\ \A c \in Clubs : (leader[c] = Nobody) = (status[c] \in {"absent", "deleted"})

Init ==
    /\ status = [c \in Clubs |-> "absent"]
    /\ leader = [c \in Clubs |-> Nobody]
    /\ private = [c \in Clubs |-> FALSE]
    /\ members = [c \in Clubs |-> {}]
    /\ request = [c \in Clubs |-> [u \in Users |-> "none"]]
    /\ active = Users
    /\ deleted = {}

HasRow(c) == status[c] \in {"live", "archived"}

\* Faulty variant: closing an account forgets its session and OAuth identity.
CanAct_KeepsSession(u) == u \in active

\* An authenticated caller.  Closing an account drops its session and its
\* OAuth identity and leaves only access tokens of at most 30 minutes, refused
\* while is_active is off.  Assumed of administrators: is_active of a closed
\* account is not switched back on before those have expired.
CanAct(u) == u \in active \ deleted

Leads(u, c) == HasRow(c) /\ leader[c] = u

-----------------------------------------------------------------------------
(* The club row. *)

\* Faulty variant: the new row carries no leader.
CreateClub_NoLeader(u, c, p) ==
    /\ CanAct(u)
    /\ status[c] = "absent"
    /\ status' = [status EXCEPT ![c] = "live"]
    /\ private' = [private EXCEPT ![c] = p]
    /\ members' = [members EXCEPT ![c] = {u}]
    /\ UNCHANGED <<leader, request, active, deleted>>

CreateClub(u, c, p) ==
    /\ CanAct(u)
    /\ status[c] = "absent"
    /\ status' = [status EXCEPT ![c] = "live"]
    /\ leader' = [leader EXCEPT ![c] = u]
    /\ private' = [private EXCEPT ![c] = p]
    /\ members' = [members EXCEPT ![c] = {u}]
    /\ UNCHANGED <<request, active, deleted>>

UpdateClub(u, c, p) ==
    /\ CanAct(u)
    /\ Leads(u, c)
    /\ private' = [private EXCEPT ![c] = p]
    /\ UNCHANGED <<status, leader, members, request, active, deleted>>

\* The foreign keys cascade: memberships and requests go with the club.
DeleteClub(u, c) ==
    /\ CanAct(u)
    /\ Leads(u, c)
    /\ status' = [status EXCEPT ![c] = "deleted"]
    /\ leader' = [leader EXCEPT ![c] = Nobody]
    /\ private' = [private EXCEPT ![c] = FALSE]
    /\ members' = [members EXCEPT ![c] = {}]
    /\ request' = [request EXCEPT ![c] = [v \in Users |-> "none"]]
    /\ UNCHANGED <<active, deleted>>

-----------------------------------------------------------------------------
(* Entering and leaving a club. *)

\* Faulty variant: the archived_at check is missing.
JoinPublic_Archived(u, c) ==
    /\ CanAct(u)
    /\ HasRow(c)
    /\ ~private[c]
    /\ u \notin members[c]
    /\ members' = [members EXCEPT ![c] = @ \cup {u}]
    /\ UNCHANGED <<status, leader, private, request, active, deleted>>

\* Faulty variant: the is_private branch is missing.
JoinPublic_AnyClub(u, c) ==
    /\ CanAct(u)
    /\ status[c] = "live"
    /\ u \notin members[c]
    /\ members' = [members EXCEPT ![c] = @ \cup {u}]
    /\ UNCHANGED <<status, leader, private, request, active, deleted>>

JoinPublic(u, c) ==
    /\ CanAct(u)
    /\ status[c] = "live"
    /\ ~private[c]
    /\ u \notin members[c]
    /\ members' = [members EXCEPT ![c] = @ \cup {u}]
    /\ UNCHANGED <<status, leader, private, request, active, deleted>>

\* Faulty variant: only the check of the handler, no unique (id_club, id_user).
RequestJoin_NotUnique(u, c) ==
    /\ CanAct(u)
    /\ status[c] = "live"
    /\ private[c]
    /\ u \notin members[c] \cup {leader[c]}
    /\ request[c][u] # "PENDING"
    /\ request' = [request EXCEPT ![c][u] = "PENDING"]
    /\ UNCHANGED <<status, leader, private, members, active, deleted>>

\* The table keeps one request per user and club, whatever its status: once a
\* request was resolved the same user cannot ask again.
RequestJoin(u, c) ==
    /\ CanAct(u)
    /\ status[c] = "live"
    /\ private[c]
    /\ u \notin members[c] \cup {leader[c]}
    /\ request[c][u] = "none"
    /\ request' = [request EXCEPT ![c][u] = "PENDING"]
    /\ UNCHANGED <<status, leader, private, members, active, deleted>>

Accept(u, c, v) ==
    /\ CanAct(u)
    /\ Leads(u, c)
    /\ request[c][v] = "PENDING"
    /\ v \notin members[c]
    /\ request' = [request EXCEPT ![c][v] = "ACCEPTED"]
    /\ members' = [members EXCEPT ![c] = @ \cup {v}]
    /\ UNCHANGED <<status, leader, private, active, deleted>>

Reject(u, c, v) ==
    /\ CanAct(u)
    /\ Leads(u, c)
    /\ request[c][v] = "PENDING"
    /\ request' = [request EXCEPT ![c][v] = "REJECTED"]
    /\ UNCHANGED <<status, leader, private, members, active, deleted>>

\* Faulty variant: the leader may leave as well.
Leave_Leader(u, c) ==
    /\ CanAct(u)
    /\ HasRow(c)
    /\ u \in members[c]
    /\ members' = [members EXCEPT ![c] = @ \ {u}]
    /\ UNCHANGED <<status, leader, private, request, active, deleted>>

Leave(u, c) ==
    /\ CanAct(u)
    /\ HasRow(c)
    /\ leader[c] # u
    /\ u \in members[c]
    /\ members' = [members EXCEPT ![c] = @ \ {u}]
    /\ UNCHANGED <<status, leader, private, request, active, deleted>>

Remove(u, c, v) ==
    /\ CanAct(u)
    /\ Leads(u, c)
    /\ v # u
    /\ v \in members[c]
    /\ members' = [members EXCEPT ![c] = @ \ {v}]
    /\ UNCHANGED <<status, leader, private, request, active, deleted>>

Transfer(u, c, v) ==
    /\ CanAct(u)
    /\ Leads(u, c)
    /\ v # u
    /\ v \in members[c]
    /\ leader' = [leader EXCEPT ![c] = v]
    /\ UNCHANGED <<status, private, members, request, active, deleted>>

-----------------------------------------------------------------------------
(* Accounts. *)

\* PATCH /users/{id}/active, by an administrator outside Users.
SetActive(v, b) ==
    /\ active' = IF b THEN active \cup {v} ELSE active \ {v}
    /\ UNCHANGED <<status, leader, private, members, request, deleted>>

\* Faulty variant: the succession query does not exclude the account itself.
Heirs_Self(u, c) == members[c] \cap active

Heirs(u, c) == {v \in members[c] \ {u} : v \in active}

Led(u) == {c \in Clubs : Leads(u, c)}

\* DELETE /users/me.  Every club the user leads goes to another active member
\* or, when there is none, is archived.  Which member inherits is left open.
DeleteAccount(u) ==
    /\ CanAct(u)
    /\ LET inherited == {c \in Led(u) : Heirs(u, c) # {}} IN
         /\ \E heir \in [inherited -> Users] :
              /\ \A c \in inherited : heir[c] \in Heirs(u, c)
              /\ leader' = [c \in Clubs |->
                              IF c \in inherited THEN heir[c] ELSE leader[c]]
         /\ status' = [c \in Clubs |-> IF c \in Led(u) \ inherited
                                       THEN "archived" ELSE status[c]]
    /\ members' = [c \in Clubs |-> members[c] \ {u}]
    /\ request' = [c \in Clubs |-> [request[c] EXCEPT ![u] = "none"]]
    /\ active' = active \ {u}
    /\ deleted' = deleted \cup {u}
    /\ UNCHANGED private

-----------------------------------------------------------------------------

ClubStep(u, c) ==
    \/ \E p \in BOOLEAN : CreateClub(u, c, p) \/ UpdateClub(u, c, p)
    \/ DeleteClub(u, c)
    \/ JoinPublic(u, c)
    \/ RequestJoin(u, c)
    \/ Leave(u, c)
    \/ \E v \in Users :
          Accept(u, c, v) \/ Reject(u, c, v) \/ Remove(u, c, v) \/ Transfer(u, c, v)

AccountStep(u) ==
    \/ DeleteAccount(u)
    \/ \E b \in BOOLEAN : SetActive(u, b)

Next ==
    \/ \E u \in Users, c \in Clubs : ClubStep(u, c)
    \/ \E u \in Users : AccountStep(u)

Spec == Init /\ [][Next]_vars

-----------------------------------------------------------------------------
(* Properties. *)

\* The leader of every club that is not archived holds a membership row in it.
\* Chat, posts and the member list read club_member, and the succession query
\* of DELETE /users/me joins on it, so a leader outside the table is lost to
\* all of them.
LeaderIsMember ==
    \A c \in Clubs : status[c] = "live" => leader[c] \in members[c]

\* Closing an account leaves nothing of the user in any club: no membership,
\* no request, no club still open under its name.
DeletedLeavesNothing ==
    \A u \in deleted, c \in Clubs :
        /\ u \notin members[c]
        /\ request[c][u] = "none"
        /\ status[c] = "live" => leader[c] # u

\* A club is archived only by the departure of its leader, and nobody inherits
\* it afterwards.
ArchivedIsOrphan ==
    \A c \in Clubs : status[c] = "archived" => leader[c] \in deleted

\* No membership and no request outlives its club.
RowsNeedClub ==
    \A c \in Clubs : ~HasRow(c) =>
        members[c] = {} /\ \A u \in Users : request[c][u] = "none"

\* An archived club is closed for good: nobody enters it, asks to enter it,
\* takes it over, reopens it or removes it; people only leave.
ArchivedIsFrozen ==
    [][\A c \in Clubs : status[c] = "archived" =>
          /\ status'[c] = "archived"
          /\ leader'[c] = leader[c]
          /\ members'[c] \subseteq members[c]
          /\ \A u \in Users : request'[c][u] \in {request[c][u], "none"}]_vars

\* The answer to a join request is final: it is never changed, and only the
\* removal of the club or of the account takes the row away.
AnswerIsFinal ==
    [][\A c \in Clubs, u \in Users : request[c][u] \in Resolved =>
          request'[c][u] \in {request[c][u], "none"}]_vars

\* Nobody enters a private club except by founding it or by having a pending
\* request accepted in the same step.
PrivateAdmission ==
    [][\A c \in Clubs : HasRow(c) /\ private[c] =>
          \A u \in members'[c] \ members[c] :
              request[c][u] = "PENDING" /\ request'[c][u] = "ACCEPTED"]_vars
=============================================================================
