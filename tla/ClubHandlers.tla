---------------------------- MODULE ClubHandlers ----------------------------
(***************************************************************************)
(* The club and account handlers as the server runs them: each request     *)
(* holds a database session of its own, reads with one SELECT per step     *)
(* (READ COMMITTED: each SELECT sees what is committed at that moment) and *)
(* writes once, at its COMMIT, from what it read.  Several requests are in *)
(* flight at a time, one per worker.  No handler locks a row, so the only  *)
(* protection at COMMIT is what the tables enforce: the unique             *)
(* (id_club, id_user) pairs, the foreign keys, and the ORM's refusal to    *)
(* UPDATE a row that is gone.                                              *)
(*                                                                         *)
(* def handlers run in the thread pool and interleave anywhere.  async     *)
(* handlers share the event loop: DELETE /users/me does not await between  *)
(* reading the clubs to hand over and its COMMIT, so in that section no    *)
(* other async handler takes a step.                                       *)
(***************************************************************************)
EXTENDS Integers, FiniteSets

CONSTANTS
    Clubs, Users, Nobody,
    Workers,  \* requests the server may have in flight at a time
    Ops,      \* the operations the callers use
    MaxRows   \* bound: rows inserted into club_member and club_join_request

ASSUME HandlersAssumption ==
    /\ Nobody \notin Users
    /\ MaxRows \in Nat

VARIABLES
    status, leader, private,  \* the club rows, as in ClubRegistry
    member,   \* member[c][u]: primary key of u's club_member row, 0 when none
    request,  \* request[c][u]: u's club_join_request row, NoRequest when none
    active, deleted,
    lastRow,  \* the last primary key handed out
    job       \* job[w]: the request worker w is serving

db == <<status, leader, private, member, request, active, deleted, lastRow>>
vars == <<db, job>>

AllOps == {"create", "update", "delete", "join", "accept", "reject",
           "leave", "remove", "transfer", "close", "set_active"}
LeaderOps == {"update", "delete", "accept", "reject", "remove", "transfer"}
AsyncOps == {"create", "update", "delete", "close"}

NoRequest == [id |-> 0, status |-> "none"]

Idle == [pc |-> "idle"]

\* A call as the router hands it over.  target is the other user the call is
\* about, flag the boolean it carries.
Calls ==
    [op : {"create"}, actor : Users, club : {Nobody}, target : {Nobody}, flag : BOOLEAN]
    \cup
    [op : {"update"}, actor : Users, club : Clubs, target : {Nobody}, flag : BOOLEAN]
    \cup
    [op : {"delete", "join", "leave"}, actor : Users, club : Clubs, target : {Nobody}, flag : {FALSE}]
    \cup
    [op : {"accept", "reject", "remove", "transfer"},
     actor : Users, club : Clubs, target : Users, flag : {FALSE}]
    \cup
    [op : {"close"}, actor : Users, club : {Nobody}, target : {Nobody}, flag : {FALSE}]
    \cup
    [op : {"set_active"}, actor : {Nobody}, club : {Nobody}, target : Users, flag : BOOLEAN]

Init ==
    /\ status = [c \in Clubs |-> "absent"]
    /\ leader = [c \in Clubs |-> Nobody]
    /\ private = [c \in Clubs |-> FALSE]
    /\ member = [c \in Clubs |-> [u \in Users |-> 0]]
    /\ request = [c \in Clubs |-> [u \in Users |-> NoRequest]]
    /\ active = Users
    /\ deleted = {}
    /\ lastRow = 0
    /\ job = [w \in Workers |-> Idle]

HasRow(c) == status[c] \in {"live", "archived"}

MembersOf(c) == {u \in Users : member[c][u] # 0}

-----------------------------------------------------------------------------
(* Progress of one request.                                                *)

\* Faulty variant: an await between reading the led clubs and the COMMIT.
InSection_Awaits(w) == FALSE

\* The section of DELETE /users/me that runs without an await.
InSection(w) == job[w].pc \in {"heirs", "commit"} /\ job[w].op = "close"

\* A worker runs unless its handler is async and another one holds the loop.
MayRun(w) ==
    job[w].op \in AsyncOps =>
        \A v \in Workers \ {w} : job[v] = Idle \/ ~InSection(v)

At(w, pc) == job[w].pc = pc /\ MayRun(w)

Goto(w, pc) == job' = [job EXCEPT ![w].pc = pc]

\* The answer is sent, whatever it is, and the session closed.
Reply(w) == job' = [job EXCEPT ![w] = Idle]

\* get_current_user: only an active account with a session gets to a handler
\* (CanAct of ClubRegistry; AuthCache looks at the entries this rests on).
\* Rows are a bounded resource of the model: calls that insert one start only
\* while MaxRows leaves room for all of them.
Begin(w) ==
    /\ job[w].pc = "idle"
    /\ \E call \in Calls :
         /\ call.op \in Ops
         /\ call.op # "set_active" => call.actor \in active \ deleted
         /\ call.op \in {"create", "join", "accept"} =>
                lastRow + Cardinality(Workers) <= MaxRows
         /\ job' = [job EXCEPT ![w] =
              [pc |-> IF call.op \in {"create", "set_active"} THEN "commit" ELSE "load",
               op |-> call.op, actor |-> call.actor, club |-> call.club,
               target |-> call.target, flag |-> call.flag,
               row |-> 0, seen |-> FALSE, heir |-> [c \in {} |-> Nobody]]]
    /\ UNCHANGED db

-----------------------------------------------------------------------------
(* The SELECTs.                                                            *)

\* The checks a handler makes on the club row it has just read.  The private
\* branch of join_club compares the leader with the caller as well.
Admits(c, j) ==
    /\ HasRow(c)
    /\ j.op \in LeaderOps => leader[c] = j.actor
    /\ j.op \in {"remove", "transfer"} => j.target # leader[c]
    /\ j.op = "leave" => leader[c] # j.actor
    /\ j.op = "join" => status[c] = "live" /\ (private[c] => leader[c] # j.actor)

AfterLoad(op) ==
    CASE op \in {"update", "delete"} -> "commit"
      [] op \in {"accept", "reject"} -> "request"
      [] op \in {"join", "leave", "remove", "transfer"} -> "member"

LoadClub(w) ==
    LET j == job[w] IN
    /\ At(w, "load")
    /\ j.op # "close"
    /\ IF Admits(j.club, j)
       THEN job' = [job EXCEPT ![w].pc = AfterLoad(j.op), ![w].seen = private[j.club]]
       ELSE Reply(w)
    /\ UNCHANGED db

\* The user whose club_member row the handler looks for.
Subject(j) == IF j.op \in {"join", "leave"} THEN j.actor ELSE j.target

LoadMember(w) ==
    LET j == job[w]
        row == member[j.club][Subject(j)]
    IN
    /\ At(w, "member")
    /\ IF (row = 0) = (j.op = "join")
       THEN job' = [job EXCEPT
                      ![w].pc = IF j.op = "join" /\ j.seen THEN "pending" ELSE "commit",
                      ![w].row = row]
       ELSE Reply(w)
    /\ UNCHANGED db

\* request_join_club refuses only a request that is still pending.
LoadPending(w) ==
    /\ At(w, "pending")
    /\ IF request[job[w].club][job[w].actor].status = "PENDING"
       THEN Reply(w)
       ELSE Goto(w, "commit")
    /\ UNCHANGED db

\* Faulty variant: the status of the request is not looked at.
LoadRequest_AnyStatus(w) ==
    LET row == request[job[w].club][job[w].target] IN
    /\ At(w, "request")
    /\ IF row # NoRequest
       THEN job' = [job EXCEPT ![w].pc = "commit", ![w].row = row.id]
       ELSE Reply(w)
    /\ UNCHANGED db

LoadRequest(w) ==
    LET row == request[job[w].club][job[w].target] IN
    /\ At(w, "request")
    /\ IF row.status = "PENDING"
       THEN job' = [job EXCEPT ![w].pc = "commit", ![w].row = row.id]
       ELSE Reply(w)
    /\ UNCHANGED db

\* DELETE /users/me: the clubs led by the account, read after the awaits that
\* remove its pictures from storage.
LoadLed(w) ==
    LET led == {c \in Clubs : HasRow(c) /\ leader[c] = job[w].actor} IN
    /\ At(w, "load")
    /\ job[w].op = "close"
    /\ job' = [job EXCEPT ![w].pc = "heirs", ![w].heir = [c \in led |-> Nobody]]
    /\ UNCHANGED db

\* The active member who joined first, Nobody when there is none.  The order
\* of joined_at is taken to be the order of the primary keys.
FirstToJoin(c, u) ==
    LET heirs == (MembersOf(c) \ {u}) \cap active IN
    IF heirs = {} THEN {Nobody}
    ELSE {v \in heirs : \A x \in heirs : member[c][v] <= member[c][x]}

PickHeirs(w) ==
    LET led == DOMAIN job[w].heir IN
    /\ At(w, "heirs")
    /\ \E heir \in [led -> Users \cup {Nobody}] :
         /\ \A c \in led : heir[c] \in FirstToJoin(c, job[w].actor)
         /\ job' = [job EXCEPT ![w].pc = "commit", ![w].heir = heir]
    /\ UNCHANGED db

-----------------------------------------------------------------------------
(* The COMMITs.                                                            *)

AtCommit(w, op) == At(w, "commit") /\ job[w].op = op /\ Reply(w)

\* The sequence behind club.id hands out an identifier nobody has used.
CommitCreate(w) ==
    /\ AtCommit(w, "create")
    /\ \E c \in Clubs :
         /\ status[c] = "absent"
         /\ status' = [status EXCEPT ![c] = "live"]
         /\ leader' = [leader EXCEPT ![c] = job[w].actor]
         /\ private' = [private EXCEPT ![c] = job[w].flag]
         /\ member' = [member EXCEPT ![c][job[w].actor] = lastRow + 1]
    /\ lastRow' = lastRow + 1
    /\ UNCHANGED <<request, active, deleted>>

\* The object store refuses an upload or a removal, or the name of a new club
\* is taken: the handler answers an error and its transaction is rolled back.
Fail(w) ==
    /\ \/ At(w, "commit") /\ job[w].op \in {"create", "update", "delete"}
       \/ At(w, "load") /\ job[w].op = "close"
    /\ Reply(w)
    /\ UNCHANGED db

\* is_private is written only when it differs from the value loaded.
CommitUpdate(w) ==
    LET j == job[w] IN
    /\ AtCommit(w, "update")
    /\ private' = IF HasRow(j.club) /\ j.flag # j.seen
                  THEN [private EXCEPT ![j.club] = j.flag]
                  ELSE private
    /\ UNCHANGED <<status, leader, member, request, active, deleted, lastRow>>

\* Foreign keys ON DELETE CASCADE.  Deleting a row that is gone only warns.
CommitDelete(w) ==
    LET c == job[w].club IN
    /\ AtCommit(w, "delete")
    /\ status' = [status EXCEPT ![c] = "deleted"]
    /\ leader' = [leader EXCEPT ![c] = Nobody]
    /\ private' = [private EXCEPT ![c] = FALSE]
    /\ member' = [member EXCEPT ![c] = [u \in Users |-> 0]]
    /\ request' = [request EXCEPT ![c] = [u \in Users |-> NoRequest]]
    /\ UNCHANGED <<active, deleted, lastRow>>

\* Faulty variants: club_member without its foreign key, or without its unique
\* pair.
MemberFits_NoForeignKey(c, u) == member[c][u] = 0
MemberFits_NoUnique(c, u) == HasRow(c)

\* The constraints an INSERT into club_member or club_join_request must meet.
MemberFits(c, u) == HasRow(c) /\ member[c][u] = 0
RequestFits(c, u) == HasRow(c) /\ request[c][u] = NoRequest

CommitJoin(w) ==
    LET j == job[w] IN
    /\ AtCommit(w, "join")
    /\ ~j.seen
    /\ IF MemberFits(j.club, j.actor)
       THEN /\ member' = [member EXCEPT ![j.club][j.actor] = lastRow + 1]
            /\ lastRow' = lastRow + 1
       ELSE UNCHANGED <<member, lastRow>>
    /\ UNCHANGED <<status, leader, private, request, active, deleted>>

\* create_notification, which a request and its answer call before their own
\* COMMIT, commits them with the notification; the later COMMIT finds nothing left
\* to write, unless the recipient is inactive and there was no notification.
CommitRequest(w) ==
    LET j == job[w] IN
    /\ AtCommit(w, "join")
    /\ j.seen
    /\ IF RequestFits(j.club, j.actor)
       THEN /\ request' = [request EXCEPT ![j.club][j.actor] =
                             [id |-> lastRow + 1, status |-> "PENDING"]]
            /\ lastRow' = lastRow + 1
       ELSE UNCHANGED <<request, lastRow>>
    /\ UNCHANGED <<status, leader, private, member, active, deleted>>

\* The row resolve_join_request loaded is still there; its status is not read
\* again before it is overwritten.
StillThere(j) == request[j.club][j.target].id = j.row

CommitAccept(w) ==
    LET j == job[w] IN
    /\ AtCommit(w, "accept")
    /\ IF StillThere(j) /\ MemberFits(j.club, j.target)
       THEN /\ request' = [request EXCEPT ![j.club][j.target].status = "ACCEPTED"]
            /\ member' = [member EXCEPT ![j.club][j.target] = lastRow + 1]
            /\ lastRow' = lastRow + 1
       ELSE UNCHANGED <<request, member, lastRow>>
    /\ UNCHANGED <<status, leader, private, active, deleted>>

CommitReject(w) ==
    LET j == job[w] IN
    /\ AtCommit(w, "reject")
    /\ request' = IF StillThere(j)
                  THEN [request EXCEPT ![j.club][j.target].status = "REJECTED"]
                  ELSE request
    /\ UNCHANGED <<status, leader, private, member, active, deleted, lastRow>>

\* leave_club and remove_member delete the row they loaded, by primary key.
CommitDrop(w) ==
    LET j == job[w] IN
    /\ AtCommit(w, "leave") \/ AtCommit(w, "remove")
    /\ member' = IF member[j.club][Subject(j)] = j.row
                 THEN [member EXCEPT ![j.club][Subject(j)] = 0]
                 ELSE member
    /\ UNCHANGED <<status, leader, private, request, active, deleted, lastRow>>

CommitTransfer(w) ==
    LET j == job[w] IN
    /\ AtCommit(w, "transfer")
    /\ leader' = IF HasRow(j.club) THEN [leader EXCEPT ![j.club] = j.target] ELSE leader
    /\ UNCHANGED <<status, private, member, request, active, deleted, lastRow>>

CommitSetActive(w) ==
    LET j == job[w] IN
    /\ AtCommit(w, "set_active")
    /\ active' = IF j.flag THEN active \cup {j.target} ELSE active \ {j.target}
    /\ UNCHANGED <<status, leader, private, member, request, deleted, lastRow>>

\* One transaction: hand over or archive, drop the personal rows, anonymise.  Its
\* DELETEs run within the section as well, so they are one step with the COMMIT.
\* The ORM rolls all of it back when a club it updates is gone.
CommitClose(w) ==
    LET u == job[w].actor
        led == DOMAIN job[w].heir
        Inherited(c) == c \in led /\ job[w].heir[c] # Nobody
    IN
    /\ AtCommit(w, "close")
    /\ IF \A c \in led : HasRow(c)
       THEN /\ status' = [c \in Clubs |->
                  IF c \in led /\ ~Inherited(c) THEN "archived" ELSE status[c]]
            /\ leader' = [c \in Clubs |->
                  IF Inherited(c) THEN job[w].heir[c] ELSE leader[c]]
            /\ member' = [c \in Clubs |-> [member[c] EXCEPT ![u] = 0]]
            /\ request' = [c \in Clubs |-> [request[c] EXCEPT ![u] = NoRequest]]
            /\ active' = active \ {u}
            /\ deleted' = deleted \cup {u}
            /\ UNCHANGED <<private, lastRow>>
       ELSE UNCHANGED db

-----------------------------------------------------------------------------

Read(w) ==
    LoadClub(w) \/ LoadMember(w) \/ LoadPending(w) \/ LoadRequest(w)
    \/ LoadLed(w) \/ PickHeirs(w)

Write(w) ==
    \/ CommitCreate(w) \/ Fail(w) \/ CommitUpdate(w) \/ CommitDelete(w)
    \/ CommitJoin(w) \/ CommitRequest(w) \/ CommitAccept(w) \/ CommitReject(w)
    \/ CommitDrop(w) \/ CommitTransfer(w) \/ CommitSetActive(w)
    \/ CommitClose(w)

Serve(w) == Read(w) \/ Write(w)

Next == \E w \in Workers : Begin(w) \/ Serve(w)

\* Every request the server has accepted is run to its answer: a thread of the
\* pool is never stopped, and the event loop resumes what it awaited.
Spec == Init /\ [][Next]_vars /\ \A w \in Workers : WF_vars(Serve(w))

-----------------------------------------------------------------------------
(* The abstract specification this module implements.                       *)

Registry == INSTANCE ClubRegistry WITH
    members <- [c \in Clubs |-> MembersOf(c)],
    request <- [c \in Clubs |-> [u \in Users |-> request[c][u].status]]

\* Served one at a time, the handlers do exactly what ClubRegistry says: every
\* COMMIT is one of its steps and every SELECT or refusal a stutter.
Serial == Registry!Spec

\* A request as it is served; call is what the router handed over.
Requests ==
    [pc : {"load", "member", "pending", "request", "heirs", "commit"},
     op : AllOps, actor : Users \cup {Nobody}, club : Clubs \cup {Nobody},
     target : Users \cup {Nobody}, flag : BOOLEAN,
     row : Nat, seen : BOOLEAN,
     heir : UNION {[led -> Users \cup {Nobody}] : led \in SUBSET Clubs}]

CallOf(j) == [op |-> j.op, actor |-> j.actor, club |-> j.club, target |-> j.target, flag |-> j.flag]

\* Type invariant.
TypeOK ==
    /\ Registry!TypeOK
    /\ member \in [Clubs -> [Users -> Nat]]
    /\ request \in [Clubs -> [Users -> {NoRequest} \cup
                               [id : Nat \ {0}, status : {"PENDING", "ACCEPTED", "REJECTED"}]]]
    /\ lastRow \in Nat
    /\ job \in [Workers -> {Idle} \cup Requests]
    /\ \A w \in Workers : job[w] # Idle => CallOf(job[w]) \in Calls

\* Whatever the interleaving, no membership and no request outlives its club.
RowsNeedClub == Registry!RowsNeedClub

\* Whatever the interleaving, a request turns ACCEPTED in the very step that
\* makes its user a member: resolve_join_request never accepts somebody who is
\* a member already, nor accepts without letting in.
AcceptAdmits ==
    [][\A c \in Clubs, u \in Users :
          request'[c][u].status = "ACCEPTED" /\ request[c][u].status # "ACCEPTED"
              => member[c][u] = 0 /\ member'[c][u] # 0]_vars

\* An account that got past the object store is closed: none of the clubs read
\* for the succession can disappear before the COMMIT, since DELETE /clubs/{id}
\* runs on the same event loop.
CloseSucceeds ==
    [][\A w \in Workers :
          job[w] # Idle /\ job[w].op = "close" /\ job[w].pc = "commit" /\ job'[w] = Idle
              => job[w].actor \in deleted']_vars

\* "La solicitud ya fue resuelta" (club_service.py:103): an answer to a join
\* request is final, also when two requests answer it at the same time.
AnswerIsFinal == Registry!AnswerIsFinal
=============================================================================
