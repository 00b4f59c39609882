------------------------ MODULE ClubHandlers_proofs ------------------------
(***************************************************************************)
(* What no interleaving of the club and account handlers breaks, for any   *)
(* clubs, users and number of requests in flight.  A COMMIT is protected   *)
(* by the tables alone, so the invariant says of a request only what the   *)
(* tables or the event loop hold fixed for it: who and what it is about,   *)
(* the steps its operation goes through, and that the clubs an account     *)
(* hands over are still there (LedExist), because DELETE /clubs/{id} runs  *)
(* on the same event loop.                                                 *)
(*                                                                         *)
(* Served one at a time, the handlers implement ClubRegistry: nothing can  *)
(* move between a SELECT and the COMMIT, so what a handler read still      *)
(* holds when it writes (Knows), and each COMMIT is the registry's step.   *)
(* With it everything ClubRegistry_proofs shows of the registry holds of   *)
(* the handlers when a single request is in flight.                        *)
(***************************************************************************)
EXTENDS ClubHandlers, TLAPS

-----------------------------------------------------------------------------
(* The invariant of any interleaving.                                      *)

\* The types of the tables, spelled out.
Tables ==
    /\ status \in [Clubs -> {"absent", "live", "archived", "deleted"}]
    /\ leader \in [Clubs -> Users \cup {Nobody}]
    /\ private \in [Clubs -> BOOLEAN]
    /\ member \in [Clubs -> [Users -> Nat]]
    /\ request \in [Clubs -> [Users -> {NoRequest} \cup
                               [id : Nat \ {0}, status : {"PENDING", "ACCEPTED", "REJECTED"}]]]
    /\ active \subseteq Users /\ deleted \subseteq Users
    /\ \A c \in Clubs : (leader[c] = Nobody) = (status[c] \in {"absent", "deleted"})
    /\ lastRow \in Nat

\* Memberships and requests belong to clubs that are there.
NoOrphans ==
    \A c \in Clubs : ~HasRow(c) => \A u \in Users : member[c][u] = 0 /\ request[c][u] = NoRequest

\* Which requests pass through a step, and what they carry.
Staged(j) ==
    /\ j.pc = "load" => j.op \notin {"create", "set_active"}
    /\ j.pc = "member" => j.op \in {"join", "leave", "remove", "transfer"}
    /\ j.pc = "pending" => j.op = "join"
    /\ j.pc = "request" => j.op \in {"accept", "reject"}
    /\ j.pc = "heirs" => j.op = "close"
    /\ j.pc = "commit" /\ j.op \in {"accept", "reject"} => j.row # 0

Sound(j) == j = Idle \/ (j \in Requests /\ CallOf(j) \in Calls /\ Staged(j))

\* The clubs an account hands over are still there.
LedExist ==
    \A w \in Workers : InSection(w) => \A c \in DOMAIN job[w].heir : c \in Clubs /\ HasRow(c)

IInv ==
    /\ Tables /\ NoOrphans
    /\ job \in [Workers -> {Idle} \cup Requests]
    /\ \A w \in Workers : Sound(job[w])
    /\ LedExist

LEMMA IInvType == IInv => TypeOK
<1> SUFFICES ASSUME IInv PROVE TypeOK
  OBVIOUS
<1>1. [c \in Clubs |-> MembersOf(c)] \in [Clubs -> SUBSET Users]
  BY DEF MembersOf
<1>2. \A c \in Clubs, u \in Users : request[c][u].status \in {"none", "PENDING", "ACCEPTED", "REJECTED"}
  BY DEF IInv, Tables, NoRequest
<1>3. [c \in Clubs |-> [u \in Users |-> request[c][u].status]]
        \in [Clubs -> [Users -> {"none", "PENDING"} \cup {"ACCEPTED", "REJECTED"}]]
  BY <1>2
<1>4. Registry!TypeOK
  BY <1>1, <1>3 DEF IInv, Tables, Registry!TypeOK, Registry!Resolved
<1>5. \A w \in Workers : job[w] # Idle => CallOf(job[w]) \in Calls
  BY DEF IInv, Sound
<1> QED BY <1>4, <1>5 DEF TypeOK, IInv, Tables

LEMMA InitInv == Init => IInv
<1> SUFFICES ASSUME Init PROVE IInv
  OBVIOUS
<1>1. Tables
  BY HandlersAssumption DEF Init, Tables
<1>2. NoOrphans
  BY DEF Init, NoOrphans
<1> QED BY <1>1, <1>2 DEF Init, IInv, Sound, LedExist, InSection, Idle

\* A SELECT, a refusal or a failure: the tables are left as they are.
LEMMA Selects ==
    ASSUME IInv, UNCHANGED db, NEW w \in Workers, NEW j \in {Idle} \cup Requests, Sound(j),
           job' = [job EXCEPT ![w] = j],
           j.pc \in {"heirs", "commit"} /\ j.op = "close" =>
             \A c \in DOMAIN j.heir : c \in Clubs /\ HasRow(c)
    PROVE  IInv'
<1>1. Tables' /\ NoOrphans' /\ \A c : HasRow(c)' <=> HasRow(c)
  BY DEF db, IInv, Tables, NoOrphans, HasRow
<1>2. job'[w] = j /\ \A v \in Workers \ {w} : job'[v] = job[v]
  BY DEF IInv
<1>3. job' \in [Workers -> {Idle} \cup Requests]
  BY DEF IInv
<1>4. \A v \in Workers : Sound(job'[v])
  BY <1>2 DEF IInv
<1>5. LedExist'
  BY <1>1, <1>2 DEF IInv, LedExist, InSection
<1> QED BY <1>1, <1>3, <1>4, <1>5 DEF IInv, Sound

LEMMA Refused ==
    ASSUME IInv, UNCHANGED db, NEW w \in Workers, Reply(w)
    PROVE  IInv'
<1>1. Idle.pc = "idle" /\ Sound(Idle)
  BY DEF Idle, Sound
<1> QED BY <1>1, Selects DEF Reply


-----------------------------------------------------------------------------
(* The SELECTs.                                                            *)

\* Who and what a call is about.
LEMMA CallFacts ==
    ASSUME NEW j \in Requests, CallOf(j) \in Calls
    PROVE  /\ j.op \in AllOps \ {"set_active"} => j.actor \in Users
           /\ j.op \in AllOps \ {"create", "close", "set_active"} => j.club \in Clubs
           /\ j.op \in {"accept", "reject", "remove", "transfer", "set_active"} => j.target \in Users
           /\ j.op \in {"leave", "join"} => Subject(j) = j.actor
           /\ j.op \in {"remove", "transfer"} => Subject(j) = j.target
           /\ j.flag \in BOOLEAN
BY DEF Requests, CallOf, Calls, AllOps, Subject

LEMMA BeginStep ==
    ASSUME IInv, NEW w \in Workers, Begin(w)
    PROVE  IInv'
<1>1. PICK call \in Calls :
         job' = [job EXCEPT ![w] =
              [pc |-> IF call.op \in {"create", "set_active"} THEN "commit" ELSE "load",
               op |-> call.op, actor |-> call.actor, club |-> call.club,
               target |-> call.target, flag |-> call.flag,
               row |-> 0, seen |-> FALSE, heir |-> [c \in {} |-> Nobody]]]
  BY DEF Begin
<1> DEFINE j == [pc |-> IF call.op \in {"create", "set_active"} THEN "commit" ELSE "load",
               op |-> call.op, actor |-> call.actor, club |-> call.club,
               target |-> call.target, flag |-> call.flag,
               row |-> 0, seen |-> FALSE, heir |-> [c \in {} |-> Nobody]]
<1>2. [c \in {} |-> Nobody] \in UNION {[led -> Users \cup {Nobody}] : led \in SUBSET Clubs}
  OBVIOUS
<1>3. /\ call.op \in AllOps /\ call.actor \in Users \cup {Nobody} /\ call.club \in Clubs \cup {Nobody}
      /\ call.target \in Users \cup {Nobody} /\ call.flag \in BOOLEAN
      /\ call = [op |-> call.op, actor |-> call.actor, club |-> call.club,
                 target |-> call.target, flag |-> call.flag]
  BY DEF Calls, AllOps
<1>4. j \in Requests
  BY <1>2, <1>3 DEF Requests
<1>5. CallOf(j) \in Calls
  BY <1>3 DEF CallOf
<1>6. /\ Staged(j)
      /\ j.pc \in {"heirs", "commit"} => j.op # "close"
  BY DEF Staged
<1> HIDE DEF j
<1>7. Sound(j)
  BY <1>4, <1>5, <1>6 DEF Sound
<1> QED BY <1>1, <1>4, <1>6, <1>7, Selects DEF j, Begin

\* A request that goes on to its next SELECT.
LEMMA GoesOn ==
    ASSUME IInv, UNCHANGED db, NEW w \in Workers, job[w] \in Requests, NEW j \in Requests,
           CallOf(j) = CallOf(job[w]), job' = [job EXCEPT ![w] = j], Staged(j),
           j.pc \in {"heirs", "commit"} /\ j.op = "close" =>
             \A c \in DOMAIN j.heir : c \in Clubs /\ HasRow(c)
    PROVE  IInv'
<1>1. job[w] # Idle
  BY DEF Requests, Idle
<1>2. Sound(j)
  BY <1>1 DEF Sound, IInv
<1> QED BY <1>2, Selects

LEMMA LoadClubStep ==
    ASSUME IInv, NEW w \in Workers, LoadClub(w)
    PROVE  IInv'
<1> DEFINE c == job[w].club
           j == [job[w] EXCEPT !.pc = AfterLoad(job[w].op), !.seen = private[c]]
<1>1. /\ job[w] \in Requests /\ CallOf(job[w]) \in Calls /\ UNCHANGED db
      /\ job[w].op \in {"update", "delete", "accept", "reject", "join", "leave", "remove", "transfer"}
  BY DEF IInv, Sound, Idle, LoadClub, At, Requests, AllOps, Staged
<1>2. CASE ~Admits(c, job[w])
  BY <1>1, <1>2, Refused DEF LoadClub
<1>3. CASE Admits(c, job[w])
  <2>1. AfterLoad(job[w].op) \in
          (CASE job[w].op \in {"update", "delete"} -> {"commit"}
             [] job[w].op \in {"accept", "reject"} -> {"request"}
             [] OTHER -> {"member"})
    BY <1>1 DEF AfterLoad
  <2>2. c \in Clubs /\ private[c] \in BOOLEAN
    BY <1>1, CallFacts DEF AllOps, IInv, Tables
  <2>3. /\ j \in Requests /\ CallOf(j) = CallOf(job[w])
        /\ j.op = job[w].op /\ j.pc = AfterLoad(job[w].op)
    BY <1>1, <2>1, <2>2 DEF Requests, CallOf
  <2>4. job' = [job EXCEPT ![w] = j]
    BY <1>3 DEF LoadClub
  <2> HIDE DEF j
  <2>5. Staged(j)
    BY <1>1, <2>1, <2>3 DEF Staged
  <2> QED BY <1>1, <2>1, <2>3, <2>4, <2>5, GoesOn
<1> QED BY <1>2, <1>3

LEMMA LoadMemberStep ==
    ASSUME IInv, NEW w \in Workers, LoadMember(w)
    PROVE  IInv'
<1> DEFINE row == member[job[w].club][Subject(job[w])]
           pc == IF job[w].op = "join" /\ job[w].seen THEN "pending" ELSE "commit"
           j == [job[w] EXCEPT !.pc = pc, !.row = row]
<1>1. /\ job[w] \in Requests /\ CallOf(job[w]) \in Calls /\ UNCHANGED db
      /\ job[w].op \in {"join", "leave", "remove", "transfer"}
  BY DEF IInv, Sound, Idle, LoadMember, At, Staged
<1>2. CASE ~((row = 0) = (job[w].op = "join"))
  BY <1>1, <1>2, Refused DEF LoadMember
<1>3. CASE (row = 0) = (job[w].op = "join")
  <2>1. job[w].club \in Clubs /\ Subject(job[w]) \in Users
    BY <1>1, CallFacts DEF AllOps
  <2>2. row \in Nat
    BY <2>1 DEF IInv, Tables
  <2> HIDE DEF row
  <2>3. /\ j \in Requests /\ CallOf(j) = CallOf(job[w]) /\ j.op = job[w].op /\ j.pc = pc
    BY <1>1, <2>2 DEF Requests, CallOf
  <2>4. job' = [job EXCEPT ![w] = j]
    BY <1>3 DEF LoadMember, row
  <2> HIDE DEF j
  <2>5. Staged(j)
    BY <1>1, <2>3 DEF Staged
  <2> QED BY <1>1, <2>3, <2>4, <2>5, GoesOn
<1> QED BY <1>2, <1>3

LEMMA LoadRequestSteps ==
    ASSUME IInv, NEW w \in Workers, LoadPending(w) \/ LoadRequest(w)
    PROVE  IInv'
<1>1. CASE LoadPending(w)
  <2> DEFINE j == [job[w] EXCEPT !.pc = "commit"]
  <2>1. job[w] \in Requests /\ UNCHANGED db /\ job[w].op = "join"
    BY <1>1 DEF IInv, Sound, Idle, LoadPending, At, Staged
  <2>2. CASE job' = [job EXCEPT ![w] = Idle]
    BY <2>1, <2>2, Refused DEF Reply
  <2>3. CASE job' = [job EXCEPT ![w] = j]
    <3>1. j \in Requests /\ CallOf(j) = CallOf(job[w]) /\ j.op = "join" /\ j.pc = "commit"
      BY <2>1 DEF Requests, CallOf
    <3> HIDE DEF j
    <3>2. Staged(j)
      BY <3>1 DEF Staged
    <3> QED BY <2>1, <2>3, <3>1, <3>2, GoesOn
  <2> QED BY <1>1, <2>2, <2>3 DEF LoadPending, Reply, Goto
<1>2. CASE LoadRequest(w)
  <2> DEFINE row == request[job[w].club][job[w].target]
             j == [job[w] EXCEPT !.pc = "commit", !.row = row.id]
  <2>1. /\ job[w] \in Requests /\ CallOf(job[w]) \in Calls /\ UNCHANGED db
        /\ job[w].op \in {"accept", "reject"}
    BY <1>2 DEF IInv, Sound, Idle, LoadRequest, At, Staged
  <2>2. CASE row.status # "PENDING"
    BY <1>2, <2>1, <2>2, Refused DEF LoadRequest
  <2>3. CASE row.status = "PENDING"
    <3>1. job[w].club \in Clubs /\ job[w].target \in Users
      BY <2>1, CallFacts DEF AllOps
    <3>2. row.id \in Nat \ {0}
      BY <2>3, <3>1 DEF IInv, Tables, NoRequest
    <3>3. job' = [job EXCEPT ![w] = j]
      BY <1>2, <2>3 DEF LoadRequest
    <3> HIDE DEF row
    <3>4. /\ j \in Requests /\ CallOf(j) = CallOf(job[w]) /\ j.op = job[w].op
          /\ j.pc = "commit" /\ j.row # 0
      BY <2>1, <3>2 DEF Requests, CallOf
    <3> HIDE DEF j
    <3>5. Staged(j)
      BY <2>1, <3>4 DEF Staged
    <3> QED BY <2>1, <3>3, <3>4, <3>5, GoesOn
  <2> QED BY <2>2, <2>3
<1> QED BY <1>1, <1>2

LEMMA CloseReads ==
    ASSUME IInv, NEW w \in Workers, LoadLed(w) \/ PickHeirs(w)
    PROVE  IInv'
<1> DEFINE heirs == UNION {[led -> Users \cup {Nobody}] : led \in SUBSET Clubs}
<1>1. /\ job[w] \in Requests /\ UNCHANGED db /\ job[w].op = "close"
      /\ job[w].pc # "load" => InSection(w)
  BY DEF IInv, Sound, Idle, LoadLed, PickHeirs, At, Staged, InSection
<1>2. ASSUME NEW pc \in {"heirs", "commit"}, NEW heir \in heirs,
             \A c \in DOMAIN heir : c \in Clubs /\ HasRow(c),
             job' = [job EXCEPT ![w] = [job[w] EXCEPT !.pc = pc, !.heir = heir]]
      PROVE  IInv'
  <2> DEFINE j == [job[w] EXCEPT !.pc = pc, !.heir = heir]
  <2>1. j \in Requests /\ CallOf(j) = CallOf(job[w]) /\ j.op = "close" /\ j.pc = pc /\ j.heir = heir
    BY <1>1, <1>2 DEF Requests, CallOf
  <2>2. job' = [job EXCEPT ![w] = j]
    BY <1>2
  <2> HIDE DEF j
  <2>3. Staged(j)
    BY <2>1 DEF Staged
  <2> QED BY <1>1, <1>2, <2>1, <2>2, <2>3, GoesOn
<1>3. CASE LoadLed(w)
  <2> DEFINE led == {c \in Clubs : HasRow(c) /\ leader[c] = job[w].actor}
             heir == [c \in led |-> Nobody]
  <2>1. led \in SUBSET Clubs /\ \A c \in led : HasRow(c)
    OBVIOUS
  <2>2. job' = [job EXCEPT ![w] = [job[w] EXCEPT !.pc = "heirs", !.heir = heir]]
    BY <1>3 DEF LoadLed
  <2> HIDE DEF led
  <2>3. heir \in [led -> Users \cup {Nobody}] /\ DOMAIN heir = led
    OBVIOUS
  <2>4. heir \in heirs
    BY <2>1, <2>3
  <2> HIDE DEF heir, heirs
  <2> QED BY <1>2, <2>1, <2>2, <2>3, <2>4
<1>4. CASE PickHeirs(w)
  <2> DEFINE led == DOMAIN job[w].heir
  <2>1. led \in SUBSET Clubs /\ \A c \in led : HasRow(c)
    BY <1>1, <1>4 DEF IInv, LedExist, InSection, PickHeirs, At
  <2>2. PICK heir \in [led -> Users \cup {Nobody}] :
          job' = [job EXCEPT ![w] = [job[w] EXCEPT !.pc = "commit", !.heir = heir]]
    BY <1>4 DEF PickHeirs
  <2> HIDE DEF led
  <2>3. DOMAIN heir = led /\ heir \in heirs
    BY <2>1
  <2> HIDE DEF heirs
  <2> QED BY <1>2, <2>1, <2>2, <2>3
<1> QED BY <1>3, <1>4

-----------------------------------------------------------------------------
(* The COMMITs.                                                            *)

\* What a COMMIT must show: the worker is free again, and a club disappears
\* only while no account is being closed.
LEMMA Committed ==
    ASSUME IInv, NEW w \in Workers, Reply(w), Tables', NoOrphans',
           \/ \A c \in Clubs : HasRow(c) => HasRow(c)'
           \/ job[w] # Idle /\ job[w].op = "delete" /\ MayRun(w)
    PROVE  IInv'
<1>1. job'[w] = Idle /\ \A v \in Workers \ {w} : job'[v] = job[v]
  BY DEF IInv, Reply
<1>2. job' \in [Workers -> {Idle} \cup Requests]
  BY DEF IInv, Reply
<1>3. \A v \in Workers : Sound(job'[v])
  BY <1>1 DEF IInv, Sound
<1>4. \A v \in Workers : InSection(v)' => v # w /\ InSection(v) /\ job'[v] = job[v]
  BY <1>1 DEF InSection, Idle
<1>5. LedExist'
  <2>1. CASE \A c \in Clubs : HasRow(c) => HasRow(c)'
    BY <1>4, <2>1 DEF IInv, LedExist
  <2>2. CASE job[w] # Idle /\ job[w].op = "delete" /\ MayRun(w)
    <3>1. \A v \in Workers \ {w} : ~InSection(v)
      BY <2>2 DEF MayRun, AsyncOps, InSection, Idle
    <3> QED BY <1>4, <3>1 DEF LedExist
  <2> QED BY <2>1, <2>2
<1> QED BY <1>2, <1>3, <1>5 DEF IInv, Sound

\* What every COMMIT knows of its request.
LEMMA AtCommitFacts ==
    ASSUME IInv, NEW w \in Workers, NEW op \in AllOps, AtCommit(w, op)
    PROVE  /\ job[w] # Idle /\ job[w] \in Requests /\ CallOf(job[w]) \in Calls
           /\ Sound(job[w]) /\ job[w].op = op /\ job[w].pc = "commit"
           /\ MayRun(w) /\ Reply(w)
BY DEF IInv, Sound, Idle, AtCommit, At

LEMMA ClubRowSteps ==
    ASSUME IInv, NEW w \in Workers,
           CommitCreate(w) \/ CommitUpdate(w) \/ CommitTransfer(w) \/ CommitSetActive(w)
    PROVE  IInv'
<1>1. CASE CommitCreate(w)
  <2>1. AtCommit(w, "create")
    BY <1>1 DEF CommitCreate
  <2>2. job[w].actor \in Users /\ job[w].flag \in BOOLEAN /\ Reply(w)
    BY <2>1, AtCommitFacts, CallFacts DEF AllOps
  <2>3. PICK c \in Clubs : /\ status[c] = "absent"
                           /\ status' = [status EXCEPT ![c] = "live"]
                           /\ leader' = [leader EXCEPT ![c] = job[w].actor]
                           /\ private' = [private EXCEPT ![c] = job[w].flag]
                           /\ member' = [member EXCEPT ![c][job[w].actor] = lastRow + 1]
    BY <1>1 DEF CommitCreate
  <2>4. Tables'
    BY <1>1, <2>2, <2>3, HandlersAssumption DEF CommitCreate, IInv, Tables
  <2>5. \A d \in Clubs : HasRow(d)' <=> HasRow(d) \/ d = c
    BY <2>3 DEF HasRow, IInv, Tables
  <2>6. NoOrphans'
    BY <1>1, <2>3, <2>5 DEF CommitCreate, IInv, Tables, NoOrphans
  <2> QED BY <2>2, <2>4, <2>5, <2>6, Committed
<1>2. CASE CommitUpdate(w)
  <2>1. AtCommit(w, "update")
    BY <1>2 DEF CommitUpdate
  <2>2. job[w].club \in Clubs /\ job[w].flag \in BOOLEAN /\ Reply(w)
    BY <2>1, AtCommitFacts, CallFacts DEF AllOps
  <2>3. Tables'
    BY <1>2, <2>2 DEF CommitUpdate, IInv, Tables
  <2>4. NoOrphans' /\ \A c \in Clubs : HasRow(c) => HasRow(c)'
    BY <1>2 DEF CommitUpdate, IInv, NoOrphans, HasRow
  <2> QED BY <2>2, <2>3, <2>4, Committed
<1>3. CASE CommitTransfer(w)
  <2>1. AtCommit(w, "transfer")
    BY <1>3 DEF CommitTransfer
  <2>2. job[w].club \in Clubs /\ job[w].target \in Users /\ Reply(w)
    BY <2>1, AtCommitFacts, CallFacts DEF AllOps
  <2>3. \/ /\ leader' = [leader EXCEPT ![job[w].club] = job[w].target]
           /\ HasRow(job[w].club)
        \/ leader' = leader
    BY <1>3 DEF CommitTransfer
  <2>4. Tables'
    BY <1>3, <2>2, <2>3, HandlersAssumption DEF CommitTransfer, IInv, Tables, HasRow
  <2>5. NoOrphans' /\ \A c \in Clubs : HasRow(c) => HasRow(c)'
    BY <1>3 DEF CommitTransfer, IInv, NoOrphans, HasRow
  <2> QED BY <2>2, <2>4, <2>5, Committed
<1>4. CASE CommitSetActive(w)
  <2>1. AtCommit(w, "set_active")
    BY <1>4 DEF CommitSetActive
  <2>2. job[w].target \in Users /\ Reply(w)
    BY <2>1, AtCommitFacts, CallFacts DEF AllOps
  <2>3. Tables'
    BY <1>4, <2>2 DEF CommitSetActive, IInv, Tables
  <2>4. NoOrphans' /\ \A c \in Clubs : HasRow(c) => HasRow(c)'
    BY <1>4 DEF CommitSetActive, IInv, NoOrphans, HasRow
  <2> QED BY <2>2, <2>3, <2>4, Committed
<1> QED BY <1>1, <1>2, <1>3, <1>4

LEMMA DeleteAndFail ==
    ASSUME IInv, NEW w \in Workers, CommitDelete(w) \/ Fail(w)
    PROVE  IInv'
<1>1. CASE Fail(w)
  BY <1>1, Refused DEF Fail
<1>2. CASE CommitDelete(w)
  <2>1. AtCommit(w, "delete")
    BY <1>2 DEF CommitDelete
  <2> DEFINE c == job[w].club
  <2>2. job[w] # Idle /\ c \in Clubs /\ Reply(w) /\ MayRun(w) /\ job[w].op = "delete"
    BY <2>1, AtCommitFacts, CallFacts DEF AllOps
  <2>3. /\ member' = [member EXCEPT ![c] = [u \in Users |-> 0]]
        /\ request' = [request EXCEPT ![c] = [u \in Users |-> NoRequest]]
        /\ status' = [status EXCEPT ![c] = "deleted"]
        /\ leader' = [leader EXCEPT ![c] = Nobody]
        /\ private' = [private EXCEPT ![c] = FALSE]
        /\ UNCHANGED <<active, deleted, lastRow>>
    BY <1>2 DEF CommitDelete
  <2> HIDE DEF c
  <2>4. Tables'
    <3>1. [u \in Users |-> 0] \in [Users -> Nat]
      OBVIOUS
    <3>2. [u \in Users |-> NoRequest] \in [Users -> {NoRequest} \cup
             [id : Nat \ {0}, status : {"PENDING", "ACCEPTED", "REJECTED"}]]
      OBVIOUS
    <3>3. member' \in [Clubs -> [Users -> Nat]]
      BY <2>2, <2>3, <3>1 DEF IInv, Tables
    <3>4. request' \in [Clubs -> [Users -> {NoRequest} \cup
             [id : Nat \ {0}, status : {"PENDING", "ACCEPTED", "REJECTED"}]]]
      BY <2>2, <2>3, <3>2 DEF IInv, Tables
    <3>5. \A d \in Clubs : (leader'[d] = Nobody) = (status'[d] \in {"absent", "deleted"})
      BY <2>2, <2>3 DEF IInv, Tables
    <3> QED BY <2>2, <2>3, <3>3, <3>4, <3>5 DEF IInv, Tables
  <2>5. NoOrphans'
    <3> SUFFICES ASSUME NEW d \in Clubs, ~HasRow(d)', NEW u \in Users
                 PROVE  member'[d][u] = 0 /\ request'[d][u] = NoRequest
      BY DEF NoOrphans
    <3>1. CASE d = c
      BY <2>2, <2>3, <3>1 DEF IInv, Tables
    <3>2. CASE d # c
      BY <2>2, <2>3, <3>2 DEF IInv, Tables, NoOrphans, HasRow
    <3> QED BY <3>1, <3>2
  <2> QED BY <2>2, <2>4, <2>5, Committed
<1> QED BY <1>1, <1>2

\* One membership is written: a new row, none, or a dropped one.
LEMMA MemberStep ==
    ASSUME IInv, NEW w \in Workers, Reply(w), NEW c \in Clubs, NEW u \in Users, NEW n \in Nat,
           n # 0 => HasRow(c),
           member' = [member EXCEPT ![c][u] = n], lastRow' \in Nat,
           UNCHANGED <<status, leader, private, request, active, deleted>>
    PROVE  IInv'
<1>1. Tables'
  BY DEF IInv, Tables
<1>2. \A d \in Clubs : HasRow(d)' = HasRow(d)
  BY DEF HasRow
<1>3. NoOrphans'
  BY <1>2 DEF IInv, Tables, NoOrphans
<1> QED BY <1>1, <1>2, <1>3, Committed

\* Nothing is written.
LEMMA NothingWritten ==
    ASSUME IInv, NEW w \in Workers, Reply(w), UNCHANGED db
    PROVE  IInv'
BY Refused

LEMMA EnterStep ==
    ASSUME IInv, NEW w \in Workers, CommitJoin(w) \/ CommitDrop(w)
    PROVE  IInv'
<1>1. CASE CommitJoin(w)
  <2>1. AtCommit(w, "join")
    BY <1>1 DEF CommitJoin
  <2>2. job[w].club \in Clubs /\ job[w].actor \in Users /\ Reply(w)
    BY <2>1, AtCommitFacts, CallFacts DEF AllOps
  <2>3. CASE MemberFits(job[w].club, job[w].actor)
    <3>1. lastRow + 1 \in Nat /\ lastRow' = lastRow + 1 /\ HasRow(job[w].club)
          /\ member' = [member EXCEPT ![job[w].club][job[w].actor] = lastRow + 1]
          /\ UNCHANGED <<status, leader, private, request, active, deleted>>
      BY <1>1, <2>3 DEF CommitJoin, IInv, Tables, MemberFits
    <3> QED BY <2>2, <3>1, MemberStep
  <2>4. CASE ~MemberFits(job[w].club, job[w].actor)
    BY <1>1, <2>2, <2>4, NothingWritten DEF CommitJoin, db
  <2> QED BY <2>3, <2>4
<1>2. CASE CommitDrop(w)
  <2>1. PICK op \in {"leave", "remove"} : AtCommit(w, op)
    BY <1>2 DEF CommitDrop
  <2>2. job[w] \in Requests /\ CallOf(job[w]) \in Calls /\ job[w].op = op /\ Reply(w)
    BY <2>1, AtCommitFacts DEF AllOps
  <2>3. job[w].club \in Clubs /\ Subject(job[w]) \in Users
    BY <2>2, CallFacts DEF AllOps
  <2>4. CASE member[job[w].club][Subject(job[w])] = job[w].row
    <3>1. /\ member' = [member EXCEPT ![job[w].club][Subject(job[w])] = 0]
          /\ UNCHANGED <<status, leader, private, request, active, deleted, lastRow>>
      BY <1>2, <2>4 DEF CommitDrop
    <3>2. lastRow' \in Nat
      BY <3>1 DEF IInv, Tables
    <3> QED BY <2>2, <2>3, <3>1, <3>2, MemberStep
  <2>5. CASE member[job[w].club][Subject(job[w])] # job[w].row
    BY <1>2, <2>2, <2>5, NothingWritten DEF CommitDrop, db
  <2> QED BY <2>4, <2>5
<1> QED BY <1>1, <1>2

\* A row of club_join_request.
Asked == [id : Nat \ {0}, status : {"PENDING", "ACCEPTED", "REJECTED"}]

\* One request is written, and perhaps a membership with it.
LEMMA RequestStep ==
    ASSUME IInv, NEW w \in Workers, Reply(w), NEW c \in Clubs, NEW u \in Users, NEW row \in Asked,
           HasRow(c), request' = [request EXCEPT ![c][u] = row],
           member' \in [Clubs -> [Users -> Nat]], lastRow' \in Nat,
           \A d \in Clubs : d # c => member'[d] = member[d],
           UNCHANGED <<status, leader, private, active, deleted>>
    PROVE  IInv'
<1>1. Tables'
  BY DEF IInv, Tables, Asked
<1>2. \A d \in Clubs : HasRow(d)' = HasRow(d)
  BY DEF HasRow
<1>3. NoOrphans'
  BY <1>2 DEF IInv, Tables, NoOrphans
<1> QED BY <1>1, <1>2, <1>3, Committed

\* A loaded request that is still there can be answered.
LEMMA Answerable ==
    ASSUME IInv, NEW j \in Requests, j.club \in Clubs, j.target \in Users, j.row # 0,
           StillThere(j), NEW s \in {"ACCEPTED", "REJECTED"}
    PROVE  /\ [request[j.club][j.target] EXCEPT !.status = s] \in Asked
           /\ [request[j.club][j.target] EXCEPT !.status = s].status = s
           /\ HasRow(j.club)
<1>1. request[j.club][j.target] \in Asked
  BY DEF IInv, Tables, StillThere, NoRequest, Asked
<1>2. HasRow(j.club)
  BY DEF IInv, NoOrphans, StillThere, NoRequest
<1> QED BY <1>1, <1>2 DEF Asked

LEMMA RequestSteps ==
    ASSUME IInv, NEW w \in Workers, CommitRequest(w) \/ CommitAccept(w) \/ CommitReject(w)
    PROVE  IInv'
<1> DEFINE j == job[w]
           c == job[w].club
<1>1. CASE CommitRequest(w)
  <2>1. AtCommit(w, "join")
    BY <1>1 DEF CommitRequest
  <2>2. c \in Clubs /\ j.actor \in Users /\ Reply(w)
    BY <2>1, AtCommitFacts, CallFacts DEF AllOps
  <2>3. CASE RequestFits(c, j.actor)
    <3> DEFINE row == [id |-> lastRow + 1, status |-> "PENDING"]
    <3>1. row \in Asked /\ lastRow + 1 \in Nat
      BY DEF Asked, IInv, Tables
    <3>2. /\ HasRow(c) /\ request' = [request EXCEPT ![c][j.actor] = row]
          /\ lastRow' = lastRow + 1 /\ UNCHANGED <<status, leader, private, member, active, deleted>>
      BY <1>1, <2>3 DEF CommitRequest, RequestFits
    <3>3. member' \in [Clubs -> [Users -> Nat]] /\ lastRow' \in Nat
      BY <3>1, <3>2 DEF IInv, Tables
    <3> HIDE DEF row, j, c
    <3> QED BY <2>2, <3>1, <3>2, <3>3, RequestStep
  <2>4. CASE ~RequestFits(c, j.actor)
    BY <1>1, <2>2, <2>4, NothingWritten DEF CommitRequest, db
  <2> QED BY <2>3, <2>4
<1>2. CASE CommitAccept(w)
  <2>1. AtCommit(w, "accept")
    BY <1>2 DEF CommitAccept
  <2>2. /\ c \in Clubs /\ j.target \in Users /\ j \in Requests /\ j.row # 0 /\ Reply(w)
    BY <2>1, AtCommitFacts, CallFacts DEF AllOps, Sound, Staged
  <2>3. CASE StillThere(j) /\ MemberFits(c, j.target)
    <3> DEFINE row == [request[c][j.target] EXCEPT !.status = "ACCEPTED"]
    <3>1. row \in Asked /\ HasRow(c)
      BY <2>2, <2>3, Answerable
    <3>2. /\ request' = [request EXCEPT ![c][j.target] = row]
          /\ member' = [member EXCEPT ![c][j.target] = lastRow + 1]
          /\ lastRow' = lastRow + 1 /\ UNCHANGED <<status, leader, private, active, deleted>>
      BY <1>2, <2>3 DEF CommitAccept
    <3>3. /\ member' \in [Clubs -> [Users -> Nat]] /\ lastRow' \in Nat
          /\ \A d \in Clubs : d # c => member'[d] = member[d]
      BY <2>2, <3>2 DEF IInv, Tables
    <3> HIDE DEF row, j, c
    <3> QED BY <2>2, <3>1, <3>2, <3>3, RequestStep
  <2>4. CASE ~(StillThere(j) /\ MemberFits(c, j.target))
    BY <1>2, <2>2, <2>4, NothingWritten DEF CommitAccept, db
  <2> QED BY <2>3, <2>4
<1>3. CASE CommitReject(w)
  <2>1. AtCommit(w, "reject")
    BY <1>3 DEF CommitReject
  <2>2. /\ c \in Clubs /\ j.target \in Users /\ j \in Requests /\ j.row # 0 /\ Reply(w)
    BY <2>1, AtCommitFacts, CallFacts DEF AllOps, Sound, Staged
  <2>3. CASE StillThere(j)
    <3> DEFINE row == [request[c][j.target] EXCEPT !.status = "REJECTED"]
    <3>1. row \in Asked /\ HasRow(c)
      BY <2>2, <2>3, Answerable
    <3>2. /\ request' = [request EXCEPT ![c][j.target] = row]
          /\ UNCHANGED <<status, leader, private, member, active, deleted, lastRow>>
      BY <1>3, <2>3 DEF CommitReject
    <3>3. /\ member' \in [Clubs -> [Users -> Nat]] /\ lastRow' \in Nat
          /\ \A d \in Clubs : d # c => member'[d] = member[d]
      BY <3>2 DEF IInv, Tables
    <3> HIDE DEF row, j, c
    <3> QED BY <2>2, <3>1, <3>2, <3>3, RequestStep
  <2>4. CASE ~StillThere(j)
    BY <1>3, <2>2, <2>4, NothingWritten DEF CommitReject, db
  <2> QED BY <2>3, <2>4
<1> QED BY <1>1, <1>2, <1>3

\* Closing an account takes its rows out of every club and removes none.
LEMMA CloseStep ==
    ASSUME IInv, NEW w \in Workers, CommitClose(w)
    PROVE  IInv'
<1> DEFINE u == job[w].actor
           heir == job[w].heir
           led == DOMAIN job[w].heir
<1>1. AtCommit(w, "close")
  BY DEF CommitClose
<1>2. u \in Users /\ job[w] \in Requests /\ Reply(w) /\ InSection(w)
  BY <1>1, AtCommitFacts, CallFacts DEF AllOps, InSection
<1>3. led \subseteq Clubs /\ \A c \in led : heir[c] \in Users \cup {Nobody}
  BY <1>2 DEF Requests
<1>4. \A c \in led : HasRow(c)
  BY <1>2 DEF IInv, LedExist
<1>5. /\ status' = [c \in Clubs |->
             IF c \in led /\ ~(c \in led /\ heir[c] # Nobody) THEN "archived" ELSE status[c]]
      /\ leader' = [c \in Clubs |-> IF c \in led /\ heir[c] # Nobody THEN heir[c] ELSE leader[c]]
      /\ member' = [c \in Clubs |-> [member[c] EXCEPT ![u] = 0]]
      /\ request' = [c \in Clubs |-> [request[c] EXCEPT ![u] = NoRequest]]
      /\ active' = active \ {u} /\ deleted' = deleted \cup {u}
      /\ UNCHANGED <<private, lastRow>>
  BY <1>4 DEF CommitClose
<1> HIDE DEF u, heir, led
<1>6. member' \in [Clubs -> [Users -> Nat]]
  BY <1>2, <1>5 DEF IInv, Tables
<1>7. request' \in [Clubs -> [Users -> {NoRequest} \cup Asked]]
  BY <1>2, <1>5 DEF IInv, Tables, Asked
<1>8. \A c \in Clubs : HasRow(c)' <=> HasRow(c)
  BY <1>4, <1>5 DEF HasRow, IInv, Tables
<1>9. /\ status' \in [Clubs -> {"absent", "live", "archived", "deleted"}]
      /\ leader' \in [Clubs -> Users \cup {Nobody}]
  BY <1>3, <1>5 DEF IInv, Tables
<1>10. \A c \in Clubs : (leader'[c] = Nobody) = (status'[c] \in {"absent", "deleted"})
  <2> SUFFICES ASSUME NEW c \in Clubs
               PROVE  (leader'[c] = Nobody) = (status'[c] \in {"absent", "deleted"})
    OBVIOUS
  <2>1. CASE c \in led
    <3>1. status[c] \in {"live", "archived"} /\ leader[c] # Nobody
      BY <1>4, <2>1 DEF HasRow, IInv, Tables
    <3>2. CASE heir[c] = Nobody
      BY <1>5, <2>1, <3>1, <3>2
    <3>3. CASE heir[c] # Nobody
      BY <1>5, <2>1, <3>1, <3>3
    <3> QED BY <3>2, <3>3
  <2>2. CASE c \notin led
    BY <1>5, <2>2 DEF IInv, Tables
  <2> QED BY <2>1, <2>2
<1>11. Tables'
  BY <1>2, <1>5, <1>6, <1>7, <1>9, <1>10 DEF IInv, Tables, Asked
<1>12. NoOrphans'
  BY <1>2, <1>5, <1>8 DEF IInv, Tables, NoOrphans
<1> QED BY <1>2, <1>8, <1>11, <1>12, Committed

LEMMA StepInv == IInv /\ [Next]_vars => IInv'
<1> SUFFICES ASSUME IInv, [Next]_vars PROVE IInv'
  OBVIOUS
<1>1. CASE UNCHANGED vars
  <2>1. UNCHANGED <<status, leader, private, member, request, active, deleted, lastRow, job>>
    BY <1>1 DEF vars, db
  <2>2. \A c \in Clubs : HasRow(c)' = HasRow(c)
    BY <2>1 DEF HasRow
  <2>3. Tables' /\ NoOrphans'
    BY <2>1, <2>2 DEF IInv, Tables, NoOrphans
  <2>4. \A w \in Workers : InSection(w)' = InSection(w)
    BY <2>1 DEF InSection
  <2>5. LedExist'
    BY <2>1, <2>2, <2>4 DEF IInv, LedExist, HasRow
  <2> QED BY <2>1, <2>3, <2>5 DEF IInv
<1>2. ASSUME NEW w \in Workers, Begin(w) PROVE IInv'
  BY <1>2, BeginStep
<1>3. ASSUME NEW w \in Workers, Read(w) PROVE IInv'
  BY <1>3, LoadClubStep, LoadMemberStep, LoadRequestSteps, CloseReads DEF Read
<1>4. ASSUME NEW w \in Workers, Write(w) PROVE IInv'
  BY <1>4, ClubRowSteps, DeleteAndFail, EnterStep, RequestSteps, CloseStep DEF Write
<1> QED BY <1>1, <1>2, <1>3, <1>4 DEF Next, Serve

\* The invariant holds of every reachable state.
THEOREM Invariance == Spec => []IInv
BY InitInv, StepInv, PTL DEF Spec

\* Type correctness.
THEOREM TypeCorrect == Spec => []TypeOK
BY Invariance, IInvType, PTL

\* No membership and no request outlives its club, whatever the interleaving.
THEOREM NoOrphanRows == Spec => []RowsNeedClub
<1>1. IInv => RowsNeedClub
  <2> SUFFICES ASSUME IInv PROVE RowsNeedClub
    OBVIOUS
  <2>1. \A c \in Clubs : ~HasRow(c) => MembersOf(c) = {}
    BY DEF IInv, NoOrphans, MembersOf
  <2>2. \A c \in Clubs : ~HasRow(c) => \A u \in Users : request[c][u].status = "none"
    BY DEF IInv, NoOrphans, NoRequest
  <2> QED BY <2>1, <2>2 DEF RowsNeedClub, Registry!RowsNeedClub, Registry!HasRow, HasRow
<1> QED BY <1>1, Invariance, PTL

Admitted ==
    \A c \in Clubs, u \in Users :
       request'[c][u].status = "ACCEPTED" /\ request[c][u].status # "ACCEPTED"
           => member[c][u] = 0 /\ member'[c][u] # 0

\* A request turns ACCEPTED exactly when its user becomes a member.
THEOREM AcceptanceAdmits == Spec => AcceptAdmits
<1>1. IInv /\ [Next]_vars => [Admitted]_vars
  <2> SUFFICES ASSUME IInv, Next, NEW c \in Clubs, NEW u \in Users,
                      request'[c][u].status = "ACCEPTED", request[c][u].status # "ACCEPTED"
               PROVE  member[c][u] = 0 /\ member'[c][u] # 0
    BY DEF Admitted
  <2>1. request' # request
    OBVIOUS
  <2>2. PICK w \in Workers : \/ CommitDelete(w) \/ CommitRequest(w) \/ CommitAccept(w)
                             \/ CommitReject(w) \/ CommitClose(w)
    BY <2>1 DEF Next, Serve, Begin, Read, Write, LoadClub, LoadMember, LoadPending, LoadRequest,
         LoadLed, PickHeirs, CommitCreate, Fail, CommitUpdate, CommitJoin, CommitDrop,
         CommitTransfer, CommitSetActive, db
  <2> USE DEF NoRequest
  <2>3. CASE CommitDelete(w)
    BY <2>3 DEF CommitDelete, IInv, Tables
  <2>4. CASE CommitRequest(w)
    <3> DEFINE row == [id |-> lastRow + 1, status |-> "PENDING"]
    <3>1. request' = [request EXCEPT ![job[w].club][job[w].actor] = row]
      BY <2>1, <2>4 DEF CommitRequest
    <3>2. row.status = "PENDING"
      OBVIOUS
    <3> HIDE DEF row
    <3>3. request'[c][u] \in {request[c][u], row}
      BY <3>1 DEF IInv, Tables
    <3> QED BY <3>2, <3>3
  <2>5. CASE CommitReject(w)
    BY <2>5 DEF CommitReject, IInv, Tables
  <2>6. CASE CommitClose(w)
    <3>1. request' = [d \in Clubs |-> [request[d] EXCEPT ![job[w].actor] = NoRequest]]
      BY <2>1, <2>6 DEF CommitClose, db
    <3>2. request'[c][u] \in {request[c][u], NoRequest}
      BY <3>1 DEF IInv, Tables
    <3> QED BY <3>2
  <2>7. CASE CommitAccept(w)
    <3> DEFINE row == [request[job[w].club][job[w].target] EXCEPT !.status = "ACCEPTED"]
    <3>0. /\ request' = [request EXCEPT ![job[w].club][job[w].target] = row]
          /\ member' = [member EXCEPT ![job[w].club][job[w].target] = lastRow + 1]
          /\ MemberFits(job[w].club, job[w].target)
      BY <2>1, <2>7 DEF CommitAccept
    <3> HIDE DEF row
    <3>1. job[w].club = c /\ job[w].target = u
      <4>1. request'[c] = IF c = job[w].club THEN [request[c] EXCEPT ![job[w].target] = row]
                                             ELSE request[c]
        BY <3>0 DEF IInv, Tables
      <4>2. request'[c] # request[c]
        OBVIOUS
      <4>3. request'[c][u] # request[c][u]
        OBVIOUS
      <4> QED BY <4>1, <4>2, <4>3 DEF IInv, Tables
    <3>2. lastRow + 1 # 0
      BY DEF IInv, Tables
    <3> QED BY <3>0, <3>1, <3>2 DEF MemberFits, IInv, Tables
  <2> QED BY <2>2, <2>3, <2>4, <2>5, <2>6, <2>7
<1> QED BY <1>1, Invariance, PTL DEF Spec, AcceptAdmits, Admitted

Closed ==
    \A w \in Workers :
       job[w] # Idle /\ job[w].op = "close" /\ job[w].pc = "commit" /\ job'[w] = Idle
           => job[w].actor \in deleted'

\* Past the object store, closing an account cannot fail.
THEOREM ClosingSucceeds == Spec => CloseSucceeds
<1>1. IInv /\ [Next]_vars => [Closed]_vars
  <2> SUFFICES ASSUME IInv, Next, NEW w \in Workers, job[w] # Idle, job[w].op = "close",
                      job[w].pc = "commit", job'[w] = Idle
               PROVE  job[w].actor \in deleted'
    BY DEF Closed
  <2>1. PICK v \in Workers : Begin(v) \/ Read(v) \/ Write(v)
    BY DEF Next, Serve
  <2>2. v = w
    <3>1. CASE Write(v)
      <4>1. Reply(v)
        BY <3>1 DEF Write, CommitCreate, Fail, CommitUpdate, CommitDelete, CommitJoin,
             CommitRequest, CommitAccept, CommitReject, CommitDrop,
             CommitTransfer, CommitSetActive, CommitClose, AtCommit
      <4> QED BY <4>1 DEF Reply, IInv
    <3>2. CASE Begin(v)
      BY <3>2 DEF Begin, IInv
    <3>3. CASE LoadClub(v) \/ LoadMember(v) \/ LoadRequest(v)
      BY <3>3 DEF LoadClub, LoadMember, LoadRequest, Reply, IInv
    <3>4. CASE LoadPending(v) \/ LoadLed(v) \/ PickHeirs(v)
      BY <3>4 DEF LoadPending, LoadLed, PickHeirs, Reply, Goto, IInv
    <3> QED BY <2>1, <3>1, <3>2, <3>3, <3>4 DEF Read
  <2>3. CommitClose(w)
    BY <2>1, <2>2 DEF Begin, Read, Write, LoadClub, LoadMember, LoadPending, LoadRequest,
         LoadLed, PickHeirs, CommitCreate, Fail, CommitUpdate, CommitDelete, CommitJoin,
         CommitRequest, CommitAccept, CommitReject, CommitDrop,
         CommitTransfer, CommitSetActive, AtCommit, At
  <2>4. \A c \in DOMAIN job[w].heir : HasRow(c)
    BY DEF IInv, LedExist, InSection
  <2> QED BY <2>3, <2>4 DEF CommitClose
<1> QED BY <1>1, Invariance, PTL DEF Spec, CloseSucceeds, Closed

-----------------------------------------------------------------------------
(* One request at a time.                                                  *)

OneAtATime == \E w : Workers = {w}

\* The operations that begin with the club row.
OnClub == AllOps \ {"create", "close", "set_active"}

\* What a request read and has not seen change.
Knows(j) ==
    /\ j.op # "set_active" => j.actor \in active \ deleted
    /\ j.op \in OnClub /\ j.pc # "load" => Admits(j.club, j) /\ j.seen = private[j.club]
    /\ j.op \in {"join", "leave", "remove", "transfer"} /\ j.pc \in {"pending", "commit"} =>
         /\ j.row = member[j.club][Subject(j)]
         /\ (j.row = 0) = (j.op = "join")
    /\ j.op \in {"accept", "reject"} /\ j.pc = "commit" =>
         /\ request[j.club][j.target].status = "PENDING"
         /\ request[j.club][j.target].id = j.row
    /\ j.op = "close" /\ j.pc # "load" =>
         DOMAIN j.heir = {c \in Clubs : HasRow(c) /\ leader[c] = j.actor}
    /\ j.op = "close" /\ j.pc = "commit" =>
         \A c \in DOMAIN j.heir : j.heir[c] \in FirstToJoin(c, j.actor)

AllKnow == \A w \in Workers, j \in Requests : job[w] = j => Knows(j)

-----------------------------------------------------------------------------
(* Every request knows.                                                    *)

\* What one request knows does not change while the tables do not.
LEMMA StillKnows ==
    ASSUME UNCHANGED db PROVE \A j \in Requests : Knows(j)' <=> Knows(j)
BY DEF db, Knows, Admits, HasRow, Subject, FirstToJoin, MembersOf

LEMMA Learns ==
    ASSUME IInv, NEW w, Workers = {w}, UNCHANGED db,
           \A j \in Requests : job'[w] = j => Knows(j)
    PROVE  AllKnow'
BY StillKnows DEF AllKnow

LEMMA Forgets ==
    ASSUME IInv, NEW w, Workers = {w}, Reply(w)
    PROVE  AllKnow'
BY DEF AllKnow, Reply, IInv, Idle, Requests

LEMMA BeginKnows ==
    ASSUME IInv, NEW w, Workers = {w}, Begin(w)
    PROVE  AllKnow'
<1>1. PICK call \in Calls :
         /\ call.op # "set_active" => call.actor \in active \ deleted
         /\ job'[w] =
              [pc |-> IF call.op \in {"create", "set_active"} THEN "commit" ELSE "load",
               op |-> call.op, actor |-> call.actor, club |-> call.club,
               target |-> call.target, flag |-> call.flag,
               row |-> 0, seen |-> FALSE, heir |-> [c \in {} |-> Nobody]]
  BY DEF Begin, IInv
<1>2. /\ job'[w].op = call.op /\ job'[w].actor = call.actor
      /\ job'[w].pc = IF call.op \in {"create", "set_active"} THEN "commit" ELSE "load"
  BY <1>1
<1>3. \A j \in Requests : job'[w] = j => Knows(j)
  BY <1>1, <1>2 DEF Knows, OnClub
<1> QED BY <1>3, Learns DEF Begin

\* A request at a SELECT.
LEMMA Reading ==
    ASSUME IInv, AllKnow, NEW w, Workers = {w}, Read(w)
    PROVE  /\ job[w] \in Requests /\ CallOf(job[w]) \in Calls /\ Staged(job[w])
           /\ Knows(job[w]) /\ UNCHANGED db
           /\ job' \in [Workers -> {job'[w]}]
BY DEF IInv, Sound, Idle, AllKnow, Read, At, LoadClub, LoadMember, LoadPending, LoadRequest,
       LoadLed, PickHeirs, Reply, Goto

LEMMA ReadKnows ==
    ASSUME IInv, AllKnow, NEW w, Workers = {w}, Read(w)
    PROVE  AllKnow'
<1> DEFINE j == job[w]
<1>1. /\ j \in Requests /\ CallOf(j) \in Calls /\ Staged(j) /\ Knows(j) /\ UNCHANGED db
  BY Reading
<1>2. CASE Reply(w)
  BY <1>2, Forgets
<1>3. CASE LoadClub(w) /\ ~Reply(w)
  <2>1. /\ j.op \in OnClub /\ Admits(j.club, j) /\ j.pc = "load"
        /\ job' = [job EXCEPT ![w].pc = AfterLoad(j.op), ![w].seen = private[j.club]]
    BY <1>1, <1>3 DEF LoadClub, At, OnClub, Staged, Requests
  <2>2. AfterLoad(j.op) = IF j.op \in {"update", "delete"} THEN "commit"
                          ELSE IF j.op \in {"accept", "reject"} THEN "request" ELSE "member"
    BY <2>1 DEF AfterLoad, OnClub, AllOps
  <2>3. ASSUME NEW k \in Requests, job'[w] = k PROVE Knows(k)
    <3>1. /\ k.pc = AfterLoad(j.op) /\ k.seen = private[j.club]
          /\ k.op = j.op /\ k.actor = j.actor /\ k.club = j.club /\ k.target = j.target
      BY <1>1, <2>1, <2>3 DEF IInv, Requests
    <3>2. Admits(k.club, k)
      BY <2>1, <3>1 DEF Admits
    <3> QED BY <1>1, <2>1, <2>2, <3>1, <3>2 DEF Knows, OnClub
  <2> QED BY <1>1, <2>3, Learns
<1>4. CASE LoadMember(w) /\ ~Reply(w)
  <2>1. /\ j.op \in {"join", "leave", "remove", "transfer"} /\ j.pc = "member"
        /\ (member[j.club][Subject(j)] = 0) = (j.op = "join")
        /\ job' = [job EXCEPT
                      ![w].pc = IF j.op = "join" /\ j.seen THEN "pending" ELSE "commit",
                      ![w].row = member[j.club][Subject(j)]]
    BY <1>1, <1>4 DEF LoadMember, At, Staged
  <2>2. ASSUME NEW k \in Requests, job'[w] = k PROVE Knows(k)
    <3>1. /\ k.pc \in {"pending", "commit"} /\ k.row = member[j.club][Subject(j)]
          /\ k.op = j.op /\ k.actor = j.actor /\ k.club = j.club /\ k.target = j.target
          /\ k.seen = j.seen
      BY <1>1, <2>1, <2>2 DEF IInv, Requests
    <3>2. Admits(k.club, k) /\ k.seen = private[k.club] /\ Subject(k) = Subject(j)
      BY <1>1, <2>1, <3>1 DEF Knows, OnClub, AllOps, Admits, Subject
    <3> QED BY <1>1, <2>1, <3>1, <3>2 DEF Knows
  <2> QED BY <1>1, <2>2, Learns
<1>5. CASE LoadPending(w) /\ ~Reply(w)
  <2>1. j.op = "join" /\ j.pc = "pending" /\ job' = [job EXCEPT ![w].pc = "commit"]
    BY <1>1, <1>5 DEF LoadPending, At, Staged, Goto
  <2>2. ASSUME NEW k \in Requests, job'[w] = k PROVE Knows(k)
    <3>1. /\ k.pc = "commit" /\ k.row = j.row
          /\ k.op = j.op /\ k.actor = j.actor /\ k.club = j.club /\ k.target = j.target
          /\ k.seen = j.seen
      BY <1>1, <2>1, <2>2 DEF IInv, Requests
    <3>2. Admits(k.club, k) /\ k.seen = private[k.club] /\ Subject(k) = Subject(j)
      BY <1>1, <2>1, <3>1 DEF Knows, OnClub, AllOps, Admits, Subject
    <3> QED BY <1>1, <2>1, <3>1, <3>2 DEF Knows
  <2> QED BY <1>1, <2>2, Learns
<1>6. CASE LoadRequest(w) /\ ~Reply(w)
  <2>1. /\ j.op \in {"accept", "reject"} /\ j.pc = "request"
        /\ request[j.club][j.target].status = "PENDING"
        /\ job' = [job EXCEPT ![w].pc = "commit", ![w].row = request[j.club][j.target].id]
    BY <1>1, <1>6 DEF LoadRequest, At, Staged
  <2>2. ASSUME NEW k \in Requests, job'[w] = k PROVE Knows(k)
    <3>1. /\ k.pc = "commit" /\ k.row = request[j.club][j.target].id
          /\ k.op = j.op /\ k.actor = j.actor /\ k.club = j.club /\ k.target = j.target
          /\ k.seen = j.seen
      BY <1>1, <2>1, <2>2 DEF IInv, Requests
    <3>2. Admits(k.club, k) /\ k.seen = private[k.club]
      BY <1>1, <2>1, <3>1 DEF Knows, OnClub, AllOps, Admits
    <3> QED BY <1>1, <2>1, <3>1, <3>2 DEF Knows
  <2> QED BY <1>1, <2>2, Learns
<1>7. CASE LoadLed(w)
  <2> DEFINE led == {c \in Clubs : HasRow(c) /\ leader[c] = j.actor}
             heir == [c \in led |-> Nobody]
  <2>1. j.op = "close" /\ job' = [job EXCEPT ![w].pc = "heirs", ![w].heir = heir]
    BY <1>7 DEF LoadLed
  <2>2. DOMAIN heir = led
    OBVIOUS
  <2> HIDE DEF heir
  <2>3. ASSUME NEW k \in Requests, job'[w] = k PROVE Knows(k)
    <3>1. k.pc = "heirs" /\ k.heir = heir /\ k.op = "close" /\ k.actor = j.actor
      BY <1>1, <2>1, <2>3 DEF IInv, Requests
    <3> QED BY <1>1, <2>1, <2>2, <3>1 DEF Knows, OnClub
  <2> QED BY <1>1, <2>3, Learns
<1>8. CASE PickHeirs(w)
  <2>1. j.op = "close" /\ j.pc = "heirs"
    BY <1>1, <1>8 DEF PickHeirs, At, Staged
  <2>2. PICK heir \in [DOMAIN j.heir -> Users \cup {Nobody}] :
          /\ \A c \in DOMAIN j.heir : heir[c] \in FirstToJoin(c, j.actor)
          /\ job' = [job EXCEPT ![w].pc = "commit", ![w].heir = heir]
    BY <1>8 DEF PickHeirs
  <2>3. DOMAIN heir = DOMAIN j.heir
    OBVIOUS
  <2>4. ASSUME NEW k \in Requests, job'[w] = k PROVE Knows(k)
    <3>1. k.pc = "commit" /\ k.heir = heir /\ k.op = "close" /\ k.actor = j.actor
      BY <1>1, <2>1, <2>2, <2>4 DEF IInv, Requests
    <3> QED BY <1>1, <2>1, <2>2, <2>3, <3>1 DEF Knows, OnClub
  <2> QED BY <1>1, <2>4, Learns
<1> QED BY <1>2, <1>3, <1>4, <1>5, <1>6, <1>7, <1>8 DEF Read

LEMMA WriteReplies ==
    ASSUME NEW w, Write(w) PROVE Reply(w)
BY DEF Write, CommitCreate, Fail, CommitUpdate, CommitDelete, CommitJoin, CommitRequest,
       CommitAccept, CommitReject, CommitDrop, CommitTransfer, CommitSetActive, CommitClose, AtCommit

LEMMA KnowsStep ==
    ASSUME OneAtATime, IInv, AllKnow, [Next]_vars
    PROVE  AllKnow'
<1>1. PICK w : Workers = {w}
  BY DEF OneAtATime
<1>2. CASE UNCHANGED vars
  <2>1. UNCHANGED db /\ UNCHANGED job
    BY <1>2 DEF vars
  <2> QED BY <2>1, StillKnows DEF AllKnow
<1>3. CASE Begin(w) \/ Read(w) \/ Write(w)
  BY <1>1, <1>3, BeginKnows, ReadKnows, WriteReplies, Forgets
<1> QED BY <1>1, <1>2, <1>3 DEF Next, Serve

-----------------------------------------------------------------------------
(* Every COMMIT is a step of the registry.                                 *)

Mem == [c \in Clubs |-> MembersOf(c)]
Asks == [c \in Clubs |-> [u \in Users |-> request[c][u].status]]

LEMMA MemEnters ==
    ASSUME Tables, NEW c \in Clubs, NEW u \in Users, NEW n \in Nat \ {0},
           member' = [member EXCEPT ![c][u] = n]
    PROVE  Mem' = [Mem EXCEPT ![c] = @ \cup {u}]
<1>1. \A d \in Clubs : MembersOf(d)' = IF d = c THEN MembersOf(d) \cup {u} ELSE MembersOf(d)
  BY DEF Tables, MembersOf
<1> QED BY <1>1 DEF Mem

LEMMA MemLeaves ==
    ASSUME Tables, NEW c \in Clubs, NEW u \in Users, member' = [member EXCEPT ![c][u] = 0]
    PROVE  Mem' = [Mem EXCEPT ![c] = @ \ {u}]
<1>1. \A d \in Clubs : MembersOf(d)' = IF d = c THEN MembersOf(d) \ {u} ELSE MembersOf(d)
  BY DEF Tables, MembersOf
<1> QED BY <1>1 DEF Mem

LEMMA AsksWritten ==
    ASSUME Tables, NEW c \in Clubs, NEW u \in Users, NEW row \in Asked,
           request' = [request EXCEPT ![c][u] = row]
    PROVE  Asks' = [Asks EXCEPT ![c][u] = row.status]
<1>1. \A d \in Clubs, v \in Users :
        request'[d][v] = IF d = c /\ v = u THEN row ELSE request[d][v]
  BY DEF Tables
<1>2. \A d \in Clubs : Asks'[d] = IF d = c THEN [Asks[d] EXCEPT ![u] = row.status] ELSE Asks[d]
  BY <1>1 DEF Asks
<1> QED BY <1>2 DEF Asks

LEMMA MemAsksSame ==
    /\ UNCHANGED member => UNCHANGED Mem
    /\ UNCHANGED request => UNCHANGED Asks
BY DEF Mem, Asks, MembersOf

\* The registry's step, in the words of this module.
Implements == Registry!Next \/ UNCHANGED Registry!vars

LEMMA Stutters == UNCHANGED db => Implements
BY MemAsksSame DEF db, Implements, Registry!vars, Mem, Asks

\* What a handler at its COMMIT may rely on.
LEMMA AtCommitKnows ==
    ASSUME IInv, AllKnow, NEW w \in Workers, NEW op \in AllOps, AtCommit(w, op)
    PROVE  /\ job[w] \in Requests /\ CallOf(job[w]) \in Calls /\ Staged(job[w])
           /\ job[w].op = op /\ job[w].pc = "commit" /\ Knows(job[w])
BY AtCommitFacts DEF AllKnow, Sound

LEMMA TargetSteps ==
    ASSUME NEW u \in Users, NEW c \in Clubs, NEW v \in Users,
           \/ Registry!Accept(u, c, v) \/ Registry!Reject(u, c, v)
           \/ Registry!Remove(u, c, v) \/ Registry!Transfer(u, c, v)
    PROVE  Implements
<1>1. Registry!ClubStep(u, c)
  BY DEF Registry!ClubStep
<1> QED BY <1>1 DEF Implements, Registry!Next

LEMMA CreateImplements ==
    ASSUME IInv, AllKnow, NEW w \in Workers, CommitCreate(w)
    PROVE  Implements
<1> DEFINE u == job[w].actor
<1>1. AtCommit(w, "create")
  BY DEF CommitCreate
<1>2. u \in Users /\ u \in active \ deleted /\ job[w].flag \in BOOLEAN
  BY <1>1, AtCommitKnows, CallFacts DEF AllOps, Knows
<1>3. PICK c \in Clubs : /\ status[c] = "absent"
                         /\ status' = [status EXCEPT ![c] = "live"]
                         /\ leader' = [leader EXCEPT ![c] = u]
                         /\ private' = [private EXCEPT ![c] = job[w].flag]
                         /\ member' = [member EXCEPT ![c][u] = lastRow + 1]
  BY DEF CommitCreate
<1>4. Mem[c] = {}
  BY <1>3 DEF IInv, NoOrphans, HasRow, Mem, MembersOf
<1>5. Mem' = [Mem EXCEPT ![c] = @ \cup {u}]
  <2>1. lastRow + 1 \in Nat \ {0}
    BY DEF IInv, Tables
  <2> QED BY <1>2, <1>3, <2>1, MemEnters DEF IInv
<1>6. Mem' = [Mem EXCEPT ![c] = {u}]
  BY <1>4, <1>5
<1>7. UNCHANGED <<Asks, active, deleted>>
  BY MemAsksSame DEF CommitCreate
<1>8. Registry!CreateClub(u, c, job[w].flag)
  BY <1>2, <1>3, <1>6, <1>7 DEF Registry!CreateClub, Registry!CanAct, Mem, Asks
<1> QED BY <1>2, <1>8 DEF Implements, Registry!Next, Registry!ClubStep

\* The leader's operations on the club row.
LEMMA LeaderKnows ==
    ASSUME IInv, AllKnow, NEW w \in Workers, NEW op \in LeaderOps, AtCommit(w, op)
    PROVE  /\ job[w].actor \in Users /\ job[w].club \in Clubs
           /\ Registry!CanAct(job[w].actor) /\ Registry!Leads(job[w].actor, job[w].club)
           /\ Registry!HasRow(job[w].club) /\ HasRow(job[w].club)
           /\ op \notin {"update", "delete"} => job[w].target \in Users
           /\ op \in {"remove", "transfer"} => job[w].target # job[w].actor
           /\ job[w].flag \in BOOLEAN
<1>1. op \in AllOps /\ op \in OnClub
  BY DEF LeaderOps, AllOps, OnClub
<1>2. job[w] \in Requests /\ CallOf(job[w]) \in Calls /\ job[w].op = op /\ Knows(job[w])
      /\ job[w].pc = "commit"
  BY <1>1, AtCommitKnows
<1>3. Admits(job[w].club, job[w]) /\ job[w].actor \in active \ deleted
  BY <1>1, <1>2 DEF Knows, OnClub
<1>4. /\ job[w].actor \in Users /\ job[w].club \in Clubs
      /\ op \notin {"update", "delete"} => job[w].target \in Users
      /\ job[w].flag \in BOOLEAN
  BY <1>2, CallFacts DEF LeaderOps, AllOps
<1> QED BY <1>2, <1>3, <1>4 DEF Admits, HasRow, LeaderOps,
            Registry!CanAct, Registry!Leads, Registry!HasRow

LEMMA ClubRowImplements ==
    ASSUME IInv, AllKnow, NEW w \in Workers,
           CommitUpdate(w) \/ CommitDelete(w) \/ CommitTransfer(w)
    PROVE  Implements
<1>0. PICK u, c, v : u = job[w].actor /\ c = job[w].club /\ v = job[w].target
  OBVIOUS
<1> USE <1>0
<1>1. CASE CommitUpdate(w)
  <2>1. AtCommit(w, "update")
    BY <1>1 DEF CommitUpdate
  <2>2. /\ u \in Users /\ c \in Clubs /\ Registry!CanAct(u) /\ Registry!Leads(u, c) /\ HasRow(c)
        /\ job[w].flag \in BOOLEAN
    BY <2>1, LeaderKnows DEF LeaderOps
  <2>3. job[w].seen = private[c]
    BY <2>1, AtCommitKnows DEF Knows, AllOps, OnClub
  <2>4. private' = [private EXCEPT ![c] = job[w].flag]
    BY <1>1, <2>2, <2>3 DEF CommitUpdate, IInv, Tables
  <2>5. UNCHANGED <<status, leader, Mem, Asks, active, deleted>>
    BY <1>1, MemAsksSame DEF CommitUpdate
  <2>6. Registry!UpdateClub(u, c, job[w].flag)
    BY <2>2, <2>4, <2>5 DEF Registry!UpdateClub, Mem, Asks
  <2> QED BY <2>2, <2>6 DEF Implements, Registry!Next, Registry!ClubStep
<1>2. CASE CommitDelete(w)
  <2>1. AtCommit(w, "delete")
    BY <1>2 DEF CommitDelete
  <2>2. u \in Users /\ c \in Clubs /\ Registry!CanAct(u) /\ Registry!Leads(u, c)
    BY <2>1, LeaderKnows DEF LeaderOps
  <2>3. /\ status' = [status EXCEPT ![c] = "deleted"]
        /\ leader' = [leader EXCEPT ![c] = Nobody]
        /\ private' = [private EXCEPT ![c] = FALSE]
        /\ member' = [member EXCEPT ![c] = [x \in Users |-> 0]]
        /\ request' = [request EXCEPT ![c] = [x \in Users |-> NoRequest]]
        /\ UNCHANGED <<active, deleted>>
    BY <1>2 DEF CommitDelete
  <2>4. Mem' = [Mem EXCEPT ![c] = {}]
    <3>1. \A d \in Clubs : MembersOf(d)' = IF d = c THEN {} ELSE MembersOf(d)
      BY <2>2, <2>3 DEF IInv, Tables, MembersOf
    <3> QED BY <3>1 DEF Mem
  <2>5. Asks' = [Asks EXCEPT ![c] = [x \in Users |-> "none"]]
    <3>1. \A d \in Clubs, x \in Users :
            request'[d][x].status = IF d = c THEN "none" ELSE request[d][x].status
      BY <2>2, <2>3 DEF IInv, Tables, NoRequest
    <3>2. \A d \in Clubs : [x \in Users |-> request[d][x].status]' =
                           IF d = c THEN [x \in Users |-> "none"] ELSE [x \in Users |-> request[d][x].status]
      BY <3>1
    <3> QED BY <3>2 DEF Asks
  <2>6. Registry!DeleteClub(u, c)
    BY <2>2, <2>3, <2>4, <2>5 DEF Registry!DeleteClub, Mem, Asks
  <2> QED BY <2>2, <2>6 DEF Implements, Registry!Next, Registry!ClubStep
<1>3. CASE CommitTransfer(w)
  <2>1. AtCommit(w, "transfer")
    BY <1>3 DEF CommitTransfer
  <2>2. /\ u \in Users /\ c \in Clubs /\ Registry!CanAct(u) /\ Registry!Leads(u, c) /\ HasRow(c)
        /\ v \in Users /\ v # u
    BY <2>1, LeaderKnows DEF LeaderOps
  <2>3. member[c][v] # 0
    BY <2>1, AtCommitKnows DEF Knows, AllOps, Subject
  <2>4. v \in Mem[c]
    BY <2>2, <2>3 DEF Mem, MembersOf
  <2>5. leader' = [leader EXCEPT ![c] = v] /\ UNCHANGED <<status, private, Mem, Asks, active, deleted>>
    BY <1>3, <2>2, MemAsksSame DEF CommitTransfer
  <2>6. Registry!Transfer(u, c, v)
    BY <2>2, <2>4, <2>5 DEF Registry!Transfer, Mem, Asks
  <2> QED BY <2>2, <2>6, TargetSteps
<1> QED BY <1>1, <1>2, <1>3

LEMMA AnswerImplements ==
    ASSUME IInv, AllKnow, NEW w \in Workers, CommitAccept(w) \/ CommitReject(w)
    PROVE  Implements
<1>0. PICK u, c, v : u = job[w].actor /\ c = job[w].club /\ v = job[w].target
  OBVIOUS
<1> USE <1>0
<1>1. PICK op \in {"accept", "reject"} : AtCommit(w, op)
  BY DEF CommitAccept, CommitReject
<1>2. /\ u \in Users /\ c \in Clubs /\ Registry!CanAct(u) /\ Registry!Leads(u, c) /\ HasRow(c)
      /\ v \in Users
  BY <1>1, LeaderKnows DEF LeaderOps
<1>3. request[c][v].status = "PENDING" /\ request[c][v].id = job[w].row /\ job[w].row # 0
      /\ job[w] \in Requests
  BY <1>1, AtCommitKnows DEF Knows, AllOps, Staged
<1>4. StillThere(job[w])
  BY <1>3 DEF StillThere
<1>5. Asks[c][v] = "PENDING"
  BY <1>2, <1>3 DEF Asks
<1>6. CASE CommitAccept(w)
  <2>1. CASE ~MemberFits(c, v)
    BY <1>6, <2>1, Stutters DEF CommitAccept, db
  <2>2. CASE MemberFits(c, v)
    <3> DEFINE row == [request[c][v] EXCEPT !.status = "ACCEPTED"]
    <3>1. row \in Asked /\ row.status = "ACCEPTED"
      BY <1>2, <1>3, <1>4, Answerable
    <3>2. /\ request' = [request EXCEPT ![c][v] = row]
          /\ member' = [member EXCEPT ![c][v] = lastRow + 1] /\ lastRow + 1 \in Nat \ {0}
          /\ UNCHANGED <<status, leader, private, active, deleted>>
      BY <1>4, <1>6, <2>2 DEF CommitAccept, IInv, Tables
    <3> HIDE DEF row
    <3>3. Mem' = [Mem EXCEPT ![c] = @ \cup {v}]
      BY <1>2, <3>2, MemEnters DEF IInv
    <3>4. Asks' = [Asks EXCEPT ![c][v] = "ACCEPTED"]
      <4>1. Tables
        BY DEF IInv
      <4>2. row \in Asked /\ request' = [request EXCEPT ![c][v] = row]
        BY <3>1, <3>2
      <4>3. Asks' = [Asks EXCEPT ![c][v] = row.status]
        BY <1>2, <4>1, <4>2, AsksWritten, Zenon
      <4> QED BY <3>1, <4>3
    <3>5. v \notin Mem[c]
      BY <1>2, <2>2 DEF MemberFits, Mem, MembersOf
    <3>6. Registry!Accept(u, c, v)
      BY <1>2, <1>5, <3>2, <3>3, <3>4, <3>5 DEF Registry!Accept, Mem, Asks
    <3> QED BY <1>2, <3>6, TargetSteps
  <2> QED BY <2>1, <2>2
<1>7. CASE CommitReject(w)
  <2> DEFINE row == [request[c][v] EXCEPT !.status = "REJECTED"]
  <2>1. row \in Asked /\ row.status = "REJECTED"
    BY <1>2, <1>3, <1>4, Answerable
  <2>2. /\ request' = [request EXCEPT ![c][v] = row]
        /\ UNCHANGED <<status, leader, private, Mem, active, deleted>>
    BY <1>4, <1>7, MemAsksSame DEF CommitReject
  <2> HIDE DEF row
  <2>3. Asks' = [Asks EXCEPT ![c][v] = "REJECTED"]
    <3>1. Tables
      BY DEF IInv
    <3>2. row \in Asked /\ request' = [request EXCEPT ![c][v] = row]
      BY <2>1, <2>2
    <3>3. Asks' = [Asks EXCEPT ![c][v] = row.status]
      BY <1>2, <3>1, <3>2, AsksWritten, Zenon
    <3> QED BY <2>1, <3>3
  <2>4. Registry!Reject(u, c, v)
    BY <1>2, <1>5, <2>2, <2>3 DEF Registry!Reject, Mem, Asks
  <2> QED BY <1>2, <2>4, TargetSteps
<1> QED BY <1>6, <1>7

LEMMA EnterImplements ==
    ASSUME IInv, AllKnow, NEW w \in Workers, CommitJoin(w) \/ CommitRequest(w)
    PROVE  Implements
<1>0. PICK u, c : u = job[w].actor /\ c = job[w].club
  OBVIOUS
<1> USE <1>0
<1>1. AtCommit(w, "join")
  BY DEF CommitJoin, CommitRequest
<1>2. u \in Users /\ c \in Clubs /\ u \in active \ deleted
  BY <1>1, AtCommitKnows, CallFacts DEF AllOps, Knows
<1>3. /\ status[c] = "live"
      /\ private[c] => leader[c] # u
      /\ job[w].seen = private[c] /\ member[c][u] = 0 /\ private[c] \in BOOLEAN
  BY <1>1, <1>2, AtCommitKnows DEF AllOps, OnClub, Knows, Admits, Subject, IInv, Tables
<1>4. u \notin Mem[c]
  BY <1>2, <1>3 DEF Mem, MembersOf
<1>5. CASE CommitJoin(w)
  <2>1. CASE ~MemberFits(c, u)
    BY <1>5, <2>1, Stutters DEF CommitJoin, db
  <2>2. CASE MemberFits(c, u)
    <3>1. /\ ~private[c] /\ member' = [member EXCEPT ![c][u] = lastRow + 1]
          /\ UNCHANGED <<status, leader, private, Asks, active, deleted>>
      BY <1>3, <1>5, <2>2, MemAsksSame DEF CommitJoin
    <3>2. lastRow + 1 \in Nat \ {0}
      BY DEF IInv, Tables
    <3>3. Mem' = [Mem EXCEPT ![c] = @ \cup {u}]
      BY <1>2, <3>1, <3>2, MemEnters DEF IInv
    <3>4. Registry!JoinPublic(u, c)
      BY <1>2, <1>3, <1>4, <3>1, <3>3 DEF Registry!JoinPublic, Registry!CanAct, Mem, Asks
    <3> QED BY <1>2, <3>4 DEF Implements, Registry!Next, Registry!ClubStep
  <2> QED BY <2>1, <2>2
<1>6. CASE CommitRequest(w)
  <2>1. CASE ~RequestFits(c, u)
    BY <1>6, <2>1, Stutters DEF CommitRequest, db
  <2>2. CASE RequestFits(c, u)
    <3> DEFINE row == [id |-> lastRow + 1, status |-> "PENDING"]
    <3>1. row \in Asked /\ row.status = "PENDING"
      BY DEF Asked, IInv, Tables
    <3>2. /\ private[c] /\ request[c][u] = NoRequest /\ request' = [request EXCEPT ![c][u] = row]
          /\ UNCHANGED <<status, leader, private, Mem, active, deleted>>
      BY <1>3, <1>6, <2>2, MemAsksSame DEF CommitRequest, RequestFits
    <3> HIDE DEF row
    <3>3. Asks' = [Asks EXCEPT ![c][u] = "PENDING"]
      <4>1. Tables
        BY DEF IInv
      <4>2. row \in Asked /\ request' = [request EXCEPT ![c][u] = row]
        BY <3>1, <3>2
      <4>3. Asks' = [Asks EXCEPT ![c][u] = row.status]
        BY <1>2, <4>1, <4>2, AsksWritten, Zenon
      <4> QED BY <3>1, <4>3
    <3>4. Asks[c][u] = "none"
      BY <1>2, <3>2 DEF Asks, NoRequest
    <3>5. Registry!RequestJoin(u, c)
      BY <1>2, <1>3, <1>4, <3>2, <3>3, <3>4 DEF Registry!RequestJoin, Registry!CanAct, Mem, Asks
    <3> QED BY <1>2, <3>5 DEF Implements, Registry!Next, Registry!ClubStep
  <2> QED BY <2>1, <2>2
<1> QED BY <1>5, <1>6

LEMMA DropImplements ==
    ASSUME IInv, AllKnow, NEW w \in Workers, CommitDrop(w)
    PROVE  Implements
<1> DEFINE u == job[w].actor
           c == job[w].club
           v == Subject(job[w])
<1>1. PICK op \in {"leave", "remove"} : AtCommit(w, op)
  BY DEF CommitDrop
<1>2. /\ job[w] \in Requests /\ CallOf(job[w]) \in Calls /\ job[w].op = op
      /\ job[w].pc = "commit" /\ Knows(job[w])
  BY <1>1, AtCommitKnows DEF AllOps
<1>3. u \in Users /\ c \in Clubs /\ v \in Users /\ u \in active \ deleted
  BY <1>2, CallFacts DEF AllOps, Knows
<1>4. member[c][v] = job[w].row /\ job[w].row # 0 /\ Admits(c, job[w])
  BY <1>2 DEF Knows, OnClub, AllOps
<1>5. /\ member' = [member EXCEPT ![c][v] = 0]
      /\ UNCHANGED <<status, leader, private, Asks, active, deleted>>
  BY <1>4, MemAsksSame DEF CommitDrop
<1>6. Mem' = [Mem EXCEPT ![c] = @ \ {v}] /\ v \in Mem[c]
  BY <1>3, <1>4, <1>5, MemLeaves DEF IInv, Mem, MembersOf
<1>7. CASE op = "leave"
  <2>1. v = u /\ HasRow(c) /\ leader[c] # u
    BY <1>2, <1>4, <1>7 DEF Subject, Admits
  <2>2. Registry!Leave(u, c)
    BY <1>3, <1>5, <1>6, <2>1 DEF Registry!Leave, Registry!CanAct, Registry!HasRow, HasRow, Mem, Asks
  <2> QED BY <1>3, <2>2 DEF Implements, Registry!Next, Registry!ClubStep
<1>8. CASE op = "remove"
  <2>1. v = job[w].target
    BY <1>2, <1>8 DEF Subject
  <2>2. Registry!CanAct(u) /\ Registry!Leads(u, c) /\ v # u
    BY <1>1, <1>8, <2>1, LeaderKnows DEF LeaderOps
  <2>3. Registry!Remove(u, c, v)
    BY <1>5, <1>6, <2>2 DEF Registry!Remove, Mem, Asks
  <2> QED BY <1>3, <2>3, TargetSteps
<1> QED BY <1>7, <1>8

LEMMA SetActiveImplements ==
    ASSUME IInv, AllKnow, NEW w \in Workers, CommitSetActive(w)
    PROVE  Implements
<1>1. AtCommit(w, "set_active")
  BY DEF CommitSetActive
<1>2. job[w].target \in Users /\ job[w].flag \in BOOLEAN
  BY <1>1, AtCommitKnows, CallFacts DEF AllOps
<1>3. UNCHANGED <<status, leader, private, Mem, Asks, deleted>>
  BY MemAsksSame DEF CommitSetActive
<1>4. Registry!SetActive(job[w].target, job[w].flag)
  BY <1>3 DEF CommitSetActive, Registry!SetActive, Mem, Asks
<1> QED BY <1>2, <1>4 DEF Implements, Registry!Next, Registry!AccountStep

\* The heirs read one by one are an heir for each club that has one.
LEMMA CloseImplements ==
    ASSUME IInv, AllKnow, NEW w \in Workers, CommitClose(w)
    PROVE  Implements
<1>0. PICK u : u = job[w].actor
  OBVIOUS
<1> USE <1>0
<1> DEFINE heir == job[w].heir
           led == DOMAIN job[w].heir
           inherited == {c \in Registry!Led(u) : Registry!Heirs(u, c) # {}}
           pick == [c \in inherited |-> heir[c]]
<1>1. AtCommit(w, "close")
  BY DEF CommitClose
<1>2. u \in Users /\ u \in active \ deleted
  BY <1>1, AtCommitKnows, CallFacts DEF AllOps, Knows
<1>3. led = Registry!Led(u)
  BY <1>1, AtCommitKnows DEF Knows, AllOps, Registry!Led, Registry!Leads, Registry!HasRow, HasRow
<1>4. \A c \in led : c \in Clubs /\ HasRow(c) /\ heir[c] \in FirstToJoin(c, u)
  BY <1>1, AtCommitKnows DEF Knows, AllOps
<1>5. \A c \in led : Registry!Heirs(u, c) = (MembersOf(c) \ {u}) \cap active
  BY <1>4 DEF Registry!Heirs
<1>6. \A c \in led : IF c \in inherited THEN heir[c] \in Registry!Heirs(u, c) /\ heir[c] \in Users
                                        ELSE heir[c] = Nobody
  BY <1>3, <1>4, <1>5 DEF FirstToJoin, MembersOf
<1>7. inherited = {c \in led : heir[c] # Nobody}
  BY <1>3, <1>6, HandlersAssumption
<1>8. /\ status' = [c \in Clubs |->
             IF c \in led /\ ~(c \in led /\ heir[c] # Nobody) THEN "archived" ELSE status[c]]
      /\ leader' = [c \in Clubs |-> IF c \in led /\ heir[c] # Nobody THEN heir[c] ELSE leader[c]]
      /\ member' = [c \in Clubs |-> [member[c] EXCEPT ![u] = 0]]
      /\ request' = [c \in Clubs |-> [request[c] EXCEPT ![u] = NoRequest]]
      /\ active' = active \ {u} /\ deleted' = deleted \cup {u}
      /\ UNCHANGED private
  BY <1>4 DEF CommitClose
<1>9. Mem' = [c \in Clubs |-> Mem[c] \ {u}]
  <2>1. \A c \in Clubs : MembersOf(c)' = MembersOf(c) \ {u}
    BY <1>2, <1>8 DEF IInv, Tables, MembersOf
  <2> QED BY <2>1 DEF Mem
<1>10. Asks' = [c \in Clubs |-> [Asks[c] EXCEPT ![u] = "none"]]
  <2>1. \A c \in Clubs, v \in Users :
          request'[c][v].status = IF v = u THEN "none" ELSE request[c][v].status
    BY <1>2, <1>8 DEF IInv, Tables, NoRequest
  <2>2. \A c \in Clubs : [v \in Users |-> request[c][v].status]' =
                         [[v \in Users |-> request[c][v].status] EXCEPT ![u] = "none"]
    BY <2>1
  <2> QED BY <2>2 DEF Asks
<1>11. pick \in [inherited -> Users] /\ \A c \in inherited : pick[c] \in Registry!Heirs(u, c)
  BY <1>3, <1>6
<1>12. leader' = [c \in Clubs |-> IF c \in inherited THEN pick[c] ELSE leader[c]]
  BY <1>7, <1>8
<1>13. status' = [c \in Clubs |-> IF c \in Registry!Led(u) \ inherited THEN "archived" ELSE status[c]]
  BY <1>3, <1>7, <1>8
<1> HIDE DEF pick
<1>14. Registry!DeleteAccount(u)
  BY <1>2, <1>8, <1>9, <1>10, <1>11, <1>12, <1>13 DEF Registry!DeleteAccount, Registry!CanAct, Mem, Asks
<1> QED BY <1>2, <1>14 DEF Implements, Registry!Next, Registry!AccountStep

LEMMA StepImplements ==
    ASSUME OneAtATime, IInv, AllKnow, [Next]_vars
    PROVE  Implements
<1>1. CASE UNCHANGED vars
  BY <1>1, Stutters DEF vars
<1>2. ASSUME NEW w \in Workers, Begin(w) PROVE Implements
  BY <1>2, Stutters DEF Begin
<1>3. ASSUME NEW w \in Workers, Read(w) PROVE Implements
  BY <1>3, Stutters DEF Read, LoadClub, LoadMember, LoadPending, LoadRequest, LoadLed, PickHeirs
<1>4. ASSUME NEW w \in Workers, Write(w) PROVE Implements
  <2>1. CASE Fail(w)
    BY <2>1, Stutters DEF Fail
  <2> QED BY <1>4, <2>1, CreateImplements, ClubRowImplements, EnterImplements, AnswerImplements,
             DropImplements, SetActiveImplements, CloseImplements DEF Write
<1> QED BY <1>1, <1>2, <1>3, <1>4 DEF Next, Serve

LEMMA InitImplements == Init => Registry!Init /\ AllKnow
<1> SUFFICES ASSUME Init PROVE Registry!Init /\ AllKnow
  OBVIOUS
<1>1. Mem = [c \in Clubs |-> {}]
  BY DEF Init, Mem, MembersOf
<1>2. Asks = [c \in Clubs |-> [u \in Users |-> "none"]]
  BY DEF Init, Asks, NoRequest
<1>3. AllKnow
  BY DEF AllKnow, Init, Idle, Requests
<1> QED BY <1>1, <1>2, <1>3 DEF Init, Registry!Init, Mem, Asks

\* One request at a time, the handlers implement the registry.
THEOREM ServesTheRegistry == OneAtATime => (Spec => Serial)
<1> SUFFICES ASSUME OneAtATime PROVE Spec => Serial
  OBVIOUS
<1>1. IInv /\ AllKnow /\ [Next]_vars => AllKnow' /\ [Registry!Next]_(Registry!vars)
  BY KnowsStep, StepImplements DEF Implements
<1> QED BY <1>1, InitImplements, Invariance, PTL DEF Spec, Serial, Registry!Spec

Final ==
    \A c \in Clubs, u \in Users : Asks[c][u] \in Registry!Resolved =>
       Asks'[c][u] \in {Asks[c][u], "none"}

\* One request at a time, the answer to a join request is final: that two
\* answers may follow each other takes two requests in flight.
THEOREM AnswersStand == OneAtATime => (Spec => AnswerIsFinal)
<1> SUFFICES ASSUME OneAtATime PROVE Spec => AnswerIsFinal
  OBVIOUS
<1>1. IInv /\ AllKnow /\ [Next]_vars => AllKnow' /\ [Final]_(Registry!vars)
  <2> SUFFICES ASSUME IInv, AllKnow, [Next]_vars PROVE Final \/ UNCHANGED Registry!vars
    BY KnowsStep
  <2>1. CASE UNCHANGED Registry!vars
    BY <2>1
  <2>2. CASE Registry!Next
    <3> DEFINE TypedAsks == Asks \in [Clubs -> [Users -> {"none", "PENDING"} \cup Registry!Resolved]]
    <3>1. TypedAsks
      BY IInvType DEF TypeOK, Registry!TypeOK, Asks
    <3> HIDE DEF TypedAsks
    <3>2. ASSUME NEW u \in Users, NEW d \in Clubs, Registry!ClubStep(u, d) PROVE Final
      <4>1. \/ Asks' = Asks
            \/ Asks' = [Asks EXCEPT ![d] = [x \in Users |-> "none"]]
            \/ Asks[d][u] = "none" /\ Asks' = [Asks EXCEPT ![d][u] = "PENDING"]
            \/ \E v \in Users, answer \in Registry!Resolved :
                 Asks[d][v] = "PENDING" /\ Asks' = [Asks EXCEPT ![d][v] = answer]
        BY <3>2 DEF Registry!ClubStep, Registry!CreateClub, Registry!UpdateClub,
             Registry!DeleteClub, Registry!JoinPublic, Registry!RequestJoin, Registry!Leave,
             Registry!Accept, Registry!Reject, Registry!Remove, Registry!Transfer,
             Registry!Resolved, Asks
      <4> QED BY <3>1, <4>1 DEF TypedAsks, Final, Registry!Resolved
    <3>3. ASSUME NEW u \in Users, Registry!AccountStep(u) PROVE Final
      <4>1. Asks' = Asks \/ Asks' = [c \in Clubs |-> [Asks[c] EXCEPT ![u] = "none"]]
        BY <3>3 DEF Registry!AccountStep, Registry!DeleteAccount, Registry!SetActive, Asks
      <4> QED BY <3>1, <4>1 DEF TypedAsks, Final
    <3> QED BY <2>2, <3>2, <3>3 DEF Registry!Next
  <2> QED BY <2>1, <2>2, StepImplements DEF Implements
<1> QED BY <1>1, InitImplements, Invariance, PTL
        DEF Spec, AnswerIsFinal, Registry!AnswerIsFinal, Final, Asks
=============================================================================
