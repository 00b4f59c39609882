----------------------------- MODULE Complaints -----------------------------
(***************************************************************************)
(* Complaints, their history and evidence, and the notifications their     *)
(* owners get.                                                             *)
(*                                                                         *)
(* Every handler of the complaints router is async: on the event loop it   *)
(* gives way only where it awaits the object store.  A change of status,   *)
(* an edit, a deletion and the list of the staff do not await between      *)
(* their first SELECT and their COMMIT, and that alone keeps what they     *)
(* read true until they write.  Notifications are background tasks: they   *)
(* start after the answer, in the thread pool, with a database session of  *)
(* their own, beside everything else, and die with the process.            *)
(***************************************************************************)
EXTENDS Integers, Sequences, FiniteSets

CONSTANTS
    Ids,          \* identifiers of complaints, never used twice
    Users,        \* accounts that send complaints
    Nobody,       \* no account; as an actor, a member of the staff
    Texts,        \* what a complaint may say
    Workers,      \* requests in flight
    MaxImages,    \* bound: images of a new complaint (3 in the code)
    MaxEvidence   \* bound: evidence uploads of a complaint

ASSUME ComplaintsAssumption ==
    /\ Nobody \notin Users
    /\ IsFiniteSet(Ids) /\ IsFiniteSet(Workers)
    /\ MaxImages \in Nat
    /\ MaxEvidence \in Nat

VARIABLES
    row,      \* row[c]: the complaint's row, NoRow before, Gone after
    owner,    \* owner[c]: id_user of the row, kept after its deletion
    history,  \* history[c]: complaint_status_history, oldest first
    stored,   \* stored[c]: objects under complaints/{id}/
    note,     \* note[c][e]: notification rows that tell of event e
    task,     \* task[c][e]: the background task that tells the owner of e
    active, closed,
    job       \* job[w]: the request worker w is serving

rows == <<row, owner, history, stored>>
notes == <<note, task>>
accounts == <<active, closed>>
vars == <<rows, notes, accounts, job>>

Statuses == {"PENDING", "IN_PROGRESS", "RESOLVED", "REJECTED"}
Events == {"SUBMITTED", "IN_PROGRESS", "RESOLVED", "REJECTED"}

\* _ALLOWED_TRANSITIONS; the final statuses have none.
Allowed == [s \in Statuses |->
    CASE s = "PENDING" -> {"IN_PROGRESS", "REJECTED"}
      [] s = "IN_PROGRESS" -> {"RESOLVED", "REJECTED"}
      [] OTHER -> {}]

NoRow == [type |-> "no_row"]
Gone == [type |-> "gone"]
Exists(c) == row[c] \notin {NoRow, Gone}

Idle == [pc |-> "idle"]

\* A task is queued with the answer and looks is_active up before its INSERT.
\* It ends "told", or "lost" when it never starts or finds the account
\* inactive; "raced" and "told_late" are the same as "looked" and "told", of
\* an account closed in between.
Tasks == {"none", "queued", "looked", "raced", "told", "told_late", "lost"}

Init ==
    /\ row = [c \in Ids |-> NoRow]
    /\ owner = [c \in Ids |-> Nobody]
    /\ history = [c \in Ids |-> <<>>]
    /\ stored = [c \in Ids |-> 0]
    /\ note = [c \in Ids |-> [e \in Events |-> 0]]
    /\ active = Users
    /\ closed = {}
    /\ job = [w \in Workers |-> Idle]
    /\ task = [c \in Ids |-> [e \in Events |-> "none"]]

-----------------------------------------------------------------------------
(* The event loop.                                                         *)

\* Faulty variant: the handlers are def, so they run in the thread pool.
InSection_Threaded(w) == FALSE

\* The handler is between its first SELECT and its COMMIT or last SELECT, and
\* does not await there.
InSection(w) == job[w].pc \in {"commit", "total", "page"}

MayRun(w) == \A v \in Workers \ {w} : ~InSection(v)

At(w, pc) == job[w].pc = pc /\ MayRun(w)

Reply(w) == job' = [job EXCEPT ![w] = Idle]

\* A request of an active account, or of the staff (require_staff_role; some
\* member of it is always active): authentication, the checks of the router
\* and the handler's first SELECT are one step.  A refused request changes
\* nothing.
Begin(w, actor, fields) ==
    /\ At(w, "idle")
    /\ actor \in active \cup {Nobody}
    /\ job' = [job EXCEPT ![w] = fields]
    /\ UNCHANGED <<rows, notes, accounts>>

-----------------------------------------------------------------------------
(* create_complaint.                                                       *)

\* The INSERT is flushed: the complaint takes its identifier from the sequence
\* and stays invisible until the COMMIT.  Suggestions carry no images.  (An
\* identifier that left no trace may stand for the next one.)
BeginCreate(w) ==
    \E c \in Ids, u \in Users, type \in {"REPORT", "SUGGESTION"}, text \in Texts,
       n \in 0..MaxImages :
        /\ owner[c] = Nobody /\ stored[c] = 0
        /\ \A v \in Workers : job[v] # Idle => job[v].id # c
        /\ type = "SUGGESTION" => n = 0
        /\ Begin(w, u, [pc |-> "upload", op |-> "create", id |-> c, actor |-> u,
                       type |-> type, text |-> text, images |-> n, left |-> n])

\* One image reaches the object store, or the handler answers an error: the
\* transaction is dropped, the images uploaded before stay.
UploadImage(w) ==
    /\ At(w, "upload")
    /\ job[w].op = "create"
    /\ job[w].left > 0
    /\ \/ /\ stored' = [stored EXCEPT ![job[w].id] = @ + 1]
          /\ job' = [job EXCEPT ![w].left = @ - 1]
       \/ Reply(w) /\ UNCHANGED stored
    /\ UNCHANGED <<row, owner, history, notes, accounts>>

\* After the COMMIT the answer is built, which signs the address of every
\* image; only an answer takes the background task with it.
CommitCreate(w) ==
    LET j == job[w] IN
    /\ At(w, "upload")
    /\ j.op = "create"
    /\ j.left = 0
    /\ row' = [row EXCEPT ![j.id] =
         [type |-> j.type, text |-> j.text, images |-> j.images, evidence |-> 0,
          status |-> IF j.type = "REPORT" THEN "PENDING" ELSE "none"]]
    /\ owner' = [owner EXCEPT ![j.id] = j.actor]
    /\ history' = IF j.type = "REPORT"
                  THEN [history EXCEPT ![j.id] = <<[old |-> "none", new |-> "PENDING"]>>]
                  ELSE history
    /\ job' = [job EXCEPT ![w] = [pc |-> "sign", op |-> "create", id |-> j.id]]
    /\ UNCHANGED <<stored, notes, accounts>>

\* _serialize_complaint awaits one signature per object of the complaint.
Signs(c) == row[c] # Gone /\ row[c].images + row[c].evidence > 0

SignAnswer(w) ==
    LET c == job[w].id IN
    /\ At(w, "sign")
    /\ \/ task' = [task EXCEPT ![c]["SUBMITTED"] = "queued"]
       \/ Signs(c) /\ task' = [task EXCEPT ![c]["SUBMITTED"] = "lost"]
    /\ Reply(w)
    /\ UNCHANGED <<rows, note, accounts>>

-----------------------------------------------------------------------------
(* upload_complaint_evidence.                                              *)

LoadForEvidence(w) ==
    \E c \in Ids :
        /\ row[c].type = "REPORT"
        /\ Begin(w, Nobody, [pc |-> "upload", op |-> "evidence", id |-> c])

UploadEvidence(w) ==
    LET c == job[w].id IN
    /\ At(w, "upload")
    /\ job[w].op = "evidence"
    /\ \/ /\ stored[c] < MaxImages + MaxEvidence
          /\ stored' = [stored EXCEPT ![c] = @ + 1]
          /\ job' = [job EXCEPT ![w].pc = "insert"]
       \/ Reply(w) /\ UNCHANGED stored
    /\ UNCHANGED <<row, owner, history, notes, accounts>>

\* The foreign key refuses evidence of a complaint deleted meanwhile.
CommitEvidence(w) ==
    LET c == job[w].id IN
    /\ At(w, "insert")
    /\ row' = IF Exists(c) THEN [row EXCEPT ![c].evidence = @ + 1] ELSE row
    /\ Reply(w)
    /\ UNCHANGED <<owner, history, stored, notes, accounts>>

-----------------------------------------------------------------------------
(* update_complaint_status, update_complaint, delete_complaint.            *)

LoadForStatus(w) ==
    \E c \in Ids, s \in Statuses :
        /\ row[c].type = "REPORT"
        /\ s \in Allowed[row[c].status]
        /\ s = "RESOLVED" => row[c].evidence > 0
        /\ Begin(w, Nobody, [pc |-> "commit", op |-> "status", id |-> c, arg |-> s,
                            seen |-> row[c].status])

LoadForEdit(w) ==
    \E c \in Ids, u \in Users, text \in Texts :
        /\ row[c].type = "REPORT" /\ owner[c] = u
        /\ row[c].status = "PENDING"
        /\ Begin(w, u, [pc |-> "commit", op |-> "edit", id |-> c, arg |-> text,
                       seen |-> row[c].text])

LoadForDelete(w) ==
    \E c \in Ids : \E u \in {owner[c], Nobody} :
        /\ Exists(c)
        /\ Begin(w, u, [pc |-> "commit", op |-> "delete", id |-> c])

\* Faulty variant: _event_map has no entry for a rejection.
Tells_NotRejections(s) == s \in {"IN_PROGRESS", "RESOLVED"}

\* The statuses whose change the owner is told.
Tells(s) == s \in {"IN_PROGRESS", "RESOLVED", "REJECTED"}

\* The ORM raises when the row it updates is gone.
CommitStatus(w) ==
    LET j == job[w] IN
    /\ At(w, "commit")
    /\ j.op = "status"
    /\ IF Exists(j.id)
       THEN /\ row' = [row EXCEPT ![j.id].status = j.arg]
            /\ history' = [history EXCEPT ![j.id] =
                             Append(@, [old |-> j.seen, new |-> j.arg])]
            /\ task' = IF Tells(j.arg)
                       THEN [task EXCEPT ![j.id][j.arg] = "queued"]
                       ELSE task
       ELSE UNCHANGED <<row, history, task>>
    /\ Reply(w)
    /\ UNCHANGED <<owner, stored, note, accounts>>

CommitEdit(w) ==
    LET j == job[w] IN
    /\ At(w, "commit")
    /\ j.op = "edit"
    /\ row' = IF Exists(j.id) /\ j.arg # j.seen
              THEN [row EXCEPT ![j.id].text = j.arg]
              ELSE row
    /\ Reply(w)
    /\ UNCHANGED <<owner, history, stored, notes, accounts>>

\* Images, evidence and history go with the row; their objects stay.
CommitDelete(w) ==
    LET j == job[w] IN
    /\ At(w, "commit")
    /\ j.op = "delete"
    /\ row' = [row EXCEPT ![j.id] = Gone]
    /\ history' = [history EXCEPT ![j.id] = <<>>]
    /\ Reply(w)
    /\ UNCHANGED <<owner, stored, notes, accounts>>

-----------------------------------------------------------------------------
(* get_all_complaints: three SELECTs, each of which sees what is committed  *)
(* at that moment.                                                         *)

Counted(s) == Cardinality({c \in Ids : Exists(c) /\ row[c].status = s})

\* The counts by status the answer carries; REJECTED is not among them.
ListStats(w) ==
    Begin(w, Nobody, [pc |-> "total", op |-> "list", id |-> Nobody,
      stats |-> Counted("PENDING") + Counted("IN_PROGRESS") + Counted("RESOLVED")])

ListTotal(w) ==
    /\ At(w, "total")
    /\ job' = [job EXCEPT ![w] =
         [pc |-> "page", op |-> "list", id |-> Nobody, stats |-> @.stats,
          total |-> Cardinality({c \in Ids : Exists(c)})]]
    /\ UNCHANGED <<rows, notes, accounts>>

ListPage(w) ==
    /\ At(w, "page")
    /\ Reply(w)
    /\ UNCHANGED <<rows, notes, accounts>>

-----------------------------------------------------------------------------
(* Notifications.                                                          *)

\* Faulty variant: is_active is not asked.
Look_Anybody(c, e) ==
    /\ task[c][e] = "queued"
    /\ task' = [task EXCEPT ![c][e] = "looked"]
    /\ UNCHANGED <<rows, note, accounts, job>>

\* create_notification first asks whether the account is active.
Look(c, e) ==
    /\ task[c][e] = "queued"
    /\ task' = [task EXCEPT ![c][e] = IF owner[c] \in active THEN "looked" ELSE "lost"]
    /\ UNCHANGED <<rows, note, accounts, job>>

\* The row is committed whatever became of the complaint and the account; a
\* push to the device follows and changes nothing here.
Tell(c, e) ==
    /\ task[c][e] \in {"looked", "raced"}
    /\ task' = [task EXCEPT ![c][e] = IF @ = "looked" THEN "told" ELSE "told_late"]
    /\ note' = [note EXCEPT ![c][e] = @ + 1]
    /\ UNCHANGED <<rows, accounts, job>>

-----------------------------------------------------------------------------
(* Accounts and the process.                                               *)

\* DELETE /users/me keeps the complaints and drops the notifications.  While
\* a new complaint of the account is being uploaded its INSERT holds a lock on
\* the account's row, and this handler would wait for it on the event loop
\* itself (module EventLoop).
CloseAccount(u) ==
    /\ u \in active
    /\ \A w \in Workers :
         /\ ~InSection(w)
         /\ ~(job[w].pc = "upload" /\ job[w].op = "create" /\ job[w].actor = u)
    /\ active' = active \ {u}
    /\ closed' = closed \cup {u}
    /\ note' = [c \in Ids |-> IF owner[c] = u THEN [e \in Events |-> 0] ELSE note[c]]
    /\ task' = [c \in Ids |-> [e \in Events |->
         IF owner[c] = u /\ task[c][e] = "looked" THEN "raced" ELSE task[c][e]]]
    /\ UNCHANGED <<rows, job>>

\* An administrator or a moderator switches the account off or on.
SetActive(u) ==
    /\ u \notin closed
    /\ active' = IF u \in active THEN active \ {u} ELSE active \cup {u}
    /\ UNCHANGED <<rows, notes, closed, job>>

\* The process dies and starts again: requests and background tasks are gone,
\* the tables and the object store are not.
Restart ==
    /\ job' = [w \in Workers |-> Idle]
    /\ task' = [c \in Ids |-> [e \in Events |->
         IF \/ task[c][e] \in {"queued", "looked", "raced"}
            \/ e = "SUBMITTED" /\ \E w \in Workers : job[w].pc = "sign" /\ job[w].id = c
         THEN "lost" ELSE task[c][e]]]
    /\ UNCHANGED <<rows, note, accounts>>

-----------------------------------------------------------------------------
Call(w) ==
    \/ BeginCreate(w) \/ LoadForEvidence(w) \/ LoadForStatus(w)
    \/ LoadForEdit(w) \/ LoadForDelete(w) \/ ListStats(w)

Step(w) ==
    \/ UploadImage(w) \/ CommitCreate(w) \/ SignAnswer(w)
    \/ UploadEvidence(w) \/ CommitEvidence(w)
    \/ CommitStatus(w) \/ CommitEdit(w) \/ CommitDelete(w)
    \/ ListTotal(w) \/ ListPage(w)

Background(c, e) == Look(c, e) \/ Tell(c, e)

Next ==
    \/ \E w \in Workers : Call(w) \/ Step(w)
    \/ \E c \in Ids, e \in Events : Background(c, e)
    \/ \E u \in Users : CloseAccount(u) \/ SetActive(u)
    \/ Restart

\* The event loop takes what is ready in the order in which it became ready,
\* so a handler that can go on infinitely often does (strong fairness: other
\* handlers may hold the loop in between).  Pool threads are not stopped.
\* Nobody is obliged to call.
Fairness ==
    /\ \A w \in Workers : SF_vars(Step(w))
    /\ \A c \in Ids, e \in Events : WF_vars(Background(c, e))

Spec == Init /\ [][Next]_vars
FairSpec == Spec /\ Fairness

-----------------------------------------------------------------------------
(* Properties.                                                             *)

\* A row of complaint, with what hangs on it, and a request as it is served.
Rows == [type : {"REPORT", "SUGGESTION"}, text : Texts, images : 0..MaxImages,
         evidence : Nat, status : Statuses \cup {"none"}]

Requests ==
    [pc : {"upload"}, op : {"create"}, id : Ids, actor : Users,
     type : {"REPORT", "SUGGESTION"}, text : Texts, images : 0..MaxImages, left : 0..MaxImages]
    \cup [pc : {"sign"}, op : {"create"}, id : Ids]
    \cup [pc : {"upload", "insert"}, op : {"evidence"}, id : Ids]
    \cup [pc : {"commit"}, op : {"status"}, id : Ids, arg : Statuses, seen : Statuses]
    \cup [pc : {"commit"}, op : {"edit"}, id : Ids, arg : Texts, seen : Texts]
    \cup [pc : {"commit"}, op : {"delete"}, id : Ids]
    \cup [pc : {"total"}, op : {"list"}, id : {Nobody}, stats : Nat]
    \cup [pc : {"page"}, op : {"list"}, id : {Nobody}, stats : Nat, total : Nat]

\* Type invariant.
TypeOK ==
    /\ row \in [Ids -> {NoRow, Gone} \cup Rows]
    /\ owner \in [Ids -> Users \cup {Nobody}]
    /\ history \in [Ids -> Seq([old : Statuses \cup {"none"}, new : Statuses])]
    /\ stored \in [Ids -> Nat]
    /\ note \in [Ids -> [Events -> Nat]]
    /\ task \in [Ids -> [Events -> Tasks]]
    /\ active \subseteq Users /\ closed \subseteq Users \ active
    /\ job \in [Workers -> {Idle} \cup Requests]

\* The history of a report is a path of the allowed transitions that starts
\* when it was sent and ends at its status, and it was not resolved without
\* evidence whose object is stored; a suggestion has none of this.
HistoryIsPath ==
    \A c \in Ids : Exists(c) =>
        LET r == row[c]
            h == history[c]
        IN
        /\ r.images + r.evidence <= stored[c]
        /\ r.type = "SUGGESTION" => h = <<>> /\ r.status = "none" /\ r.evidence = 0
        /\ r.type = "REPORT" =>
             /\ Len(h) > 0
             /\ h[1] = [old |-> "none", new |-> "PENDING"]
             /\ \A i \in 2..Len(h) : h[i].old = h[i - 1].new /\ h[i].new \in Allowed[h[i].old]
             /\ h[Len(h)].new = r.status
             /\ r.status = "RESOLVED" => r.evidence > 0

\* What a complaint says changes only while it is PENDING: an edit and a
\* change of status that were both allowed cannot be written the wrong way
\* round.
EditedWhilePending ==
    [][\A c \in Ids :
         (Exists(c) /\ row'[c] # Gone /\ row[c].text # row'[c].text) => row[c].status = "PENDING"]_vars

\* The list of the staff never counts more complaints by status than it counts
\* in all, although it asks the database twice.
ListAddsUp ==
    \A w \in Workers : job[w].pc = "page" => job[w].stats <= job[w].total

\* The complaint was sent, or its status was e at some time.
Happened(c, e) ==
    IF e = "SUBMITTED" THEN Exists(c) ELSE \E i \in 1..Len(history[c]) : history[c][i].new = e

\* An owner is told once of each change, never of one that did not happen;
\* a closed account gets nothing, unless it was closed between the look at
\* is_active and the INSERT of the task.
NoticesAreTrue ==
    \A c \in Ids, e \in Events : note[c][e] > 0 =>
        /\ note[c][e] = 1
        /\ Happened(c, e) \/ row[c] = Gone
        /\ owner[c] \in closed => task[c][e] = "told_late"

\* Every committed change is told in the end, unless the task was lost with
\* the process or with a failed answer, or found the account inactive.
EveryChangeTold ==
    \A c \in Ids, e \in Events :
        Happened(c, e) ~> (note[c][e] > 0 \/ task[c][e] = "lost" \/ owner[c] \in closed)
=============================================================================
