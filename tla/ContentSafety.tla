---------------------------- MODULE ContentSafety ----------------------------
(***************************************************************************)
(* Reports, blocks, moderation and what a viewer is shown.                 *)
(*                                                                         *)
(* The content of one club: posts, comments and chat messages alike are    *)
(* items with an author.  All handlers here are def: they run in the       *)
(* thread pool and interleave between any two SELECTs.  A list (posts,     *)
(* comments, messages) asks whom the viewer blocked, then what the viewer  *)
(* reported, then for the items.  Two administrators may have the same     *)
(* report open; the ORM writes the columns in which the decision differs   *)
(* from what was loaded, so their decisions can mix in one row.            *)
(***************************************************************************)
EXTENDS Integers, FiniteSets

CONSTANTS Users, Items, Workers

VARIABLES
    author,   \* author[x]: who wrote x; never changes
    admins,   \* the accounts with the role ADMIN; never changes
    item,     \* item[x]: "shown", "removed" (is_removed) or "gone" (no row)
    club,     \* the club's row exists
    report,   \* report[u][x]: u's report of x, NoReport when there is none
    blocks,   \* pairs <<blocker, blocked>>
    active,   \* the accounts whose is_active is set
    job,      \* job[w]: the request worker w is serving
    clash     \* history: reports written by somebody who had loaded an older row

vars == <<author, admins, item, club, report, blocks, active, job, clash>>
content == <<author, admins, item, club>>

NoReport == [status |-> "none", action |-> "NONE"]
Final == {"RESOLVED", "DISMISSED"}
Removing == {"REMOVE_CONTENT", "REMOVE_AND_SUSPEND"}
Suspending == {"SUSPEND_USER", "REMOVE_AND_SUSPEND"}
Statuses == {"PENDING", "IN_REVIEW", "RESOLVED", "DISMISSED"}
Actions == {"NONE"} \cup Removing \cup Suspending

\* Faulty variant: the schema lets a dismissal carry an action.
Decisions_AnyAction ==
    [status : {"IN_REVIEW"}, action : {"NONE"}] \cup [status : Final, action : Actions]

\* What AdminModerationUpdate lets through.
Decisions ==
    [status : {"IN_REVIEW", "DISMISSED"}, action : {"NONE"}]
    \cup
    [status : {"RESOLVED"}, action : Actions]

Idle == [pc |-> "idle"]

Init ==
    /\ author \in [Items -> Users]
    /\ admins \in SUBSET Users
    /\ item = [x \in Items |-> "shown"]
    /\ club = TRUE
    /\ report = [u \in Users |-> [x \in Items |-> NoReport]]
    /\ blocks = {}
    /\ active = Users
    /\ job = [w \in Workers |-> Idle]
    /\ clash = {}

At(w, pc) == job[w].pc = pc
Reply(w) == job' = [job EXCEPT ![w] = Idle]

-----------------------------------------------------------------------------
(* create_content_report.                                                  *)

\* The target is there and not removed, the reporter a member of its club and
\* not its author.
LoadForReport(w) ==
    /\ At(w, "idle")
    /\ \E u \in active, x \in Items :
         /\ item[x] = "shown"
         /\ author[x] # u
         /\ job' = [job EXCEPT ![w] = [pc |-> "insert", op |-> "report", user |-> u, item |-> x]]
    /\ UNCHANGED <<content, report, blocks, active, clash>>

\* unique (reporter, target), and a foreign key to the club but none to the
\* target: what is reported may be gone.
InsertReport(w) ==
    LET u == job[w].user
        x == job[w].item
    IN
    /\ At(w, "insert")
    /\ report' = IF club /\ report[u][x] = NoReport
                 THEN [report EXCEPT ![u][x].status = "PENDING"]
                 ELSE report
    /\ Reply(w)
    /\ UNCHANGED <<content, blocks, active, clash>>

-----------------------------------------------------------------------------
(* block_user, unblock_user.                                               *)

Block(u, v) ==
    /\ u \in active /\ u # v
    /\ blocks' = blocks \cup {<<u, v>>}
    /\ UNCHANGED <<content, report, active, job, clash>>

\* A list in flight may show again what the end of a block uncovers.
Uncover(left) ==
    /\ blocks' = left
    /\ job' = [w \in Workers |->
         IF job[w].pc \in {"reports", "items"}
         THEN [job[w] EXCEPT !.hidden =
                {x \in @ : \/ <<job[w].user, author[x]>> \in left
                           \/ report[job[w].user][x] # NoReport
                           \/ item[x] # "shown"}]
         ELSE job[w]]

Unblock(u, v) ==
    /\ u \in active
    /\ <<u, v>> \in blocks
    /\ Uncover(blocks \ {<<u, v>>})
    /\ UNCHANGED <<content, report, active, clash>>

-----------------------------------------------------------------------------
(* The lists: get_club_posts_service, get_post_comments, get_club_messages. *)

HiddenFrom(u) ==
    {x \in Items : <<u, author[x]>> \in blocks \/ report[u][x] # NoReport \/ item[x] # "shown"}

\* The first SELECT after the membership is checked: get_blocked_user_ids.
\* hidden is history: what was hidden from the viewer all along.
ReadBlocks(w) ==
    /\ At(w, "idle")
    /\ club
    /\ \E u \in active :
         job' = [job EXCEPT ![w] =
           [pc |-> "reports", op |-> "list", user |-> u, hidden |-> HiddenFrom(u),
            blocked |-> {v \in Users : <<u, v>> \in blocks}]]
    /\ UNCHANGED <<content, report, blocks, active, clash>>

\* Faulty variant: the reports of another kind of target are asked for.
ReadReports_OtherKind(w) ==
    /\ At(w, "reports")
    /\ job' = [job EXCEPT ![w] = [reported |-> {}, pc |-> "items", op |-> "list",
         user |-> @.user, hidden |-> @.hidden, blocked |-> @.blocked]]
    /\ UNCHANGED <<content, report, blocks, active, clash>>

\* get_reported_target_ids.
ReadReports(w) ==
    /\ At(w, "reports")
    /\ job' = [job EXCEPT ![w] = [reported |-> {x \in Items : report[@.user][x] # NoReport},
         pc |-> "items", op |-> "list",
         user |-> @.user, hidden |-> @.hidden, blocked |-> @.blocked]]
    /\ UNCHANGED <<content, report, blocks, active, clash>>

\* The WHERE clause of the three lists.
Shown(blocked, reported) ==
    {x \in Items : item[x] = "shown" /\ author[x] \notin blocked /\ x \notin reported}

ReadItems(w) ==
    /\ At(w, "items")
    /\ job' = [job EXCEPT ![w] = [pc |-> "answer", op |-> "list", hidden |-> @.hidden,
         shown |-> Shown(@.blocked, @.reported)]]
    /\ UNCHANGED <<content, report, blocks, active, clash>>

Answer(w) ==
    /\ At(w, "answer")
    /\ Reply(w)
    /\ UNCHANGED <<content, report, blocks, active, clash>>

-----------------------------------------------------------------------------
(* moderate_content_report.                                                *)

\* Faulty variant: a report that is closed can be moderated again.
LoadReport_Closed(w) ==
    /\ At(w, "idle")
    /\ \E u \in Users, x \in Items, d \in Decisions :
         /\ report[u][x] # NoReport
         /\ job' = [job EXCEPT ![w] =
              [pc |-> IF d.action \in Removing THEN "target" ELSE "commit", op |-> "moderate",
               user |-> u, item |-> x, decision |-> d, seen |-> report[u][x],
               active |-> author[x] \in active, stale |-> FALSE, switched |-> FALSE]]
    /\ UNCHANGED <<content, report, blocks, active, clash>>

\* The report and its author are loaded by one SELECT.  An administrator is
\* not suspended from here.
LoadReport(w) ==
    /\ At(w, "idle")
    /\ \E u \in Users, x \in Items, d \in Decisions :
         /\ report[u][x] # NoReport
         /\ report[u][x].status \notin Final
         /\ d.action \in Suspending => author[x] \notin admins
         /\ job' = [job EXCEPT ![w] =
              [pc |-> IF d.action \in Removing THEN "target" ELSE "commit", op |-> "moderate",
               user |-> u, item |-> x, decision |-> d, seen |-> report[u][x],
               active |-> author[x] \in active, stale |-> FALSE, switched |-> FALSE]]
    /\ UNCHANGED <<content, report, blocks, active, clash>>

\* _resolve_target: 404 when the item is gone, and the report stays open.
LoadTarget(w) ==
    /\ At(w, "target")
    /\ IF item[job[w].item] = "gone"
       THEN Reply(w)
       ELSE job' = [job EXCEPT ![w].pc = "commit"]
    /\ UNCHANGED <<content, report, blocks, active, clash>>

\* The ORM updates a column when its new value differs from the one loaded.
Written(current, seen, new) == IF new # seen THEN new ELSE current

\* The others who have the report open now hold an old row.
Outdated(w, u, x) ==
    [v \in Workers |->
       IF v = w THEN Idle
       ELSE IF job[v].pc \in {"target", "commit"} /\ job[v].user = u /\ job[v].item = x
       THEN [job[v] EXCEPT !.stale = TRUE]
       ELSE job[v]]

\* Faulty variant: the second of the two ifs is an elif.
Suspends_ElseIf(d) == d.action \in Suspending \ Removing

Suspends(d) == d.action \in Suspending

\* Content, account and report are written by one COMMIT; if a row to update
\* is gone, the ORM raises and nothing is written.
CommitDecision(w) ==
    LET j == job[w]
        d == j.decision
        u == j.user
        x == j.item
        row == report[u][x]
    IN
    /\ At(w, "commit")
    /\ IF row = NoReport \/ (d.action \in Removing /\ item[x] = "gone")
       THEN Reply(w) /\ UNCHANGED <<item, report, active, clash>>
       ELSE /\ item' = IF d.action \in Removing THEN [item EXCEPT ![x] = "removed"] ELSE item
            /\ active' = IF Suspends(d) /\ j.active THEN active \ {author[x]} ELSE active
            /\ report' = [report EXCEPT ![u][x] =
                 [status |-> Written(row.status, j.seen.status, d.status),
                  action |-> Written(row.action, j.seen.action, d.action)]]
            /\ clash' = IF j.stale THEN clash \cup {<<u, x>>} ELSE clash
            /\ job' = Outdated(w, u, x)
    /\ UNCHANGED <<author, admins, club, blocks>>

-----------------------------------------------------------------------------
(* Around it.                                                              *)

\* set_user_active.
SetActive(u) ==
    /\ active' = IF u \in active THEN active \ {u} ELSE active \cup {u}
    /\ job' = [w \in Workers |->
         IF job[w].pc \in {"target", "commit"} /\ author[job[w].item] = u
         THEN [job[w] EXCEPT !.switched = TRUE]
         ELSE job[w]]
    /\ UNCHANGED <<content, report, blocks, clash>>

\* DELETE /users/me: what the account wrote and its blocks, both ways, go with
\* it; reports by it and about it are kept.
CloseAccount(u) ==
    /\ u \in active
    /\ active' = active \ {u}
    /\ item' = [x \in Items |-> IF author[x] = u THEN "gone" ELSE item[x]]
    /\ Uncover({p \in blocks : u \notin {p[1], p[2]}})
    /\ UNCHANGED <<author, admins, club, report, clash>>

\* The author or the leader deletes a post or a comment.
DeleteItem(x) ==
    /\ item[x] # "gone"
    /\ item' = [item EXCEPT ![x] = "gone"]
    /\ UNCHANGED <<author, admins, club, report, blocks, active, job, clash>>

\* The leader deletes the club: items and reports go with it.
DeleteClub ==
    /\ club
    /\ club' = FALSE
    /\ item' = [x \in Items |-> "gone"]
    /\ report' = [u \in Users |-> [x \in Items |-> NoReport]]
    /\ UNCHANGED <<author, admins, blocks, active, job, clash>>

Next ==
    \/ \E w \in Workers :
         \/ LoadForReport(w) \/ InsertReport(w)
         \/ ReadBlocks(w) \/ ReadReports(w) \/ ReadItems(w) \/ Answer(w)
         \/ LoadReport(w) \/ LoadTarget(w) \/ CommitDecision(w)
    \/ \E u, v \in Users : Block(u, v) \/ Unblock(u, v)
    \/ \E u \in Users : SetActive(u) \/ CloseAccount(u)
    \/ \E x \in Items : DeleteItem(x)
    \/ DeleteClub

Spec == Init /\ [][Next]_vars

-----------------------------------------------------------------------------
(* Properties.                                                             *)

Rows == [status : Statuses, action : Actions]

Jobs ==
    {Idle}
    \cup [pc : {"insert"}, op : {"report"}, user : Users, item : Items]
    \cup [pc : {"reports"}, op : {"list"}, user : Users, hidden : SUBSET Items,
          blocked : SUBSET Users]
    \cup [pc : {"items"}, op : {"list"}, user : Users, hidden : SUBSET Items,
          blocked : SUBSET Users, reported : SUBSET Items]
    \cup [pc : {"answer"}, op : {"list"}, hidden : SUBSET Items, shown : SUBSET Items]
    \cup [pc : {"target", "commit"}, op : {"moderate"}, user : Users, item : Items,
          decision : Decisions, seen : Rows,
          active : BOOLEAN, stale : BOOLEAN, switched : BOOLEAN]

\* Type invariant.
TypeOK ==
    /\ author \in [Items -> Users] /\ admins \subseteq Users
    /\ item \in [Items -> {"shown", "removed", "gone"}]
    /\ club \in BOOLEAN
    /\ report \in [Users -> [Items -> {NoReport} \cup Rows]]
    /\ blocks \subseteq {p \in Users \X Users : p[1] # p[2]}
    /\ active \subseteq Users
    /\ clash \subseteq Users \X Items
    /\ job \in [Workers -> Jobs]

\* A list never shows what was removed, reported by the viewer or written by
\* somebody the viewer had blocked, from before the request until its answer,
\* although it asks for these one after the other.
HiddenStaysHidden ==
    \A w \in Workers : job[w].pc = "answer" => job[w].shown \cap job[w].hidden = {}

\* Only a resolved report carries an action.  The exception is a report on
\* which two decisions crossed: each writes the columns that differ from what
\* its administrator had loaded, so DISMISSED may stay beside REMOVE_CONTENT.
OneDecision ==
    \A u \in Users, x \in Items :
        <<u, x>> \notin clash /\ report[u][x].status # "RESOLVED" => report[u][x].action = "NONE"

\* Content that moderation removed has a report that says so, unless two
\* decisions crossed on one of its reports: the later may overwrite the action.
RemovalOnRecord ==
    \A x \in Items : item[x] = "removed" =>
        \E u \in Users : report[u][x].action \in Removing \/ <<u, x>> \in clash

\* A closed report changes only with its club, or by the COMMIT of a decision
\* whose administrator had loaded the report while it was open: the late one of
\* two that crossed, which may even open the report again.
ClosedStaysClosed ==
    [][\A u \in Users, x \in Items :
         report[u][x].status \in Final /\ report'[u][x] # report[u][x] =>
            \/ ~club'
            \/ \E w \in Workers :
                 /\ At(w, "commit") /\ job'[w] = Idle
                 /\ job[w].user = u /\ job[w].item = x
                 /\ job[w].seen.status \notin Final]_vars

\* When an action is put on record, the content is removed and the author
\* suspended with it: all of the decision or nothing.  The one exception is an
\* author who was inactive when the report was loaded and switched on since.
SanctionsApplied ==
    [][\A u \in Users, x \in Items :
         LET now == report'[u][x].action
             switched == \E w \in Workers : job[w].pc = "commit" /\ job[w].item = x /\ job[w].switched
         IN
         now # report[u][x].action =>
            /\ now \in Removing => item'[x] = "removed"
            /\ now \in Suspending => author[x] \notin active' \/ switched]_vars
=============================================================================
