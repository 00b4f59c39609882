------------------------ MODULE ContentSafety_proofs ------------------------
(***************************************************************************)
(* For any users, items and requests in flight: what was hidden from a     *)
(* viewer stays hidden, a decision is carried out as a whole, and what a   *)
(* closed report says holds unless two decisions crossed on it.            *)
(***************************************************************************)
EXTENDS ContentSafety, TLAPS

Inserting == [pc : {"insert"}, op : {"report"}, user : Users, item : Items]
Reporting ==
    [pc : {"reports"}, op : {"list"}, user : Users, hidden : SUBSET Items, blocked : SUBSET Users]
Fetching ==
    [pc : {"items"}, op : {"list"}, user : Users, hidden : SUBSET Items,
     blocked : SUBSET Users, reported : SUBSET Items]
Answering == [pc : {"answer"}, op : {"list"}, hidden : SUBSET Items, shown : SUBSET Items]
Moderating ==
    [pc : {"target", "commit"}, op : {"moderate"}, user : Users, item : Items,
     decision : Decisions, seen : Rows, active : BOOLEAN, stale : BOOLEAN, switched : BOOLEAN]

\* The step a request is at tells which record it is.
LEMMA Kinds ==
    ASSUME NEW j \in Jobs
    PROVE  /\ j.pc = "insert" => j \in Inserting
           /\ j.pc = "reports" => j \in Reporting
           /\ j.pc = "items" => j \in Fetching
           /\ j.pc = "answer" => j \in Answering
           /\ j.pc \in {"target", "commit"} => j \in Moderating
BY DEF Jobs, Idle, Inserting, Reporting, Fetching, Answering, Moderating

LEMMA JobsAre == Jobs = {Idle} \cup Inserting \cup Reporting \cup Fetching \cup Answering \cup Moderating
BY DEF Jobs, Inserting, Reporting, Fetching, Answering, Moderating

-----------------------------------------------------------------------------
(* The invariant.                                                          *)

\* What is hidden from the viewer of a list is so by what the list has read or
\* by what it still has to read.
Listing(w) ==
    /\ job[w].pc = "reports" => \A x \in job[w].hidden :
         \/ author[x] \in job[w].blocked
         \/ report[job[w].user][x] # NoReport
         \/ item[x] # "shown"
    /\ job[w].pc = "items" => \A x \in job[w].hidden :
         \/ author[x] \in job[w].blocked
         \/ x \in job[w].reported
         \/ item[x] # "shown"
    /\ job[w].pc = "answer" => job[w].shown \cap job[w].hidden = {}

\* An administrator who is alone with a report holds its row as it is, open,
\* and knows whether its author is active.
Deciding(w) ==
    job[w].pc \in {"target", "commit"} =>
        /\ job[w].seen.status \notin Final
        /\ ~job[w].stale /\ club => report[job[w].user][job[w].item] = job[w].seen
        /\ ~job[w].active /\ ~job[w].switched => author[job[w].item] \notin active

IInv ==
    /\ TypeOK
    /\ \A w \in Workers : Listing(w) /\ Deciding(w)
    /\ ~club => \A u \in Users, x \in Items : report[u][x] = NoReport
    /\ OneDecision
    /\ RemovalOnRecord

LEMMA InitInv == Init => IInv
BY DEF Init, IInv, TypeOK, Listing, Deciding, OneDecision, RemovalOnRecord, Jobs, Idle, NoReport, Removing

\* A step that changes one request and leaves the rest of the state alone.
LEMMA OneJob ==
    ASSUME IInv, NEW w \in Workers, NEW j \in Jobs, job' = [job EXCEPT ![w] = j],
           UNCHANGED <<content, report, blocks, active, clash>>,
           Listing(w)', Deciding(w)'
    PROVE  IInv'
<1>1. TypeOK'
  BY DEF IInv, TypeOK, content
<1>2. ASSUME NEW v \in Workers \ {w} PROVE Listing(v)' /\ Deciding(v)'
  <2>1. job'[v] = job[v]
    BY DEF IInv, TypeOK
  <2> QED BY <2>1 DEF IInv, Listing, Deciding, content
<1> QED BY <1>1, <1>2 DEF IInv, OneDecision, RemovalOnRecord, content

\* A request is answered, and nothing else happens.
LEMMA Replied ==
    ASSUME IInv, NEW w \in Workers, Reply(w), UNCHANGED <<content, report, blocks, active, clash>>
    PROVE  IInv'
<1>1. job'[w] = Idle
  BY DEF Reply, IInv, TypeOK
<1>2. Listing(w)' /\ Deciding(w)'
  BY <1>1 DEF Listing, Deciding, Idle
<1>3. Idle \in Jobs
  BY DEF Jobs
<1> QED BY <1>2, <1>3, OneJob DEF Reply

-----------------------------------------------------------------------------
(* Its steps.                                                              *)

LEMMA ReportSteps ==
    ASSUME IInv, NEW w \in Workers, LoadForReport(w) \/ InsertReport(w)
    PROVE  IInv'
<1>1. CASE LoadForReport(w)
  <2>1. PICK u \in active, x \in Items :
          job' = [job EXCEPT ![w] = [pc |-> "insert", op |-> "report", user |-> u, item |-> x]]
    BY <1>1 DEF LoadForReport
  <2>2. u \in Users
    BY DEF IInv, TypeOK
  <2>3. [pc |-> "insert", op |-> "report", user |-> u, item |-> x] \in Jobs
    BY <2>2 DEF Jobs
  <2>4. job'[w].pc = "insert"
    BY <2>1 DEF IInv, TypeOK
  <2> QED BY <1>1, <2>1, <2>3, <2>4, OneJob DEF LoadForReport, Listing, Deciding
<1>2. CASE InsertReport(w)
  <2> DEFINE u == job[w].user
             x == job[w].item
  <2>1. u \in Users /\ x \in Items
    BY <1>2, Kinds DEF InsertReport, At, IInv, TypeOK, Inserting
  <2>2. CASE ~(club /\ report[u][x] = NoReport)
    BY <1>2, <2>2, Replied DEF InsertReport
  <2>3. CASE club /\ report[u][x] = NoReport
    <3>1. /\ report' = [report EXCEPT ![u][x].status = "PENDING"]
          /\ job' = [job EXCEPT ![w] = Idle]
          /\ UNCHANGED <<content, blocks, active, clash>>
      BY <1>2, <2>3 DEF InsertReport, Reply
    <3>2. /\ report'[u][x] = [status |-> "PENDING", action |-> "NONE"]
          /\ \A v \in Users, y \in Items : <<v, y>> # <<u, x>> => report'[v][y] = report[v][y]
          /\ report' \in [Users -> [Items -> {NoReport} \cup Rows]]
      BY <2>1, <2>3, <3>1 DEF IInv, TypeOK, NoReport, Rows, Statuses, Actions
    <3>3. /\ job'[w] = Idle /\ job' \in [Workers -> Jobs]
          /\ \A v \in Workers \ {w} : job'[v] = job[v]
      BY <3>1 DEF IInv, TypeOK, Jobs
    <3>4. TypeOK'
      BY <3>1, <3>2, <3>3 DEF IInv, TypeOK, content
    <3>5. ASSUME NEW v \in Workers \ {w} PROVE Listing(v)' /\ Deciding(v)'
      <4>1. job[v] \in Jobs /\ job'[v] = job[v] /\ Listing(v) /\ Deciding(v)
        BY <3>3 DEF IInv, TypeOK
      <4>2. Listing(v)'
        <5>1. item' = item /\ author' = author
          BY <3>1 DEF content
        <5>2. ASSUME NEW y \in Users, NEW z \in Items, report[y][z] # NoReport
              PROVE  report'[y][z] # NoReport
          BY <3>2, <5>2 DEF NoReport
        <5>3. job[v].pc = "reports" => job[v].user \in Users /\ job[v].hidden \subseteq Items
          BY <4>1, Kinds DEF Reporting
        <5> QED BY <4>1, <5>1, <5>2, <5>3 DEF Listing
      <4>3. CASE job[v].pc \in {"target", "commit"}
        <5>1. job[v] \in Moderating
          BY <4>1, <4>3, Kinds
        <5>2. ~job[v].stale => <<job[v].user, job[v].item>> # <<u, x>>
          BY <2>3, <4>1, <4>3, <5>1 DEF Deciding, NoReport, Moderating, Rows, Statuses
        <5>3. ~job[v].stale => report'[job[v].user][job[v].item] = report[job[v].user][job[v].item]
          BY <3>2, <5>1, <5>2 DEF Moderating
        <5>4. UNCHANGED <<author, club, active>>
          BY <3>1 DEF content
        <5>5. Deciding(v)'
          BY <4>1, <5>3, <5>4 DEF Deciding
        <5> QED BY <4>2, <5>5
      <4> QED BY <4>1, <4>2, <4>3 DEF Deciding
    <3>6. Listing(w)' /\ Deciding(w)'
      BY <3>3 DEF Listing, Deciding, Idle
    <3>7. OneDecision'
      <4>1. ASSUME NEW v \in Users, NEW y \in Items, <<v, y>> \notin clash',
                   report'[v][y].status # "RESOLVED"
            PROVE  report'[v][y].action = "NONE"
        <5>1. <<v, y>> \notin clash
          BY <3>1, <4>1
        <5>2. CASE <<v, y>> = <<u, x>>
          BY <3>2, <5>2
        <5>3. CASE <<v, y>> # <<u, x>>
          <6>1. report'[v][y] = report[v][y]
            BY <3>2, <5>3
          <6> QED BY <4>1, <5>1, <6>1 DEF IInv, OneDecision
        <5> QED BY <5>2, <5>3
      <4> QED BY <4>1 DEF OneDecision
    <3>8. RemovalOnRecord'
      <4>1. ASSUME NEW y \in Items, item'[y] = "removed"
            PROVE  \E v \in Users : report'[v][y].action \in Removing \/ <<v, y>> \in clash'
        <5>1. PICK v \in Users : report[v][y].action \in Removing \/ <<v, y>> \in clash
          BY <3>1, <4>1 DEF IInv, RemovalOnRecord, content
        <5>2. <<v, y>> = <<u, x>> => <<v, y>> \in clash
          BY <2>3, <5>1 DEF NoReport, Removing
        <5> QED BY <3>1, <3>2, <5>1, <5>2
      <4> QED BY <4>1 DEF RemovalOnRecord
    <3> QED BY <2>3, <3>1, <3>2, <3>4, <3>5, <3>6, <3>7, <3>8 DEF IInv, content
  <2> QED BY <2>2, <2>3
<1> QED BY <1>1, <1>2

LEMMA ListSteps ==
    ASSUME IInv, NEW w \in Workers, ReadBlocks(w) \/ ReadReports(w) \/ ReadItems(w) \/ Answer(w)
    PROVE  IInv'
<1>1. CASE ReadBlocks(w)
  <2>1. PICK u \in active : job' = [job EXCEPT ![w] =
           [pc |-> "reports", op |-> "list", user |-> u, hidden |-> HiddenFrom(u),
            blocked |-> {v \in Users : <<u, v>> \in blocks}]]
    BY <1>1 DEF ReadBlocks
  <2> DEFINE j == [pc |-> "reports", op |-> "list", user |-> u, hidden |-> HiddenFrom(u),
                   blocked |-> {v \in Users : <<u, v>> \in blocks}]
  <2>2. j \in Jobs
    BY DEF Jobs, HiddenFrom, IInv, TypeOK
  <2>3. job'[w] = j
    BY <2>1 DEF IInv, TypeOK
  <2>4. UNCHANGED <<content, report, blocks, active, clash>>
    BY <1>1 DEF ReadBlocks
  <2>5. Listing(w)'
    BY <2>3, <2>4 DEF Listing, HiddenFrom, content, IInv, TypeOK
  <2>6. Deciding(w)'
    BY <2>3 DEF Deciding
  <2> HIDE DEF j
  <2> QED BY <2>1, <2>2, <2>4, <2>5, <2>6, OneJob DEF j
<1>2. CASE ReadReports(w)
  <2>0. job[w] \in Reporting
    BY <1>2, Kinds DEF ReadReports, At, IInv, TypeOK
  <2> DEFINE j == [reported |-> {x \in Items : report[job[w].user][x] # NoReport},
                   pc |-> "items", op |-> "list",
                   user |-> job[w].user, hidden |-> job[w].hidden, blocked |-> job[w].blocked]
  <2>1. job' = [job EXCEPT ![w] = j]
    BY <1>2 DEF ReadReports
  <2>2. j \in Fetching
    BY <2>0 DEF Reporting, Fetching
  <2>3. j \in Jobs
    BY <2>2, JobsAre
  <2>4. job'[w] = j
    BY <2>1 DEF IInv, TypeOK
  <2>5. UNCHANGED <<content, report, blocks, active, clash>>
    BY <1>2 DEF ReadReports
  <2>6. Listing(w)'
    BY <1>2, <2>0, <2>4, <2>5 DEF Listing, content, IInv, ReadReports, At, Reporting
  <2>7. Deciding(w)'
    BY <2>4 DEF Deciding
  <2> HIDE DEF j
  <2> QED BY <2>1, <2>3, <2>5, <2>6, <2>7, OneJob
<1>3. CASE ReadItems(w)
  <2>0. job[w] \in Fetching
    BY <1>3, Kinds DEF ReadItems, At, IInv, TypeOK
  <2> DEFINE j == [pc |-> "answer", op |-> "list", hidden |-> job[w].hidden,
                   shown |-> Shown(job[w].blocked, job[w].reported)]
  <2>1. job' = [job EXCEPT ![w] = j]
    BY <1>3 DEF ReadItems
  <2>2. j \in Answering
    BY <2>0 DEF Answering, Fetching, Shown
  <2>3. j \in Jobs
    BY <2>2, JobsAre
  <2>4. job'[w] = j
    BY <2>1 DEF IInv, TypeOK
  <2>5. UNCHANGED <<content, report, blocks, active, clash>>
    BY <1>3 DEF ReadItems
  <2>6. Listing(w)'
    BY <1>3, <2>0, <2>4 DEF Listing, Shown, IInv, ReadItems, At, Fetching
  <2>7. Deciding(w)'
    BY <2>4 DEF Deciding
  <2> HIDE DEF j
  <2> QED BY <2>1, <2>3, <2>5, <2>6, <2>7, OneJob
<1>4. CASE Answer(w)
  BY <1>4, Replied DEF Answer
<1> QED BY <1>1, <1>2, <1>3, <1>4

\* Every other request that held the row a decision is written to is outdated.
LEMMA OutdatedJobs ==
    ASSUME TypeOK, NEW w \in Workers, NEW u, NEW x, NEW v \in Workers \ {w}
    PROVE  LET j == Outdated(w, u, x)[v] IN
           /\ j \in Jobs
           /\ j.pc = job[v].pc
           /\ job[v].pc \notin {"target", "commit"} => j = job[v]
           /\ job[v].pc \in {"target", "commit"} =>
                /\ j.user = job[v].user /\ j.item = job[v].item /\ j.seen = job[v].seen
                /\ j.active = job[v].active /\ j.switched = job[v].switched
                /\ <<j.user, j.item>> = <<u, x>> => j.stale
                /\ ~j.stale => ~job[v].stale
<1>1. job[v] \in Jobs
  BY DEF TypeOK
<1>2. CASE job[v].pc \in {"target", "commit"} /\ job[v].user = u /\ job[v].item = x
  <2>1. Outdated(w, u, x)[v] = [job[v] EXCEPT !.stale = TRUE]
    BY <1>2 DEF Outdated
  <2>2. job[v] \in Moderating
    BY <1>1, <1>2, Kinds
  <2>3. [job[v] EXCEPT !.stale = TRUE] \in Moderating
    BY <2>2 DEF Moderating
  <2> QED BY <1>2, <2>1, <2>2, <2>3, JobsAre DEF Moderating
<1>3. CASE ~(job[v].pc \in {"target", "commit"} /\ job[v].user = u /\ job[v].item = x)
  <2>1. Outdated(w, u, x)[v] = job[v]
    BY <1>3 DEF Outdated
  <2> QED BY <1>1, <1>3, <2>1
<1> QED BY <1>2, <1>3

LEMMA DecisionLoads ==
    ASSUME IInv, NEW w \in Workers, LoadReport(w) \/ LoadTarget(w)
    PROVE  IInv'
<1>1. CASE LoadReport(w)
  <2>1. PICK u \in Users, x \in Items, d \in Decisions :
          /\ report[u][x] # NoReport
          /\ report[u][x].status \notin Final
          /\ job' = [job EXCEPT ![w] =
              [pc |-> IF d.action \in Removing THEN "target" ELSE "commit", op |-> "moderate",
               user |-> u, item |-> x, decision |-> d, seen |-> report[u][x],
               active |-> author[x] \in active, stale |-> FALSE, switched |-> FALSE]]
    BY <1>1 DEF LoadReport
  <2> DEFINE j == [pc |-> IF d.action \in Removing THEN "target" ELSE "commit", op |-> "moderate",
                   user |-> u, item |-> x, decision |-> d, seen |-> report[u][x],
                   active |-> author[x] \in active, stale |-> FALSE, switched |-> FALSE]
  <2>2. j \in Moderating
    BY <2>1 DEF Moderating, IInv, TypeOK
  <2>3. j \in Jobs
    BY <2>2, JobsAre
  <2>4. job'[w] = j
    BY <2>1 DEF IInv, TypeOK
  <2>5. UNCHANGED <<content, report, blocks, active, clash>>
    BY <1>1 DEF LoadReport
  <2>6. Listing(w)'
    BY <2>4 DEF Listing
  <2>7. Deciding(w)'
    <3>1. j.user = u /\ j.item = x /\ j.seen = report[u][x] /\ j.active = (author[x] \in active)
      OBVIOUS
    <3> HIDE DEF j
    <3> QED BY <2>1, <2>4, <2>5, <3>1 DEF Deciding, content
  <2> HIDE DEF j
  <2> QED BY <2>1, <2>3, <2>5, <2>6, <2>7, OneJob DEF j
<1>2. CASE LoadTarget(w)
  <2>1. CASE item[job[w].item] = "gone"
    BY <1>2, <2>1, Replied DEF LoadTarget
  <2>2. CASE item[job[w].item] # "gone"
    <3> DEFINE j == [job[w] EXCEPT !.pc = "commit"]
    <3>1. job[w] \in Moderating /\ job[w].pc = "target"
      BY <1>2, Kinds DEF LoadTarget, At, IInv, TypeOK
    <3>2. j \in Moderating
      BY <3>1 DEF Moderating
    <3>3. j \in Jobs
      BY <3>2, JobsAre
    <3>4. job' = [job EXCEPT ![w] = j] /\ UNCHANGED <<content, report, blocks, active, clash>>
      BY <1>2, <2>2 DEF LoadTarget
    <3>5. job'[w] = j
      BY <3>4 DEF IInv, TypeOK
    <3>6. Listing(w)'
      BY <3>1, <3>5 DEF Listing, Moderating
    <3>7. Deciding(w)'
      BY <3>1, <3>4, <3>5 DEF Deciding, content, IInv, Moderating
    <3> HIDE DEF j
    <3> QED BY <3>3, <3>4, <3>6, <3>7, OneJob
  <2> QED BY <2>1, <2>2
<1> QED BY <1>1, <1>2

\* What a COMMIT that succeeds writes to the report.  An administrator whose
\* row is not stale replaces it by the decision.
LEMMA DecisionWritten ==
    ASSUME IInv, NEW w \in Workers, At(w, "commit"),
           report[job[w].user][job[w].item] # NoReport
    PROVE  LET j == job[w]
               row == report[j.user][j.item]
               new == [status |-> Written(row.status, j.seen.status, j.decision.status),
                       action |-> Written(row.action, j.seen.action, j.decision.action)]
           IN
           /\ j \in Moderating
           /\ club
           /\ row \in Rows
           /\ new \in Rows
           /\ ~j.stale => row = j.seen /\ new = j.decision
           /\ new.action # row.action => new.action = j.decision.action
<1>1. job[w] \in Moderating
  BY Kinds DEF At, IInv, TypeOK
<1>2. club /\ report[job[w].user][job[w].item] \in Rows
  BY <1>1 DEF IInv, TypeOK, Moderating
<1>3. job[w].decision \in Rows
  BY <1>1 DEF Moderating, Decisions, Rows, Statuses, Actions, Final
<1>4. ~job[w].stale => report[job[w].user][job[w].item] = job[w].seen
  BY <1>2 DEF IInv, Deciding, At
<1> QED BY <1>1, <1>2, <1>3, <1>4 DEF Written, Rows, Moderating

LEMMA DecisionStep ==
    ASSUME IInv, NEW w \in Workers, CommitDecision(w)
    PROVE  IInv'
<1> DEFINE j == job[w]
           d == j.decision
           u == j.user
           x == j.item
           row == report[u][x]
           new == [status |-> Written(row.status, j.seen.status, d.status),
                   action |-> Written(row.action, j.seen.action, d.action)]
<1>1. At(w, "commit")
  BY DEF CommitDecision
<1>2. CASE row = NoReport \/ (d.action \in Removing /\ item[x] = "gone")
  <2>1. Reply(w) /\ UNCHANGED <<content, report, blocks, active, clash>>
    BY <1>2 DEF CommitDecision, content
  <2> QED BY <2>1, Replied
<1>3. CASE ~(row = NoReport \/ (d.action \in Removing /\ item[x] = "gone"))
  <2>1. /\ item' = IF d.action \in Removing THEN [item EXCEPT ![x] = "removed"] ELSE item
        /\ active' = IF Suspends(d) /\ j.active THEN active \ {author[x]} ELSE active
        /\ report' = [report EXCEPT ![u][x] = new]
        /\ clash' = IF j.stale THEN clash \cup {<<u, x>>} ELSE clash
        /\ job' = Outdated(w, u, x)
        /\ UNCHANGED <<author, admins, club, blocks>>
    BY <1>3 DEF CommitDecision
  <2>2. /\ j \in Moderating /\ club /\ row \in Rows /\ new \in Rows
        /\ ~j.stale => row = j.seen /\ new = d
    BY <1>1, <1>3, DecisionWritten
  <2>3. u \in Users /\ x \in Items /\ d \in Decisions
    BY <2>2 DEF Moderating
  <2>4. new # NoReport
    BY <2>2 DEF Rows, NoReport, Statuses
  <2> HIDE DEF new
  <2>5. /\ report' \in [Users -> [Items -> {NoReport} \cup Rows]]
        /\ report'[u][x] = new
        /\ \A v \in Users, y \in Items : <<v, y>> # <<u, x>> => report'[v][y] = report[v][y]
    BY <2>1, <2>2, <2>3 DEF IInv, TypeOK
  <2>6. /\ item' \in [Items -> {"shown", "removed", "gone"}]
        /\ \A y \in Items : item[y] # "shown" => item'[y] # "shown"
        /\ \A y \in Items : item'[y] = "removed" =>
             item[y] = "removed" \/ (y = x /\ d.action \in Removing)
    BY <2>1 DEF IInv, TypeOK
  <2>7. active' \subseteq active /\ clash \subseteq clash' /\ clash' \subseteq Users \X Items
    BY <2>1, <2>3 DEF IInv, TypeOK
  <2>8. job'[w] = Idle
    BY <2>1 DEF Outdated
  <2>9. ASSUME NEW v \in Workers \ {w} PROVE job'[v] \in Jobs /\ Listing(v)' /\ Deciding(v)'
    <3>1. /\ job'[v] \in Jobs
          /\ job'[v].pc = job[v].pc
          /\ job[v].pc \notin {"target", "commit"} => job'[v] = job[v]
          /\ job[v].pc \in {"target", "commit"} =>
                /\ job'[v].user = job[v].user /\ job'[v].item = job[v].item
                /\ job'[v].seen = job[v].seen
                /\ job'[v].active = job[v].active /\ job'[v].switched = job[v].switched
                /\ <<job'[v].user, job'[v].item>> = <<u, x>> => job'[v].stale
                /\ ~job'[v].stale => ~job[v].stale
      BY <2>1, OutdatedJobs DEF IInv
    <3>2. Listing(v) /\ Deciding(v) /\ job[v] \in Jobs
      BY DEF IInv, TypeOK
    <3>3. CASE job[v].pc \notin {"target", "commit"}
      <4>1. job'[v] = job[v] /\ Deciding(v)'
        BY <3>1, <3>3 DEF Deciding
      <4>2. job[v].pc = "reports" => job[v].user \in Users /\ job[v].hidden \subseteq Items
        BY <3>2, Kinds DEF Reporting
      <4>3. job[v].pc = "items" => job[v].hidden \subseteq Items
        BY <3>2, Kinds DEF Fetching
      <4>4. \A y \in Users, z \in Items : report[y][z] # NoReport => report'[y][z] # NoReport
        BY <2>4, <2>5
      <4>5. Listing(v)'
        BY <2>1, <2>6, <3>2, <4>1, <4>2, <4>3, <4>4 DEF Listing
      <4> QED BY <3>1, <4>1, <4>5
    <3>4. CASE job[v].pc \in {"target", "commit"}
      <4>1. job[v] \in Moderating
        BY <3>2, <3>4, Kinds
      <4>2. Listing(v)'
        BY <3>1, <3>4 DEF Listing
      <4>3. ~job'[v].stale => report'[job[v].user][job[v].item] = report[job[v].user][job[v].item]
        BY <2>5, <3>1, <3>4, <4>1 DEF Moderating
      <4>4. Deciding(v)'
        BY <2>1, <2>7, <3>1, <3>2, <3>4, <4>3 DEF Deciding
      <4> QED BY <3>1, <4>2, <4>4
    <3> QED BY <3>3, <3>4
  <2>10. Listing(w)' /\ Deciding(w)'
    BY <2>8 DEF Listing, Deciding, Idle
  <2>11. job' \in [Workers -> Jobs]
    <3>1. Idle \in Jobs
      BY DEF Jobs
    <3>2. job' = [v \in Workers |-> job'[v]]
      BY <2>1 DEF Outdated
    <3> QED BY <2>8, <2>9, <3>1, <3>2
  <2>12. TypeOK'
    BY <2>1, <2>5, <2>6, <2>7, <2>11 DEF IInv, TypeOK
  <2>13. OneDecision'
    <3>1. ASSUME NEW v \in Users, NEW y \in Items, <<v, y>> \notin clash',
                 report'[v][y].status # "RESOLVED"
          PROVE  report'[v][y].action = "NONE"
      <4>1. CASE <<v, y>> = <<u, x>>
        <5>1. new = d
          BY <2>1, <2>2, <3>1, <4>1
        <5> QED BY <2>3, <2>5, <3>1, <4>1, <5>1 DEF Decisions
      <4>2. CASE <<v, y>> # <<u, x>>
        <5>1. report'[v][y] = report[v][y]
          BY <2>5, <4>2
        <5> QED BY <2>7, <3>1, <5>1 DEF IInv, OneDecision
      <4> QED BY <4>1, <4>2
    <3> QED BY <3>1 DEF OneDecision
  <2>14. RemovalOnRecord'
    <3>1. ASSUME NEW y \in Items, item'[y] = "removed"
          PROVE  \E v \in Users : report'[v][y].action \in Removing \/ <<v, y>> \in clash'
      <4>1. CASE y = x /\ d.action \in Removing
        <5>1. j.stale => <<u, x>> \in clash'
          BY <2>1
        <5>2. ~j.stale => report'[u][x].action \in Removing
          BY <2>2, <2>5, <4>1
        <5> QED BY <2>3, <4>1, <5>1, <5>2
      <4>2. CASE item[y] = "removed"
        <5>1. PICK v \in Users : report[v][y].action \in Removing \/ <<v, y>> \in clash
          BY <4>2 DEF IInv, RemovalOnRecord
        <5>2. CASE <<v, y>> # <<u, x>> \/ <<v, y>> \in clash'
          BY <2>5, <2>7, <5>1, <5>2
        <5>3. CASE <<v, y>> = <<u, x>> /\ <<v, y>> \notin clash'
          <6>1. ~j.stale /\ <<u, x>> \notin clash
            BY <2>1, <2>7, <5>3
          <6>2. j.seen.status \notin Final /\ row = j.seen
            BY <1>1, <2>2, <6>1 DEF IInv, Deciding, At
          <6>3. row.action = "NONE"
            BY <2>3, <6>1, <6>2 DEF IInv, OneDecision, Final
          <6> QED BY <5>1, <5>3, <6>1, <6>3 DEF Removing
        <5> QED BY <5>2, <5>3
      <4> QED BY <2>6, <3>1, <4>1, <4>2
    <3> QED BY <3>1 DEF RemovalOnRecord
  <2> QED BY <2>1, <2>2, <2>9, <2>10, <2>12, <2>13, <2>14 DEF IInv
<1> QED BY <1>2, <1>3

\* Lists in flight forget what is uncovered, and nothing that is still hidden.
LEMMA Uncovered ==
    ASSUME IInv, NEW left, Uncover(left),
           UNCHANGED <<author, club, report>>, active' \subseteq active,
           \A x \in Items : item[x] # "shown" => item'[x] # "shown"
    PROVE  job' \in [Workers -> Jobs] /\ \A w \in Workers : Listing(w)' /\ Deciding(w)'
<1>1. ASSUME NEW w \in Workers PROVE job'[w] \in Jobs /\ Listing(w)' /\ Deciding(w)'
  <2>0. job[w] \in Jobs /\ Listing(w) /\ Deciding(w)
    BY DEF IInv, TypeOK
  <2>1. CASE job[w].pc \in {"reports", "items"}
    <3> DEFINE hid == {x \in job[w].hidden : \/ <<job[w].user, author[x]>> \in left
                                            \/ report[job[w].user][x] # NoReport
                                            \/ item[x] # "shown"}
    <3>1. job'[w] = [job[w] EXCEPT !.hidden = hid]
      BY <2>1 DEF Uncover
    <3>2. hid \subseteq job[w].hidden
      OBVIOUS
    <3> HIDE DEF hid
    <3>3. CASE job[w].pc = "reports"
      <4>1. job[w] \in Reporting
        BY <2>0, <3>3, Kinds
      <4>2. job'[w] \in Reporting /\ job'[w].pc = "reports" /\ job'[w].hidden = hid
            /\ job'[w].user = job[w].user /\ job'[w].blocked = job[w].blocked
        BY <3>1, <3>2, <4>1 DEF Reporting
      <4>3. Listing(w)'
        BY <2>0, <3>2, <3>3, <4>1, <4>2 DEF Listing, Reporting
      <4> QED BY <4>2, <4>3, JobsAre DEF Deciding
    <3>4. CASE job[w].pc = "items"
      <4>1. job[w] \in Fetching
        BY <2>0, <3>4, Kinds
      <4>2. job'[w] \in Fetching /\ job'[w].pc = "items" /\ job'[w].hidden = hid
            /\ job'[w].reported = job[w].reported /\ job'[w].blocked = job[w].blocked
        BY <3>1, <3>2, <4>1 DEF Fetching
      <4>3. Listing(w)'
        BY <2>0, <3>2, <3>4, <4>1, <4>2 DEF Listing, Fetching
      <4> QED BY <4>2, <4>3, JobsAre DEF Deciding
    <3> QED BY <2>1, <3>3, <3>4
  <2>2. CASE job[w].pc \notin {"reports", "items"}
    <3>1. job'[w] = job[w]
      BY <2>2 DEF Uncover
    <3>2. Listing(w)'
      BY <2>0, <2>2, <3>1 DEF Listing
    <3>3. Deciding(w)'
      BY <2>0, <3>1 DEF Deciding
    <3> QED BY <2>0, <3>1, <3>2, <3>3
  <2> QED BY <2>1, <2>2
<1>2. job' = [w \in Workers |-> job'[w]]
  BY DEF Uncover
<1> QED BY <1>1, <1>2

LEMMA BlockSteps ==
    ASSUME IInv, NEW u \in Users, NEW v \in Users, u # v, Block(u, v) \/ Unblock(u, v)
    PROVE  IInv'
<1>1. CASE Block(u, v)
  <2>1. TypeOK'
    BY <1>1 DEF Block, IInv, TypeOK, content
  <2> QED BY <1>1, <2>1 DEF Block, IInv, Listing, Deciding, OneDecision, RemovalOnRecord, content
<1>2. CASE Unblock(u, v)
  <2>1. job' \in [Workers -> Jobs] /\ \A w \in Workers : Listing(w)' /\ Deciding(w)'
    BY <1>2, Uncovered DEF Unblock, content
  <2>2. blocks' = blocks \ {<<u, v>>}
    BY <1>2 DEF Unblock, Uncover
  <2>3. TypeOK'
    BY <1>2, <2>1, <2>2 DEF Unblock, IInv, TypeOK, content
  <2> QED BY <1>2, <2>1, <2>3 DEF Unblock, IInv, OneDecision, RemovalOnRecord, content
<1> QED BY <1>1, <1>2

LEMMA SwitchStep ==
    ASSUME IInv, NEW u \in Users, SetActive(u)
    PROVE  IInv'
<1>1. ASSUME NEW w \in Workers PROVE job'[w] \in Jobs /\ Listing(w)' /\ Deciding(w)'
  <2>0. job[w] \in Jobs /\ Listing(w) /\ Deciding(w)
    BY DEF IInv, TypeOK
  <2>1. CASE job[w].pc \in {"target", "commit"} /\ author[job[w].item] = u
    <3>1. job'[w] = [job[w] EXCEPT !.switched = TRUE]
      BY <2>1 DEF SetActive
    <3>2. job[w] \in Moderating
      BY <2>0, <2>1, Kinds
    <3>3. /\ job'[w] \in Moderating /\ job'[w].pc = job[w].pc /\ job'[w].switched
          /\ job'[w].user = job[w].user /\ job'[w].item = job[w].item
          /\ job'[w].seen = job[w].seen /\ job'[w].stale = job[w].stale
      BY <3>1, <3>2 DEF Moderating
    <3>4. Listing(w)'
      BY <2>1, <3>3 DEF Listing
    <3>5. Deciding(w)'
      BY <2>0, <2>1, <3>3 DEF Deciding, SetActive, content
    <3> QED BY <3>3, <3>4, <3>5, JobsAre
  <2>2. CASE ~(job[w].pc \in {"target", "commit"} /\ author[job[w].item] = u)
    <3>1. job'[w] = job[w] /\ UNCHANGED <<author, item, club, report>>
      BY <2>2 DEF SetActive, content
    <3>2. \A v \in Users \ {u} : v \notin active => v \notin active'
      BY DEF SetActive
    <3>3. job[w].pc \in {"target", "commit"} => author[job[w].item] \in Users \ {u}
      BY <2>0, <2>2, Kinds DEF Moderating, IInv, TypeOK
    <3>4. Listing(w)'
      BY <2>0, <3>1 DEF Listing
    <3>5. Deciding(w)'
      BY <2>0, <3>1, <3>2, <3>3 DEF Deciding
    <3> QED BY <2>0, <3>1, <3>4, <3>5
  <2> QED BY <2>1, <2>2
<1>2. job' \in [Workers -> Jobs]
  <2>1. job' = [w \in Workers |-> job'[w]]
    BY DEF SetActive
  <2> QED BY <1>1, <2>1
<1>3. TypeOK'
  BY <1>2 DEF SetActive, IInv, TypeOK, content
<1> QED BY <1>1, <1>3 DEF SetActive, IInv, OneDecision, RemovalOnRecord, content

LEMMA CloseStep ==
    ASSUME IInv, NEW u \in Users, CloseAccount(u)
    PROVE  IInv'
<1>1. /\ active' \subseteq active
      /\ item' \in [Items -> {"shown", "removed", "gone"}]
      /\ \A x \in Items : item'[x] \in {item[x], "gone"}
  BY DEF CloseAccount, IInv, TypeOK
<1>2. job' \in [Workers -> Jobs] /\ \A w \in Workers : Listing(w)' /\ Deciding(w)'
  BY <1>1, Uncovered DEF CloseAccount
<1>3. blocks' \subseteq blocks
  BY DEF CloseAccount, Uncover
<1>4. TypeOK'
  BY <1>1, <1>2, <1>3 DEF CloseAccount, IInv, TypeOK
<1> QED BY <1>1, <1>2, <1>4 DEF CloseAccount, IInv, OneDecision, RemovalOnRecord

LEMMA DeleteSteps ==
    ASSUME IInv, NEW x \in Items, DeleteItem(x)
    PROVE  IInv'
<1>1. /\ item' \in [Items -> {"shown", "removed", "gone"}]
      /\ \A y \in Items : item'[y] \in {item[y], "gone"}
  BY DEF DeleteItem, IInv, TypeOK
<1>2. TypeOK'
  BY <1>1 DEF DeleteItem, IInv, TypeOK
<1>3. ASSUME NEW w \in Workers PROVE Listing(w)' /\ Deciding(w)'
  <2>1. job[w] \in Jobs /\ Listing(w) /\ Deciding(w)
    BY DEF IInv, TypeOK
  <2>2. job[w].pc \in {"reports", "items"} => job[w].hidden \subseteq Items
    BY <2>1, Kinds DEF Reporting, Fetching
  <2>3. Listing(w)'
    BY <1>1, <2>1, <2>2 DEF Listing, DeleteItem
  <2>4. Deciding(w)'
    BY <2>1 DEF Deciding, DeleteItem
  <2> QED BY <2>3, <2>4
<1> QED BY <1>1, <1>2, <1>3 DEF DeleteItem, IInv, OneDecision, RemovalOnRecord

LEMMA ClubStep ==
    ASSUME IInv, DeleteClub
    PROVE  IInv'
<1>1. TypeOK'
  BY DEF DeleteClub, IInv, TypeOK
<1>2. ASSUME NEW w \in Workers PROVE Listing(w)' /\ Deciding(w)'
  <2>1. job[w] \in Jobs /\ Listing(w) /\ Deciding(w)
    BY DEF IInv, TypeOK
  <2>2. job[w].pc \in {"reports", "items"} => job[w].hidden \subseteq Items
    BY <2>1, Kinds DEF Reporting, Fetching
  <2>3. Listing(w)'
    BY <2>1, <2>2 DEF Listing, DeleteClub
  <2>4. Deciding(w)'
    BY <2>1 DEF Deciding, DeleteClub
  <2> QED BY <2>3, <2>4
<1>3. \A u \in Users, x \in Items : report'[u][x] = NoReport
  BY DEF DeleteClub
<1>4. OneDecision'
  BY <1>3 DEF OneDecision, NoReport
<1>5. RemovalOnRecord'
  BY DEF RemovalOnRecord, DeleteClub
<1> QED BY <1>1, <1>2, <1>3, <1>4, <1>5 DEF IInv

LEMMA StepInv == IInv /\ [Next]_vars => IInv'
<1> SUFFICES ASSUME IInv, [Next]_vars PROVE IInv'
  OBVIOUS
<1>1. CASE UNCHANGED vars
  BY <1>1 DEF vars, IInv, TypeOK, Listing, Deciding, OneDecision, RemovalOnRecord
<1>2. ASSUME NEW u \in Users, NEW v \in Users, Block(u, v) \/ Unblock(u, v) PROVE IInv'
  <2>1. u # v
    BY <1>2 DEF Block, Unblock, IInv, TypeOK
  <2> QED BY <1>2, <2>1, BlockSteps
<1> QED BY <1>1, <1>2, ReportSteps, ListSteps, DecisionLoads, DecisionStep, SwitchStep, CloseStep,
           DeleteSteps, ClubStep DEF Next

\* The invariant holds in every state.
LEMMA Invariant == Spec => []IInv
BY InitInv, StepInv, PTL DEF Spec

-----------------------------------------------------------------------------
(* The theorems.                                                           *)

\* Type correctness of reports, blocks and of each request at each of its steps.
THEOREM TypeCorrect == Spec => []TypeOK
BY Invariant, PTL DEF IInv

\* get_club_posts, get_post_comments and get_club_messages: no list shows what
\* was hidden from its viewer from before the request until its answer, for any
\* number of viewers, items and requests.
THEOREM NothingHiddenShown == Spec => []HiddenStaysHidden
<1>1. IInv => HiddenStaysHidden
  BY DEF IInv, Listing, HiddenStaysHidden
<1> QED BY <1>1, Invariant, PTL

\* moderate_content_report: only a resolved report carries an action, except a
\* report on which two decisions crossed.
THEOREM DecisionsWhole == Spec => []OneDecision
BY Invariant, PTL DEF IInv

\* moderate_content_report: whatever is removed has a report that says so or a
\* report on which two decisions crossed.
THEOREM RemovalsRecorded == Spec => []RemovalOnRecord
BY Invariant, PTL DEF IInv

\* Only three steps write a report.
LEMMA ReportWriters ==
    ASSUME IInv, [Next]_vars, NEW u \in Users, NEW x \in Items, report'[u][x] # report[u][x]
    PROVE  \/ \E w \in Workers : InsertReport(w)
           \/ \E w \in Workers : CommitDecision(w)
           \/ DeleteClub
BY DEF Next, vars, LoadForReport, ReadBlocks, ReadReports, ReadItems, Answer, LoadReport, LoadTarget,
       Block, Unblock, SetActive, CloseAccount, DeleteItem

\* create_content_report gives a report its status and no action.
LEMMA InsertedReport ==
    ASSUME IInv, NEW w \in Workers, InsertReport(w), NEW u \in Users, NEW x \in Items,
           report'[u][x] # report[u][x]
    PROVE  report[u][x] = NoReport /\ report'[u][x].action = report[u][x].action
<1>1. job[w].user \in Users /\ job[w].item \in Items
  BY Kinds DEF InsertReport, At, IInv, TypeOK, Inserting
<1>2. /\ report[job[w].user][job[w].item] = NoReport
      /\ report' = [report EXCEPT ![job[w].user][job[w].item].status = "PENDING"]
  BY DEF InsertReport
<1>3. u = job[w].user /\ x = job[w].item
  BY <1>1, <1>2 DEF IInv, TypeOK
<1> QED BY <1>1, <1>2, <1>3 DEF IInv, TypeOK, NoReport

\* moderate_content_report writes one row, column by column.
LEMMA DecidedReport ==
    ASSUME IInv, NEW w \in Workers, CommitDecision(w), NEW u \in Users, NEW x \in Items,
           report'[u][x] # report[u][x]
    PROVE  LET j == job[w] IN
           /\ j \in Moderating /\ j.pc = "commit"
           /\ u = j.user /\ x = j.item
           /\ report[u][x] # NoReport
           /\ report'[u][x].action = Written(report[u][x].action, j.seen.action, j.decision.action)
           /\ clash' = IF j.stale THEN clash \cup {<<u, x>>} ELSE clash
           /\ j.decision.action \in Removing => item' = [item EXCEPT ![x] = "removed"]
           /\ active' = IF Suspends(j.decision) /\ j.active THEN active \ {author[x]} ELSE active
<1> DEFINE j == job[w]
           row == report[j.user][j.item]
           new == [status |-> Written(row.status, j.seen.status, j.decision.status),
                   action |-> Written(row.action, j.seen.action, j.decision.action)]
<1>1. j \in Moderating /\ j.pc = "commit"
  BY Kinds DEF CommitDecision, At, IInv, TypeOK
<1>2. /\ row # NoReport
      /\ report' = [report EXCEPT ![j.user][j.item] = new]
      /\ clash' = IF j.stale THEN clash \cup {<<j.user, j.item>>} ELSE clash
      /\ j.decision.action \in Removing => item' = [item EXCEPT ![j.item] = "removed"]
      /\ active' = IF Suspends(j.decision) /\ j.active THEN active \ {author[j.item]} ELSE active
  BY DEF CommitDecision
<1>3. j.user \in Users /\ j.item \in Items /\ new.action = Written(row.action, j.seen.action, j.decision.action)
  BY <1>1 DEF Moderating
<1> HIDE DEF new
<1>4. u = j.user /\ x = j.item /\ report'[u][x] = new
  BY <1>2, <1>3 DEF IInv, TypeOK
<1> QED BY <1>1, <1>2, <1>3, <1>4

\* moderate_content_report: what changes a closed report is the deletion of its
\* club or the COMMIT of a decision that was loaded before the report closed.
THEOREM ClosedReports == Spec => ClosedStaysClosed
<1>1. ASSUME IInv, [Next]_vars, NEW u \in Users, NEW x \in Items,
             report[u][x].status \in Final, report'[u][x] # report[u][x], club'
      PROVE  \E w \in Workers :
                 /\ At(w, "commit") /\ job'[w] = Idle
                 /\ job[w].user = u /\ job[w].item = x
                 /\ job[w].seen.status \notin Final
  <2>1. report[u][x] # NoReport
    BY <1>1 DEF Final, NoReport
  <2>2. ASSUME NEW w \in Workers PROVE ~InsertReport(w)
    BY <1>1, <2>1, InsertedReport
  <2>3. PICK w \in Workers : CommitDecision(w)
    BY <1>1, <2>2, ReportWriters DEF DeleteClub
  <2>4. /\ job[w] \in Moderating /\ job[w].pc = "commit"
        /\ u = job[w].user /\ x = job[w].item
    BY <1>1, <2>3, DecidedReport
  <2>5. job[w].seen.status \notin Final
    BY <1>1, <2>4 DEF IInv, Deciding
  <2>6. job'[w] = Idle
    BY <1>1, <2>3 DEF CommitDecision, Reply, Outdated, IInv, TypeOK
  <2> QED BY <2>4, <2>5, <2>6 DEF At
<1>2. IInv /\ [Next]_vars => [\A u \in Users, x \in Items :
         report[u][x].status \in Final /\ report'[u][x] # report[u][x] =>
            \/ ~club'
            \/ \E w \in Workers :
                 /\ At(w, "commit") /\ job'[w] = Idle
                 /\ job[w].user = u /\ job[w].item = x
                 /\ job[w].seen.status \notin Final]_vars
  BY <1>1
<1> QED BY <1>2, Invariant, PTL DEF Spec, ClosedStaysClosed

\* moderate_content_report: the content and its author are dealt with in the
\* step that puts the action on record.
THEOREM SanctionsWhole == Spec => SanctionsApplied
<1>1. ASSUME IInv, [Next]_vars, NEW u \in Users, NEW x \in Items,
             report'[u][x].action # report[u][x].action
      PROVE  /\ report'[u][x].action \in Removing => item'[x] = "removed"
             /\ report'[u][x].action \in Suspending =>
                  \/ author[x] \notin active'
                  \/ \E w \in Workers : job[w].pc = "commit" /\ job[w].item = x /\ job[w].switched
  <2>1. ASSUME NEW w \in Workers PROVE ~InsertReport(w)
    BY <1>1, InsertedReport
  <2>2. CASE DeleteClub
    BY <2>2 DEF DeleteClub, NoReport, Removing, Suspending
  <2>3. ASSUME NEW w \in Workers, CommitDecision(w)
        PROVE  /\ report'[u][x].action \in Removing => item'[x] = "removed"
               /\ report'[u][x].action \in Suspending =>
                    author[x] \notin active' \/ (job[w].pc = "commit" /\ job[w].item = x /\ job[w].switched)
    <3>1. /\ job[w].pc = "commit" /\ x = job[w].item
          /\ report'[u][x].action = Written(report[u][x].action, job[w].seen.action, job[w].decision.action)
          /\ job[w].decision.action \in Removing => item' = [item EXCEPT ![x] = "removed"]
          /\ active' = IF Suspends(job[w].decision) /\ job[w].active THEN active \ {author[x]} ELSE active
      BY <1>1, <2>3, DecidedReport
    <3>2. report'[u][x].action = job[w].decision.action
      BY <1>1, <3>1 DEF Written
    <3>3. ~job[w].active /\ ~job[w].switched => author[x] \notin active
      BY <1>1, <3>1 DEF IInv, Deciding
    <3> QED BY <1>1, <3>1, <3>2, <3>3 DEF Suspends, IInv, TypeOK
  <2> QED BY <1>1, <2>1, <2>2, <2>3, ReportWriters
<1>2. IInv /\ [Next]_vars => [\A u \in Users, x \in Items :
         LET now == report'[u][x].action
             switched == \E w \in Workers : job[w].pc = "commit" /\ job[w].item = x /\ job[w].switched
         IN
         now # report[u][x].action =>
            /\ now \in Removing => item'[x] = "removed"
            /\ now \in Suspending => author[x] \notin active' \/ switched]_vars
  BY <1>1
<1> QED BY <1>2, Invariant, PTL DEF Spec, SanctionsApplied
=============================================================================
