-------------------------- MODULE Complaints_proofs --------------------------
(***************************************************************************)
(* What holds of complaints for any number of complaints, accounts and     *)
(* requests in flight.  The handlers check and write without a lock, so    *)
(* the invariant says what each request read (Fits) and that at most one   *)
(* of them is between its first SELECT and its COMMIT (Apart): nobody else *)
(* writes there, so what was read is what is overwritten.  Evidence that   *)
(* is stored but has no row yet is counted per complaint (Inserting), and  *)
(* a history is kept together with the statuses that may lie on a path to  *)
(* its last one (Before): that no status comes back is why no owner is     *)
(* told twice.                                                             *)
(***************************************************************************)
EXTENDS Complaints, FiniteSetTheorems, TLAPS

Creating(j) == j.pc = "upload" /\ j.op = "create"
Sections == {"commit", "total", "page"}

Existing == {c \in Ids : Exists(c)}

\* What one request holds, and what it read and still holds.
Fits(j) ==
    /\ Creating(j) => row[j.id] = NoRow /\ j.images - j.left <= stored[j.id]
    /\ j.pc \notin {"idle", "total", "page"} /\ ~Creating(j) => row[j.id] # NoRow
    /\ j.pc = "commit" /\ j.op = "status" =>
         /\ row[j.id].type = "REPORT" /\ row[j.id].status = j.seen
         /\ j.arg \in Allowed[j.seen]
         /\ j.arg = "RESOLVED" => row[j.id].evidence > 0
    /\ j.pc = "commit" /\ j.op = "edit" =>
         row[j.id].type = "REPORT" /\ row[j.id].status = "PENDING"
    /\ j.pc = "insert" => row[j.id] = Gone \/ row[j.id].type = "REPORT"
    /\ j.pc = "upload" /\ j.op = "evidence" => row[j.id] = Gone \/ row[j.id].type = "REPORT"
    /\ j.pc = "total" => j.stats <= Cardinality(Existing)
    /\ j.pc = "page" => j.stats <= j.total
    /\ j.pc = "sign" => task[j.id]["SUBMITTED"] = "none"

AllFit == \A w \in Workers : \A j \in Requests : job[w] = j => Fits(j)

\* Two requests that cannot be where they are at the same time.
Clash(j, k) ==
    \/ Creating(j) /\ Creating(k) /\ j.id = k.id
    \/ j.pc = "sign" /\ k.pc = "sign" /\ j.id = k.id
    \/ j.pc \in Sections /\ k.pc \in Sections

Apart == \A v, w \in Workers : v # w => ~Clash(job[v], job[w])

\* The statuses a report may have been in on its way to s.
Before(s) == IF s = "PENDING" THEN {"PENDING"} ELSE {"PENDING", "IN_PROGRESS", s}

Path(r, h) ==
    /\ Len(h) > 0
    /\ h[1] = [old |-> "none", new |-> "PENDING"]
    /\ \A i \in 2..Len(h) : h[i].old = h[i - 1].new /\ h[i].new \in Allowed[h[i].old]
    /\ h[Len(h)].new = r.status
    /\ \A i \in 1..Len(h) : h[i].new \in Before(r.status)
    /\ r.status = "RESOLVED" => r.evidence > 0

Inserting(c) == {w \in Workers : job[w].pc = "insert" /\ job[w].id = c}

\* The row and the history of a complaint agree.
Agrees(r, h) ==
    /\ r \in Rows /\ r.type = "SUGGESTION" => h = <<>> /\ r.status = "none" /\ r.evidence = 0
    /\ r \in Rows /\ r.type = "REPORT" => r.status \in Statuses /\ Path(r, h)
    /\ r \notin Rows => h = <<>>

Recorded ==
    \A c \in Ids :
       /\ (owner[c] = Nobody) = (row[c] = NoRow)
       /\ Agrees(row[c], history[c])

Stored ==
    \A c \in Ids : row[c] \in Rows =>
       row[c].images + row[c].evidence + Cardinality(Inserting(c)) <= stored[c]

\* The background task of one change, and what it left.
Task(c, e) ==
    /\ task[c][e] # "none" => Happened(c, e) \/ row[c] = Gone
    /\ note[c][e] \in {0, 1}
    /\ note[c][e] = 1 => task[c][e] \in {"told", "told_late"}
    /\ owner[c] \in closed => task[c][e] # "looked" /\ (task[c][e] = "told" => note[c][e] = 0)

Told == \A c \in Ids, e \in Events : Task(c, e)

IInv == TypeOK /\ AllFit /\ Apart /\ Recorded /\ Stored /\ Told

-----------------------------------------------------------------------------
(* First facts.                                                            *)

LEMMA RowFacts ==
    /\ NoRow \notin Rows /\ Gone \notin Rows /\ NoRow # Gone
    /\ TypeOK => \A c \in Ids : Exists(c) <=> row[c] \in Rows
BY DEF NoRow, Gone, Rows, TypeOK, Exists

LEMMA JobFacts ==
    ASSUME NEW j \in Requests
    PROVE  /\ j.pc \in {"upload", "sign", "insert", "commit", "total", "page"}
           /\ j.pc \in {"upload", "sign", "insert", "commit"} => j.id \in Ids
           /\ j.pc = "sign" => j.op = "create"
           /\ j.pc = "insert" => j.op = "evidence"
           /\ j.pc = "upload" => j.op \in {"create", "evidence"}
           /\ j.pc = "commit" => j.op \in {"status", "edit", "delete"}
           /\ j.pc = "commit" /\ j.op = "status" => j.arg \in Statuses /\ j.seen \in Statuses
           /\ j.pc = "commit" /\ j.op = "edit" => j.arg \in Texts
           /\ Creating(j) => /\ j.actor \in Users /\ j.type \in {"REPORT", "SUGGESTION"}
                             /\ j.text \in Texts /\ j.images \in Nat /\ j.left \in Nat
                             /\ j.images \in 0..MaxImages /\ j.left \in 0..MaxImages
           /\ j.pc \in {"total", "page"} => j.stats \in Nat
           /\ j # Idle
<1>1. j.pc \in {"upload", "sign", "insert", "commit", "total", "page"}
  BY DEF Requests
<1>2. j.pc \in {"sign", "insert"} => j.id \in Ids /\ (j.pc = "sign" => j.op = "create")
                                     /\ (j.pc = "insert" => j.op = "evidence")
  BY DEF Requests
<1>3. j.pc = "upload" => j.id \in Ids /\ j.op \in {"create", "evidence"}
  BY DEF Requests
<1>4. j.pc = "commit" => j.id \in Ids /\ j.op \in {"status", "edit", "delete"}
  BY DEF Requests
<1>5. j.pc = "commit" /\ j.op = "status" => j.arg \in Statuses /\ j.seen \in Statuses
  BY DEF Requests
<1>6. j.pc = "commit" /\ j.op = "edit" => j.arg \in Texts
  BY DEF Requests
<1>7. Creating(j) => /\ j.actor \in Users /\ j.type \in {"REPORT", "SUGGESTION"}
                     /\ j.text \in Texts /\ j.images \in 0..MaxImages /\ j.left \in 0..MaxImages
  BY DEF Requests, Creating
<1>8. j.pc \in {"total", "page"} => j.stats \in Nat
  BY DEF Requests
<1>9. Idle.pc = "idle"
  BY DEF Idle
<1> QED BY <1>1, <1>2, <1>3, <1>4, <1>5, <1>6, <1>7, <1>8, <1>9, ComplaintsAssumption

LEMMA InitInv == Init => IInv
<1> SUFFICES ASSUME Init PROVE IInv
  OBVIOUS
<1>1. TypeOK
  <2>1. history \in [Ids -> Seq([old : Statuses \cup {"none"}, new : Statuses])]
    BY DEF Init
  <2> QED BY <2>1 DEF Init, TypeOK, Tasks
<1>2. AllFit /\ Apart
  BY JobFacts DEF Init, AllFit, Apart, Clash, Creating, Sections, Idle
<1>3. Recorded /\ Stored
  BY RowFacts DEF Init, Recorded, Stored, Agrees
<1>4. Told
  BY DEF Init, Told, Task
<1> QED BY <1>1, <1>2, <1>3, <1>4 DEF IInv

-----------------------------------------------------------------------------
(* One request moves, the tables stay (an object may be stored).           *)

LEMMA JobStep ==
    ASSUME IInv, NEW w \in Workers, NEW j \in {Idle} \cup Requests, job' = [job EXCEPT ![w] = j],
           UNCHANGED <<row, owner, history, notes, accounts>>,
           stored' \in [Ids -> Nat], \A c \in Ids : stored[c] <= stored'[c],
           j \in Requests => Fits(j)',
           \A v \in Workers \ {w} : ~Clash(job[v], j) /\ ~Clash(j, job[v]),
           Stored'
    PROVE  IInv'
<1>1. UNCHANGED <<note, task, active, closed>>
  BY DEF notes, accounts
<1>2. TypeOK'
  BY <1>1 DEF IInv, TypeOK
<1>3. job'[w] = j /\ \A v \in Workers \ {w} : job'[v] = job[v]
  BY DEF IInv, TypeOK
<1>4. \A v \in Workers, k \in Requests : v # w /\ job[v] = k => Fits(k)'
  <2> SUFFICES ASSUME NEW v \in Workers, NEW k \in Requests, v # w, job[v] = k PROVE Fits(k)'
    OBVIOUS
  <2>1. Fits(k)
    BY DEF IInv, AllFit
  <2>2. Existing' = Existing
    BY DEF Existing, Exists
  <2>3. Creating(k) => k.id \in Ids /\ k.images \in Nat /\ k.left \in Nat
    BY JobFacts DEF Creating
  <2>4. Creating(k) => k.images - k.left <= stored'[k.id]
    BY <2>1, <2>3 DEF Fits, IInv, TypeOK
  <2> QED BY <1>1, <2>1, <2>2, <2>4 DEF Fits, Creating
<1>5. AllFit'
  BY <1>3, <1>4 DEF AllFit
<1>6. Apart'
  BY <1>3 DEF IInv, Apart
<1>7. Recorded' /\ Told'
  BY <1>1 DEF IInv, Recorded, Told, Task, Happened, Exists
<1> QED BY <1>2, <1>5, <1>6, <1>7 DEF IInv

\* No more inserts are under way than before.
LEMMA FewerInserts ==
    ASSUME NEW c, Inserting(c)' \subseteq Inserting(c)
    PROVE  /\ Cardinality(Inserting(c))' <= Cardinality(Inserting(c))
           /\ Cardinality(Inserting(c))' \in Nat /\ Cardinality(Inserting(c)) \in Nat
<1>1. IsFiniteSet(Inserting(c))
  BY ComplaintsAssumption, FS_Subset DEF Inserting
<1> QED BY <1>1, FS_Subset, FS_CardinalityType

LEMMA StoredFacts ==
    ASSUME TypeOK, NEW c \in Ids, row[c] \in Rows
    PROVE  row[c].images \in Nat /\ row[c].evidence \in Nat /\ stored[c] \in Nat
BY ComplaintsAssumption DEF TypeOK, Rows

LEMMA ReadStep ==
    ASSUME IInv, NEW w \in Workers, NEW j \in {Idle} \cup Requests, job' = [job EXCEPT ![w] = j],
           UNCHANGED <<rows, notes, accounts>>,
           j \in Requests => Fits(j), j.pc # "insert",
           \A v \in Workers \ {w} : ~Clash(job[v], j) /\ ~Clash(j, job[v])
    PROVE  IInv'
<1>1. UNCHANGED <<row, owner, history, stored, note, task>>
  BY DEF rows, notes
<1>2. j \in Requests => Fits(j)'
  BY <1>1 DEF Fits, Creating, Existing, Exists
<1>3. Stored'
  <2> SUFFICES ASSUME NEW c \in Ids, row[c] \in Rows
               PROVE  row[c].images + row[c].evidence + Cardinality(Inserting(c))' <= stored[c]
    BY <1>1 DEF Stored
  <2>1. Inserting(c)' \subseteq Inserting(c)
    BY DEF Inserting, IInv, TypeOK
  <2> QED BY <2>1, FewerInserts, StoredFacts DEF IInv, Stored
<1>4. stored' \in [Ids -> Nat] /\ \A c \in Ids : stored[c] <= stored'[c]
  BY <1>1 DEF IInv, TypeOK
<1> QED BY <1>1, <1>2, <1>3, <1>4, JobStep

\* A request that is answered leaves nothing behind.
LEMMA Answered ==
    ASSUME IInv, NEW w \in Workers, Reply(w), UNCHANGED <<rows, notes, accounts>>
    PROVE  IInv'
<1>1. /\ Idle.pc = "idle" /\ \A k : ~Clash(k, Idle) /\ ~Clash(Idle, k)
      /\ Idle \notin Requests
  BY JobFacts DEF Idle, Clash, Creating, Sections
<1> QED BY <1>1, ReadStep DEF Reply

\* Who may take a step leaves nobody else between a SELECT and a COMMIT.
LEMMA Alone ==
    ASSUME NEW w \in Workers, MayRun(w)
    PROVE  \A v \in Workers \ {w} : job[v].pc \notin Sections
BY DEF MayRun, InSection, Sections

LEMMA SectionStep ==
    ASSUME IInv, NEW w \in Workers, NEW j \in Requests, job' = [job EXCEPT ![w] = j],
           UNCHANGED <<rows, notes, accounts>>, MayRun(w),
           Fits(j), j.pc \in Sections
    PROVE  IInv'
<1>1. \A v \in Workers \ {w} : ~Clash(job[v], j) /\ ~Clash(j, job[v])
  BY Alone DEF Clash, Creating, Sections
<1> QED BY <1>1, ReadStep DEF Sections

\* The three counts are about different complaints.
LEMMA CountsFit ==
    LET stats == Counted("PENDING") + Counted("IN_PROGRESS") + Counted("RESOLVED") IN
    stats \in Nat /\ stats <= Cardinality(Existing)
<1> DEFINE In(s) == {c \in Ids : Exists(c) /\ row[c].status = s}
           open == In("PENDING") \cup In("IN_PROGRESS")
<1>1. IsFiniteSet(Existing)
  BY ComplaintsAssumption, FS_Subset DEF Existing
<1>2. \A s \in Statuses : IsFiniteSet(In(s))
  BY ComplaintsAssumption, FS_Subset
<1>3. /\ IsFiniteSet(open) /\ open \cap In("RESOLVED") = {}
      /\ In("PENDING") \cap In("IN_PROGRESS") = {}
      /\ open \cup In("RESOLVED") \subseteq Existing
  BY <1>2, FS_Union DEF Statuses, Existing
<1>4. Cardinality(open) = Cardinality(In("PENDING")) + Cardinality(In("IN_PROGRESS")) - 0
  BY <1>2, <1>3, FS_Union, FS_EmptySet DEF Statuses
<1>5. Cardinality(open \cup In("RESOLVED")) = Cardinality(open) + Cardinality(In("RESOLVED")) - 0
  BY <1>2, <1>3, FS_Union, FS_EmptySet DEF Statuses
<1>6. Cardinality(open \cup In("RESOLVED")) <= Cardinality(Existing)
  BY <1>1, <1>3, FS_Subset
<1>7. \A s \in Statuses : Cardinality(In(s)) \in Nat /\ Counted(s) = Cardinality(In(s))
  BY <1>2, FS_CardinalityType DEF Counted
<1> HIDE DEF In
<1> QED BY <1>4, <1>5, <1>6, <1>7 DEF Statuses

LEMMA CallStep ==
    ASSUME IInv, NEW w \in Workers, Call(w)
    PROVE  IInv'
<1>1. MayRun(w)
  BY DEF Call, BeginCreate, LoadForEvidence, LoadForStatus, LoadForEdit, LoadForDelete,
         ListStats, Begin, At
<1>2. CASE BeginCreate(w)
  <2>1. PICK c \in Ids, u \in Users, type \in {"REPORT", "SUGGESTION"}, text \in Texts, n \in 0..MaxImages :
           /\ owner[c] = Nobody /\ stored[c] = 0
           /\ \A v \in Workers : job[v] # Idle => job[v].id # c
           /\ Begin(w, u, [pc |-> "upload", op |-> "create", id |-> c, actor |-> u,
                           type |-> type, text |-> text, images |-> n, left |-> n])
    BY <1>2 DEF BeginCreate
  <2>2. PICK j : j = [pc |-> "upload", op |-> "create", id |-> c, actor |-> u,
                      type |-> type, text |-> text, images |-> n, left |-> n]
    OBVIOUS
  <2>3. j \in Requests
    BY <2>2 DEF Requests
  <2>4. j.pc = "upload" /\ j.id = c /\ Creating(j) /\ j.images - j.left = 0
    BY <2>2, ComplaintsAssumption DEF Creating
  <2>5. row[c] = NoRow
    BY <2>1 DEF IInv, Recorded
  <2>6. Fits(j)
    BY <2>1, <2>4, <2>5 DEF Fits, Creating
  <2>7. \A v \in Workers \ {w} : ~Clash(job[v], j) /\ ~Clash(j, job[v])
    <3>1. \A v \in Workers : Creating(job[v]) => job[v].id # c
      BY <2>1 DEF Creating, Idle
    <3> QED BY <2>4, <3>1 DEF Clash, Sections
  <2>8. job' = [job EXCEPT ![w] = j] /\ UNCHANGED <<rows, notes, accounts>>
    BY <2>1, <2>2 DEF Begin
  <2> QED BY <2>3, <2>4, <2>6, <2>7, <2>8, ReadStep
<1>3. CASE LoadForEvidence(w)
  <2>1. PICK c \in Ids : /\ row[c].type = "REPORT"
                         /\ Begin(w, Nobody, [pc |-> "upload", op |-> "evidence", id |-> c])
    BY <1>3 DEF LoadForEvidence
  <2>2. PICK j : j = [pc |-> "upload", op |-> "evidence", id |-> c]
    OBVIOUS
  <2>3. j \in Requests /\ j.pc = "upload" /\ j.op = "evidence" /\ j.id = c
    BY <2>2 DEF Requests
  <2>4. row[c] # NoRow
    BY <2>1 DEF NoRow
  <2>5. Fits(j) /\ \A v \in Workers \ {w} : ~Clash(job[v], j) /\ ~Clash(j, job[v])
    BY <2>1, <2>3, <2>4 DEF Fits, Creating, Clash, Sections
  <2>6. job' = [job EXCEPT ![w] = j] /\ UNCHANGED <<rows, notes, accounts>>
    BY <2>1, <2>2 DEF Begin
  <2> QED BY <2>3, <2>5, <2>6, ReadStep
<1>4. CASE LoadForStatus(w)
  <2>1. PICK c \in Ids, s \in Statuses :
           /\ row[c].type = "REPORT" /\ s \in Allowed[row[c].status]
           /\ s = "RESOLVED" => row[c].evidence > 0
           /\ Begin(w, Nobody, [pc |-> "commit", op |-> "status", id |-> c, arg |-> s,
                                seen |-> row[c].status])
    BY <1>4 DEF LoadForStatus
  <2>2. PICK j : j = [pc |-> "commit", op |-> "status", id |-> c, arg |-> s, seen |-> row[c].status]
    OBVIOUS
  <2>3. row[c] \in Rows /\ row[c].status \in Statuses /\ row[c] # NoRow
    BY <2>1, RowFacts DEF IInv, TypeOK, Recorded, Agrees, NoRow, Gone
  <2>4. j \in Requests
    BY <2>2, <2>3 DEF Requests
  <2>5. j.pc = "commit" /\ j.op = "status" /\ j.id = c /\ j.arg = s /\ j.seen = row[c].status
    BY <2>2
  <2>6. Fits(j)
    BY <2>1, <2>3, <2>5 DEF Fits, Creating
  <2>7. job' = [job EXCEPT ![w] = j] /\ UNCHANGED <<rows, notes, accounts>>
    BY <2>1, <2>2 DEF Begin
  <2> QED BY <1>1, <2>4, <2>5, <2>6, <2>7, SectionStep DEF Sections
<1>5. CASE LoadForEdit(w)
  <2>1. PICK c \in Ids, u \in Users, text \in Texts :
           /\ row[c].type = "REPORT" /\ row[c].status = "PENDING"
           /\ Begin(w, u, [pc |-> "commit", op |-> "edit", id |-> c, arg |-> text,
                           seen |-> row[c].text])
    BY <1>5 DEF LoadForEdit
  <2>2. PICK j : j = [pc |-> "commit", op |-> "edit", id |-> c, arg |-> text, seen |-> row[c].text]
    OBVIOUS
  <2>3. row[c] \in Rows /\ row[c] # NoRow
    BY <2>1, RowFacts DEF IInv, TypeOK, NoRow, Gone
  <2>4. j \in Requests
    BY <2>2, <2>3 DEF Requests, Rows
  <2>5. j.pc = "commit" /\ j.op = "edit" /\ j.id = c
    BY <2>2
  <2>6. Fits(j)
    BY <2>1, <2>3, <2>5 DEF Fits, Creating
  <2>7. job' = [job EXCEPT ![w] = j] /\ UNCHANGED <<rows, notes, accounts>>
    BY <2>1, <2>2 DEF Begin
  <2> QED BY <1>1, <2>4, <2>5, <2>6, <2>7, SectionStep DEF Sections
<1>6. CASE LoadForDelete(w)
  <2>1. PICK c \in Ids : \E u \in {owner[c], Nobody} :
           Exists(c) /\ Begin(w, u, [pc |-> "commit", op |-> "delete", id |-> c])
    BY <1>6 DEF LoadForDelete
  <2>2. PICK j : j = [pc |-> "commit", op |-> "delete", id |-> c]
    OBVIOUS
  <2>3. j \in Requests /\ j.pc = "commit" /\ j.op = "delete" /\ j.id = c
    BY <2>2 DEF Requests
  <2>4. Fits(j)
    BY <2>1, <2>3 DEF Fits, Creating, Exists
  <2>5. job' = [job EXCEPT ![w] = j] /\ UNCHANGED <<rows, notes, accounts>>
    BY <2>1, <2>2 DEF Begin
  <2> QED BY <1>1, <2>3, <2>4, <2>5, SectionStep DEF Sections
<1>7. CASE ListStats(w)
  <2>1. PICK j : j = [pc |-> "total", op |-> "list", id |-> Nobody,
                      stats |-> Counted("PENDING") + Counted("IN_PROGRESS") + Counted("RESOLVED")]
    OBVIOUS
  <2>2. j.stats \in Nat /\ j.stats <= Cardinality(Existing)
    BY <2>1, CountsFit
  <2>3. j \in Requests /\ j.pc = "total"
    BY <2>1, <2>2 DEF Requests
  <2>4. Fits(j)
    BY <2>2, <2>3 DEF Fits, Creating
  <2>5. job' = [job EXCEPT ![w] = j] /\ UNCHANGED <<rows, notes, accounts>>
    BY <1>7, <2>1 DEF ListStats, Begin
  <2> QED BY <1>1, <2>3, <2>4, <2>5, SectionStep DEF Sections
<1> QED BY <1>2, <1>3, <1>4, <1>5, <1>6, <1>7 DEF Call

-----------------------------------------------------------------------------
(* Objects are stored.                                                     *)

\* What a worker that takes a step is serving.
LEMMA Serving ==
    ASSUME IInv, NEW w \in Workers, NEW pc \in {"upload", "sign", "insert", "commit", "total", "page"},
           At(w, pc)
    PROVE  /\ job[w] \in Requests /\ job[w].pc = pc /\ Fits(job[w]) /\ MayRun(w)
           /\ pc \notin {"total", "page"} => job[w].id \in Ids
<1>1. job[w].pc = pc /\ MayRun(w)
  BY DEF At
<1>2. job[w] \in Requests
  BY <1>1 DEF IInv, TypeOK, Idle
<1>3. Fits(job[w])
  BY <1>2 DEF IInv, AllFit
<1> QED BY <1>1, <1>2, <1>3, JobFacts

LEMMA UploadImageStep ==
    ASSUME IInv, NEW w \in Workers, UploadImage(w)
    PROVE  IInv'
<1>1. At(w, "upload") /\ job[w].op = "create"
  BY DEF UploadImage
<1>2. CASE Reply(w) /\ UNCHANGED stored
  BY <1>2, Answered DEF UploadImage, rows
<1>3. CASE /\ stored' = [stored EXCEPT ![job[w].id] = @ + 1]
           /\ job' = [job EXCEPT ![w].left = @ - 1]
  <2>1. PICK c, k : c = job[w].id /\ k = job[w]
    OBVIOUS
  <2>2. PICK j : j = [k EXCEPT !.left = @ - 1]
    OBVIOUS
  <2>3. k \in Requests /\ Creating(k) /\ Fits(k) /\ c \in Ids /\ k.left > 0
    BY <1>1, <2>1, Serving DEF Creating, UploadImage
  <2>4. k.images \in Nat /\ k.left \in Nat /\ k.left \in 0..MaxImages
    BY <2>3, JobFacts
  <2>5. j \in Requests
    <3>1. k \in [pc : {"upload"}, op : {"create"}, id : Ids, actor : Users,
                 type : {"REPORT", "SUGGESTION"}, text : Texts, images : 0..MaxImages,
                 left : 0..MaxImages]
      BY <2>3 DEF Requests, Creating
    <3>2. k.left - 1 \in 0..MaxImages
      BY <2>3, <2>4, ComplaintsAssumption
    <3> QED BY <2>2, <3>1, <3>2 DEF Requests
  <2>6. j.pc = "upload" /\ j.op = "create" /\ j.id = c /\ j.images = k.images /\ j.left = k.left - 1
    BY <2>1, <2>2, <2>3 DEF Requests, Creating
  <2>7. stored' = [stored EXCEPT ![c] = @ + 1] /\ job' = [job EXCEPT ![w] = j]
    BY <1>3, <2>1, <2>2
  <2>8. stored' \in [Ids -> Nat] /\ stored'[c] = stored[c] + 1 /\ \A d \in Ids : stored[d] <= stored'[d]
    BY <2>3, <2>7 DEF IInv, TypeOK
  <2>9. row[c] = NoRow /\ k.images - k.left <= stored[c]
    BY <2>1, <2>3 DEF Fits
  <2>10. UNCHANGED <<row, owner, history, notes, accounts>>
    BY DEF UploadImage
  <2>11. Fits(j)'
    <3>1. j.images - j.left <= stored'[c]
      BY <2>3, <2>4, <2>6, <2>8, <2>9 DEF IInv, TypeOK
    <3> QED BY <2>6, <2>9, <2>10, <3>1 DEF Fits, Creating
  <2>12. \A v \in Workers \ {w} : ~Clash(job[v], j) /\ ~Clash(j, job[v])
    BY <2>1, <2>3, <2>6 DEF IInv, Apart, Clash, Creating, Sections
  <2>13. Stored'
    <3> SUFFICES ASSUME NEW d \in Ids, row[d] \in Rows
                 PROVE  row[d].images + row[d].evidence + Cardinality(Inserting(d))' <= stored'[d]
      BY <2>10 DEF Stored
    <3>1. Inserting(d)' \subseteq Inserting(d)
      BY <2>6, <2>7 DEF Inserting, IInv, TypeOK
    <3>2. stored[d] \in Nat /\ stored'[d] \in Nat /\ stored[d] <= stored'[d]
      BY <2>8 DEF IInv, TypeOK
    <3> QED BY <3>1, <3>2, FewerInserts, StoredFacts DEF IInv, Stored
  <2> QED BY <2>5, <2>7, <2>8, <2>10, <2>11, <2>12, <2>13, JobStep
<1> QED BY <1>2, <1>3 DEF UploadImage

LEMMA UploadEvidenceStep ==
    ASSUME IInv, NEW w \in Workers, UploadEvidence(w)
    PROVE  IInv'
<1>1. At(w, "upload") /\ job[w].op = "evidence"
  BY DEF UploadEvidence
<1>2. CASE Reply(w) /\ UNCHANGED stored
  BY <1>2, Answered DEF UploadEvidence, rows
<1>3. CASE /\ stored' = [stored EXCEPT ![job[w].id] = @ + 1]
           /\ job' = [job EXCEPT ![w].pc = "insert"]
  <2>1. PICK c, k : c = job[w].id /\ k = job[w]
    OBVIOUS
  <2>2. PICK j : j = [k EXCEPT !.pc = "insert"]
    OBVIOUS
  <2>3. k \in Requests /\ k.pc = "upload" /\ k.op = "evidence" /\ Fits(k) /\ c \in Ids
    BY <1>1, <2>1, Serving
  <2>4. j \in Requests /\ j.pc = "insert" /\ j.op = "evidence" /\ j.id = c
    <3>1. k \in [pc : {"upload", "insert"}, op : {"evidence"}, id : Ids]
      BY <2>3 DEF Requests
    <3> QED BY <2>1, <2>2, <3>1 DEF Requests
  <2>5. stored' = [stored EXCEPT ![c] = @ + 1] /\ job' = [job EXCEPT ![w] = j]
    BY <1>3, <2>1, <2>2
  <2>6. stored' \in [Ids -> Nat] /\ stored'[c] = stored[c] + 1 /\ \A d \in Ids : stored[d] <= stored'[d]
    BY <2>3, <2>5 DEF IInv, TypeOK
  <2>7. UNCHANGED <<row, owner, history, notes, accounts>>
    BY DEF UploadEvidence
  <2>8. Fits(j)'
    BY <2>1, <2>3, <2>4, <2>7 DEF Fits, Creating
  <2>9. \A v \in Workers \ {w} : ~Clash(job[v], j) /\ ~Clash(j, job[v])
    BY <2>4 DEF Clash, Creating, Sections
  <2>10. Stored'
    <3> SUFFICES ASSUME NEW d \in Ids, row[d] \in Rows
                 PROVE  row[d].images + row[d].evidence + Cardinality(Inserting(d))' <= stored'[d]
      BY <2>7 DEF Stored
    <3>1. stored[d] \in Nat /\ stored'[d] \in Nat /\ stored[d] <= stored'[d]
      BY <2>6 DEF IInv, TypeOK
    <3>2. CASE d # c
      <4>1. Inserting(d)' \subseteq Inserting(d)
        BY <2>4, <2>5, <3>2 DEF Inserting, IInv, TypeOK
      <4> QED BY <3>1, <4>1, FewerInserts, StoredFacts DEF IInv, Stored
    <3>3. CASE d = c
      <4>1. Inserting(d)' = Inserting(d) \cup {w} /\ w \notin Inserting(d)
        BY <2>1, <2>3, <2>4, <2>5, <3>3 DEF Inserting, IInv, TypeOK
      <4>2. IsFiniteSet(Inserting(d))
        BY ComplaintsAssumption, FS_Subset DEF Inserting
      <4>3. /\ Cardinality(Inserting(d))' = Cardinality(Inserting(d)) + 1
            /\ Cardinality(Inserting(d)) \in Nat
        BY <4>1, <4>2, FS_AddElement, FS_CardinalityType
      <4> QED BY <2>6, <3>1, <3>3, <4>3, StoredFacts DEF IInv, Stored
    <3> QED BY <3>2, <3>3
  <2> QED BY <2>4, <2>5, <2>6, <2>7, <2>8, <2>9, <2>10, JobStep
<1> QED BY <1>2, <1>3 DEF UploadEvidence

LEMMA ListSteps ==
    ASSUME IInv, NEW w \in Workers, ListTotal(w) \/ ListPage(w)
    PROVE  IInv'
<1>1. CASE ListTotal(w)
  <2>1. At(w, "total")
    BY <1>1 DEF ListTotal
  <2>2. job[w] \in Requests /\ job[w].pc = "total" /\ Fits(job[w]) /\ MayRun(w)
    BY <2>1, Serving
  <2>3. PICK j : j = [pc |-> "page", op |-> "list", id |-> Nobody, stats |-> job[w].stats,
                      total |-> Cardinality(Existing)]
    OBVIOUS
  <2>4. job[w].stats \in Nat /\ job[w].stats <= Cardinality(Existing) /\ Cardinality(Existing) \in Nat
    <3>1. IsFiniteSet(Existing)
      BY ComplaintsAssumption, FS_Subset DEF Existing
    <3> QED BY <2>2, <3>1, JobFacts, FS_CardinalityType DEF Fits
  <2>5. j \in Requests /\ j.pc = "page" /\ j.stats <= j.total
    BY <2>3, <2>4 DEF Requests
  <2>6. Fits(j)
    BY <2>5 DEF Fits, Creating
  <2>7. job' = [job EXCEPT ![w] = j] /\ UNCHANGED <<rows, notes, accounts>>
    BY <1>1, <2>3 DEF ListTotal, Existing
  <2> QED BY <2>2, <2>5, <2>6, <2>7, SectionStep DEF Sections
<1>2. CASE ListPage(w)
  BY <1>2, Answered DEF ListPage
<1> QED BY <1>1, <1>2

-----------------------------------------------------------------------------
(* A row is written.                                                       *)

Changes == [old : Statuses \cup {"none"}, new : Statuses]

\* What a COMMIT on complaint c must show.
LEMMA RowStep ==
    ASSUME IInv, NEW w \in Workers, MayRun(w), NEW c \in Ids,
           NEW j \in {Idle} \cup Requests, job' = [job EXCEPT ![w] = j],
           j.pc \in {"idle", "sign"}, j \in Requests => Fits(j)',
           \A v \in Workers \ {w} : ~Clash(job[v], j) /\ ~Clash(j, job[v]),
           \A v \in Workers \ {w} : Creating(job[v]) => job[v].id # c,
           NEW r \in Rows \cup {Gone}, row' = [row EXCEPT ![c] = r],
           row[c] = Gone => r = Gone,
           row[c] # NoRow /\ row[c].type = "REPORT" => r = Gone \/ r.type = "REPORT",
           NEW h \in Seq(Changes), history' = [history EXCEPT ![c] = h], Agrees(r, h),
           owner' \in [Ids -> Users \cup {Nobody}], owner'[c] # Nobody,
           \A d \in Ids \ {c} : owner'[d] = owner[d],
           UNCHANGED <<stored, note, accounts>>,
           r \in Rows => r.images + r.evidence + Cardinality(Inserting(c))' <= stored[c],
           task' \in [Ids -> [Events -> Tasks]],
           \A d \in Ids \ {c} : task'[d] = task[d],
           task'[c]["SUBMITTED"] = task[c]["SUBMITTED"],
           \A e \in Events : Task(c, e)'
    PROVE  IInv'
<1>1. UNCHANGED <<active, closed>>
  BY DEF accounts
<1>2. TypeOK'
  <2>1. row' \in [Ids -> {NoRow, Gone} \cup Rows]
    BY DEF IInv, TypeOK
  <2>2. history' \in [Ids -> Seq(Changes)]
    BY DEF IInv, TypeOK, Changes
  <2>3. job' \in [Workers -> {Idle} \cup Requests]
    BY DEF IInv, TypeOK
  <2> QED BY <1>1, <2>1, <2>2, <2>3 DEF IInv, TypeOK, Changes
<1>3. job'[w] = j /\ \A v \in Workers \ {w} : job'[v] = job[v]
  BY DEF IInv, TypeOK
<1>4. \A d \in Ids : /\ row'[d] = IF d = c THEN r ELSE row[d]
                     /\ history'[d] = IF d = c THEN h ELSE history[d]
  BY DEF IInv, TypeOK
<1>5. \A v \in Workers, k \in Requests : v # w /\ job[v] = k => Fits(k)'
  <2> SUFFICES ASSUME NEW v \in Workers, NEW k \in Requests, v # w, job[v] = k PROVE Fits(k)'
    OBVIOUS
  <2>1. Fits(k) /\ k.pc \notin Sections
    BY Alone DEF IInv, AllFit
  <2>2. /\ k.id \in Ids /\ k.pc \in {"upload", "sign", "insert"}
        /\ Events = {"SUBMITTED", "IN_PROGRESS", "RESOLVED", "REJECTED"}
    BY <2>1, JobFacts DEF Sections, Events
  <2>3. CASE k.id # c
    BY <1>4, <2>1, <2>2, <2>3 DEF Fits, Creating, Sections
  <2>4. CASE k.id = c
    <3>1. ~Creating(k) /\ row[c] # NoRow
      BY <2>1, <2>2, <2>4 DEF Fits
    <3>2. row'[c] # NoRow /\ row'[c] = r
      BY <1>4, RowFacts
    <3>3. k.pc \in {"insert", "upload"} => r = Gone \/ r.type = "REPORT"
      BY <2>1, <2>2, <2>4, <3>1, JobFacts DEF Fits, Creating
    <3> QED BY <2>1, <2>2, <2>4, <3>1, <3>2, <3>3 DEF Fits, Creating, Sections
  <2> QED BY <2>3, <2>4
<1>6. AllFit'
  BY <1>3, <1>5 DEF AllFit
<1>7. Apart'
  BY <1>3 DEF IInv, Apart
<1>8. Recorded'
  BY <1>4, RowFacts DEF IInv, Recorded
<1>9. Stored'
  <2> SUFFICES ASSUME NEW d \in Ids, row'[d] \in Rows
               PROVE  row'[d].images + row'[d].evidence + Cardinality(Inserting(d))' <= stored[d]
    BY DEF Stored
  <2>1. CASE d = c
    BY <1>4, <2>1
  <2>2. CASE d # c
    <3>1. Inserting(d)' \subseteq Inserting(d)
      BY <1>3 DEF Inserting
    <3>2. row[d] \in Rows /\ row'[d] = row[d]
      BY <1>4, <2>2
    <3>3. row[d].images + row[d].evidence + Cardinality(Inserting(d)) <= stored[d]
      BY <3>2 DEF IInv, Stored
    <3>4. /\ row[d].images \in Nat /\ row[d].evidence \in Nat /\ stored[d] \in Nat
      BY <3>2, StoredFacts DEF IInv
    <3>5. /\ Cardinality(Inserting(d))' <= Cardinality(Inserting(d))
          /\ Cardinality(Inserting(d))' \in Nat /\ Cardinality(Inserting(d)) \in Nat
      BY <3>1, FewerInserts
    <3> QED BY <3>2, <3>3, <3>4, <3>5
  <2> QED BY <2>1, <2>2
<1>10. Told'
  <2> SUFFICES ASSUME NEW d \in Ids, NEW e \in Events, d # c PROVE Task(d, e)'
    BY DEF Told
  <2>1. Task(d, e)
    BY DEF IInv, Told
  <2>2. row'[d] = row[d] /\ history'[d] = history[d] /\ owner'[d] = owner[d] /\ task'[d] = task[d]
    BY <1>4
  <2>3. Happened(d, e)' <=> Happened(d, e)
    BY <2>2 DEF Happened, Exists
  <2> QED BY <1>1, <2>1, <2>2, <2>3 DEF Task
<1> QED BY <1>2, <1>6, <1>7, <1>8, <1>9, <1>10 DEF IInv

LEMMA IdleFacts ==
    /\ Idle.pc = "idle" /\ Idle \notin Requests
    /\ \A k : ~Clash(k, Idle) /\ ~Clash(Idle, k)
BY JobFacts DEF Idle, Clash, Creating, Sections

LEMMA CommitCreateStep ==
    ASSUME IInv, NEW w \in Workers, CommitCreate(w)
    PROVE  IInv'
<1>1. PICK k, c : k = job[w] /\ c = job[w].id
  OBVIOUS
<1>2. At(w, "upload") /\ k.op = "create" /\ k.left = 0
  BY <1>1 DEF CommitCreate
<1>3. k \in Requests /\ Creating(k) /\ Fits(k) /\ MayRun(w) /\ c \in Ids /\ k.id = c
  BY <1>1, <1>2, Serving DEF Creating
<1>4. PICK r : r = [type |-> k.type, text |-> k.text, images |-> k.images, evidence |-> 0,
                    status |-> IF k.type = "REPORT" THEN "PENDING" ELSE "none"]
  OBVIOUS
<1>5. r \in Rows /\ k.images \in Nat
  BY <1>3, <1>4, JobFacts DEF Rows, Statuses
<1>6. PICK h : h = IF k.type = "REPORT" THEN <<[old |-> "none", new |-> "PENDING"]>> ELSE <<>>
  OBVIOUS
<1>7. PICK j : j = [pc |-> "sign", op |-> "create", id |-> c]
  OBVIOUS
<1>8. row[c] = NoRow /\ k.images <= stored[c] /\ history[c] = <<>> /\ \A e \in Events : task[c][e] = "none"
  <2>1. row[c] = NoRow /\ k.images <= stored[c]
    BY <1>2, <1>3, <1>5 DEF Fits
  <2>2. history[c] = <<>>
    BY <1>3, <2>1, RowFacts DEF IInv, Recorded, Agrees
  <2>3. \A e \in Events : ~Happened(c, e)
    BY <2>1, <2>2 DEF Happened, Exists
  <2> QED BY <1>3, <2>1, <2>2, <2>3, RowFacts DEF IInv, Told, Task
<1>9. /\ row' = [row EXCEPT ![c] = r] /\ job' = [job EXCEPT ![w] = j]
      /\ owner' = [owner EXCEPT ![c] = k.actor]
      /\ UNCHANGED <<stored, notes, accounts>>
  BY <1>1, <1>4, <1>7 DEF CommitCreate
<1>10. history' = [history EXCEPT ![c] = h]
  BY <1>1, <1>3, <1>6, <1>8 DEF CommitCreate, IInv, TypeOK
<1>11. h \in Seq(Changes) /\ Agrees(r, h)
  <2>1. CASE k.type = "REPORT"
    <3>1. h = <<[old |-> "none", new |-> "PENDING"]>> /\ r.type = "REPORT" /\ r.status = "PENDING"
      BY <1>4, <1>6, <2>1
    <3>2. [old |-> "none", new |-> "PENDING"] \in Changes
      BY DEF Changes, Statuses
    <3> QED BY <1>5, <3>1, <3>2 DEF Agrees, Path, Before, Statuses
  <2>2. CASE k.type # "REPORT"
    BY <1>3, <1>4, <1>5, <1>6, <2>2, JobFacts DEF Agrees
  <2> QED BY <2>1, <2>2
<1>12. j \in Requests /\ j.pc = "sign" /\ j.id = c
  BY <1>3, <1>7 DEF Requests
<1>13. row'[c] = r /\ r # NoRow
  BY <1>3, <1>5, <1>9, RowFacts DEF IInv, TypeOK
<1>14. Fits(j)'
  <2>1. task'[c]["SUBMITTED"] = "none"
    BY <1>8, <1>9 DEF notes, Events
  <2> QED BY <1>12, <1>13, <2>1 DEF Fits, Creating
<1>15. /\ \A v \in Workers \ {w} : ~Clash(job[v], j) /\ ~Clash(j, job[v])
       /\ \A v \in Workers \ {w} : Creating(job[v]) => job[v].id # c
  <2>1. \A v \in Workers \ {w} : Creating(job[v]) => job[v].id # c
    BY <1>1, <1>3 DEF IInv, Apart, Clash
  <2>2. ASSUME NEW v \in Workers, job[v].pc = "sign", job[v].id = c PROVE FALSE
    <3>1. job[v] \in Requests
      BY <2>2, IdleFacts DEF IInv, TypeOK
    <3> QED BY <1>8, <2>2, <3>1 DEF IInv, AllFit, Fits, Creating
  <2> QED BY <1>12, <2>1, <2>2 DEF Clash, Creating, Sections
<1>16. r.images + r.evidence + Cardinality(Inserting(c))' <= stored[c]
  <2>1. Inserting(c)' = {}
    <3>1. ASSUME NEW v \in Workers, job[v].pc = "insert", job[v].id = c PROVE FALSE
      <4>1. job[v] \in Requests
        BY <3>1, IdleFacts DEF IInv, TypeOK
      <4> QED BY <1>8, <3>1, <4>1 DEF IInv, AllFit, Fits, Creating
    <3> QED BY <1>9, <1>12, <3>1 DEF Inserting, IInv, TypeOK
  <2>2. r.images = k.images /\ r.evidence = 0
    BY <1>4
  <2> QED BY <1>5, <1>8, <2>1, <2>2, FS_EmptySet
<1>17. \A e \in Events : Task(c, e)'
  <2>1. \A e \in Events : note[c][e] = 0
    BY <1>3, <1>8 DEF IInv, Told, Task
  <2> QED BY <1>8, <1>9, <2>1 DEF Task, notes
<1>18. owner' \in [Ids -> Users \cup {Nobody}] /\ owner'[c] # Nobody
       /\ \A d \in Ids \ {c} : owner'[d] = owner[d]
  BY <1>3, <1>9, JobFacts, ComplaintsAssumption DEF IInv, TypeOK
<1>19. /\ task' \in [Ids -> [Events -> Tasks]] /\ \A d \in Ids \ {c} : task'[d] = task[d]
       /\ task'[c]["SUBMITTED"] = task[c]["SUBMITTED"] /\ UNCHANGED <<stored, note, accounts>>
  BY <1>9 DEF notes, IInv, TypeOK
<1> QED BY <1>3, <1>5, <1>8, <1>9, <1>10, <1>11, <1>12, <1>14, <1>15, <1>16, <1>17, <1>18, <1>19,
           RowStep, RowFacts

LEMMA CommitEvidenceStep ==
    ASSUME IInv, NEW w \in Workers, CommitEvidence(w)
    PROVE  IInv'
<1>1. PICK c : c = job[w].id
  OBVIOUS
<1>2. At(w, "insert") /\ Reply(w) /\ UNCHANGED <<owner, history, stored, notes, accounts>>
  BY DEF CommitEvidence
<1>3. job[w] \in Requests /\ job[w].pc = "insert" /\ Fits(job[w]) /\ MayRun(w) /\ c \in Ids
  BY <1>1, <1>2, Serving
<1>4. CASE ~Exists(c)
  BY <1>1, <1>2, <1>4, Answered DEF CommitEvidence, rows
<1>5. CASE Exists(c)
  <2>1. row[c] \in Rows /\ row[c].type = "REPORT"
    BY <1>1, <1>3, <1>5, RowFacts DEF Fits, IInv
  <2>2. row[c].images \in Nat /\ row[c].evidence \in Nat /\ stored[c] \in Nat
    BY <1>3, <2>1, StoredFacts DEF IInv
  <2>3. PICK r : r = [row[c] EXCEPT !.evidence = @ + 1]
    OBVIOUS
  <2>4. /\ r \in Rows /\ r.type = "REPORT" /\ r.status = row[c].status /\ r.images = row[c].images
        /\ r.evidence = row[c].evidence + 1
    BY <2>1, <2>2, <2>3 DEF Rows
  <2>5. PICK h : h = history[c]
    OBVIOUS
  <2>6. h \in Seq(Changes) /\ history' = [history EXCEPT ![c] = h] /\ Agrees(row[c], h)
    BY <1>2, <1>3, <2>5 DEF IInv, TypeOK, Changes, Recorded
  <2>7. Agrees(r, h)
    BY <2>1, <2>2, <2>4, <2>6 DEF Agrees, Path
  <2>8. row' = [row EXCEPT ![c] = r] /\ job' = [job EXCEPT ![w] = Idle]
    BY <1>1, <1>2, <1>5, <2>3 DEF CommitEvidence, Reply
  <2>9. r.images + r.evidence + Cardinality(Inserting(c))' <= stored[c]
    <3>1. IsFiniteSet(Inserting(c))
      BY ComplaintsAssumption, FS_Subset DEF Inserting
    <3>2. Inserting(c)' = Inserting(c) \ {w} /\ w \in Inserting(c)
      BY <1>1, <1>3, <2>8, IdleFacts DEF Inserting, IInv, TypeOK
    <3>3. /\ Cardinality(Inserting(c))' = Cardinality(Inserting(c)) - 1
          /\ Cardinality(Inserting(c)) \in Nat
      BY <3>1, <3>2, FS_RemoveElement, FS_CardinalityType
    <3>4. row[c].images + row[c].evidence + Cardinality(Inserting(c)) <= stored[c]
      BY <1>3, <2>1 DEF IInv, Stored
    <3> QED BY <2>2, <2>4, <3>3, <3>4
  <2>10. row'[c] = r
    BY <1>3, <2>8 DEF IInv, TypeOK
  <2>11. \A e \in Events : Task(c, e)'
    <3>1. \A e \in Events : Task(c, e) /\ (Happened(c, e) => Happened(c, e)')
      BY <1>2, <1>3, <1>5, <2>4, <2>10, RowFacts DEF IInv, Told, Happened, Exists
    <3> QED BY <1>2, <1>5, <3>1 DEF Task, notes, accounts, Exists
  <2>12. /\ owner' \in [Ids -> Users \cup {Nobody}] /\ owner'[c] # Nobody
         /\ \A d \in Ids \ {c} : owner'[d] = owner[d]
         /\ task' \in [Ids -> [Events -> Tasks]] /\ \A d \in Ids \ {c} : task'[d] = task[d]
         /\ task'[c]["SUBMITTED"] = task[c]["SUBMITTED"] /\ UNCHANGED <<stored, note, accounts>>
    BY <1>2, <1>3, <2>1, RowFacts DEF notes, IInv, TypeOK, Recorded
  <2>13. \A v \in Workers \ {w} : Creating(job[v]) => job[v].id # c
    <3>1. row[c] # NoRow
      BY <2>1, RowFacts
    <3> SUFFICES ASSUME NEW v \in Workers \ {w}, Creating(job[v]) PROVE row[job[v].id] = NoRow
      BY <3>1
    <3>2. job[v] \in {Idle} \cup Requests /\ job[v] # Idle
      BY IdleFacts DEF IInv, TypeOK, Creating
    <3> QED BY <3>2 DEF IInv, AllFit, Fits
  <2> QED BY <1>3, <2>1, <2>4, <2>6, <2>7, <2>8, <2>9, <2>11, <2>12, <2>13, IdleFacts, RowStep, RowFacts
<1> QED BY <1>4, <1>5

\* A handler at its COMMIT, that answers with it.
LEMMA Committing ==
    ASSUME IInv, NEW w \in Workers, At(w, "commit"), Reply(w), NEW c, c = job[w].id
    PROVE  /\ job[w] \in Requests /\ Fits(job[w]) /\ MayRun(w) /\ c \in Ids /\ row[c] # NoRow
           /\ job' = [job EXCEPT ![w] = Idle] /\ owner[c] # Nobody
           /\ \A v \in Workers \ {w} : Creating(job[v]) => job[v].id # c
           /\ Inserting(c)' \subseteq Inserting(c)
<1>1. job[w] \in Requests /\ job[w].pc = "commit" /\ Fits(job[w]) /\ MayRun(w) /\ c \in Ids
  BY Serving
<1>2. row[c] # NoRow
  BY <1>1 DEF Fits, Creating
<1>3. \A v \in Workers \ {w} : Creating(job[v]) => job[v].id # c
  BY <1>2, IdleFacts DEF IInv, AllFit, Fits, TypeOK, Creating
<1>4. Inserting(c)' \subseteq Inserting(c)
  BY IdleFacts DEF Inserting, Reply, IInv, TypeOK
<1> QED BY <1>1, <1>2, <1>3, <1>4 DEF Reply, IInv, Recorded

LEMMA CommitDeleteStep ==
    ASSUME IInv, NEW w \in Workers, CommitDelete(w)
    PROVE  IInv'
<1>1. PICK c : c = job[w].id
  OBVIOUS
<1>2. /\ At(w, "commit") /\ Reply(w) /\ UNCHANGED <<owner, stored, notes, accounts>>
      /\ row' = [row EXCEPT ![c] = Gone] /\ history' = [history EXCEPT ![c] = <<>>]
  BY <1>1 DEF CommitDelete
<1>3. /\ MayRun(w) /\ c \in Ids /\ row[c] # NoRow /\ job' = [job EXCEPT ![w] = Idle] /\ owner[c] # Nobody
      /\ \A v \in Workers \ {w} : Creating(job[v]) => job[v].id # c
  BY <1>1, <1>2, Committing
<1>4. Agrees(Gone, <<>>) /\ <<>> \in Seq(Changes)
  BY RowFacts DEF Agrees
<1>5. \A e \in Events : Task(c, e)'
  BY <1>2, <1>3 DEF IInv, Told, TypeOK, Task, notes, accounts
<1>6. /\ owner' \in [Ids -> Users \cup {Nobody}] /\ owner'[c] # Nobody
      /\ \A d \in Ids \ {c} : owner'[d] = owner[d]
      /\ task' \in [Ids -> [Events -> Tasks]] /\ \A d \in Ids \ {c} : task'[d] = task[d]
      /\ task'[c]["SUBMITTED"] = task[c]["SUBMITTED"] /\ UNCHANGED <<stored, note, accounts>>
  BY <1>2, <1>3 DEF notes, IInv, TypeOK
<1> QED BY <1>2, <1>3, <1>4, <1>5, <1>6, IdleFacts, RowStep, RowFacts

LEMMA CommitEditStep ==
    ASSUME IInv, NEW w \in Workers, CommitEdit(w)
    PROVE  IInv'
<1>1. PICK c, k : c = job[w].id /\ k = job[w]
  OBVIOUS
<1>2. /\ At(w, "commit") /\ Reply(w) /\ k.op = "edit"
      /\ UNCHANGED <<owner, history, stored, notes, accounts>>
  BY <1>1 DEF CommitEdit
<1>3. /\ k \in Requests /\ Fits(k) /\ MayRun(w) /\ c \in Ids /\ row[c] # NoRow
      /\ job' = [job EXCEPT ![w] = Idle] /\ owner[c] # Nobody
      /\ \A v \in Workers \ {w} : Creating(job[v]) => job[v].id # c
      /\ Inserting(c)' \subseteq Inserting(c) /\ k.pc = "commit"
  BY <1>1, <1>2, Committing DEF At
<1>4. row[c] \in Rows /\ row[c].type = "REPORT"
  BY <1>1, <1>2, <1>3, RowFacts DEF Fits, IInv, TypeOK, Gone
<1>5. CASE k.arg = k.seen
  BY <1>1, <1>2, <1>5, Answered DEF CommitEdit, rows
<1>6. CASE k.arg # k.seen
  <2>1. PICK r, h : r = [row[c] EXCEPT !.text = k.arg] /\ h = history[c]
    OBVIOUS
  <2>2. /\ r \in Rows /\ r.type = "REPORT" /\ r.status = row[c].status /\ r.images = row[c].images
        /\ r.evidence = row[c].evidence
    BY <1>2, <1>3, <1>4, <2>1, JobFacts DEF Rows
  <2>3. row' = [row EXCEPT ![c] = r]
    BY <1>1, <1>4, <1>6, <2>1, RowFacts DEF CommitEdit, Exists
  <2>4. h \in Seq(Changes) /\ history' = [history EXCEPT ![c] = h] /\ Agrees(row[c], h)
    BY <1>2, <1>3, <2>1 DEF IInv, TypeOK, Changes, Recorded
  <2>5. Agrees(r, h)
    BY <1>4, <2>2, <2>4 DEF Agrees, Path
  <2>6. r.images + r.evidence + Cardinality(Inserting(c))' <= stored[c]
    <3>1. row[c].images + row[c].evidence + Cardinality(Inserting(c)) <= stored[c]
      BY <1>3, <1>4 DEF IInv, Stored
    <3>2. row[c].images \in Nat /\ row[c].evidence \in Nat /\ stored[c] \in Nat
      BY <1>3, <1>4, StoredFacts DEF IInv
    <3>3. /\ Cardinality(Inserting(c))' <= Cardinality(Inserting(c))
          /\ Cardinality(Inserting(c))' \in Nat /\ Cardinality(Inserting(c)) \in Nat
      BY <1>3, FewerInserts
    <3> QED BY <2>2, <3>1, <3>2, <3>3
  <2>7. row'[c] = r
    BY <1>3, <2>3 DEF IInv, TypeOK
  <2>8. \A e \in Events : Task(c, e)'
    <3>1. \A e \in Events : Task(c, e) /\ (Happened(c, e) => Happened(c, e)')
      BY <1>2, <1>3, <2>2, <2>7, RowFacts DEF IInv, Told, Happened, Exists
    <3> QED BY <1>2, <1>4, <3>1, RowFacts DEF Task, notes, accounts
  <2>9. /\ owner' \in [Ids -> Users \cup {Nobody}] /\ owner'[c] # Nobody
        /\ \A d \in Ids \ {c} : owner'[d] = owner[d]
        /\ task' \in [Ids -> [Events -> Tasks]] /\ \A d \in Ids \ {c} : task'[d] = task[d]
        /\ task'[c]["SUBMITTED"] = task[c]["SUBMITTED"] /\ UNCHANGED <<stored, note, accounts>>
    BY <1>2, <1>3 DEF notes, IInv, TypeOK
  <2> QED BY <1>3, <1>4, <2>2, <2>3, <2>4, <2>5, <2>6, <2>8, <2>9, IdleFacts, RowStep, RowFacts
<1> QED BY <1>5, <1>6

\* A path takes one more allowed step, to a status it has not been in.
LEMMA PathGrows ==
    ASSUME NEW r, NEW h \in Seq(Changes), Path(r, h), r.status \in Statuses,
           NEW s \in Statuses, s \in Allowed[r.status],
           NEW q, q.status = s, q.status = "RESOLVED" => q.evidence > 0
    PROVE  LET g == Append(h, [old |-> r.status, new |-> s]) IN
           /\ g \in Seq(Changes) /\ Path(q, g)
           /\ \A i \in 1..Len(h) : h[i].new # s
           /\ \A i \in 1..Len(h) : i \in 1..Len(g) /\ g[i] = h[i]
           /\ Len(g) \in 1..Len(g) /\ g[Len(g)].new = s
<1>1. PICK x : x = [old |-> r.status, new |-> s]
  OBVIOUS
<1>2. x \in Changes /\ x.old = r.status /\ x.new = s
  BY <1>1 DEF Changes
<1>3. PICK g : g = Append(h, x)
  OBVIOUS
<1>4. /\ g \in Seq(Changes) /\ Len(g) = Len(h) + 1 /\ g[Len(g)] = x /\ Len(h) \in Nat
      /\ \A i \in 1..Len(h) : g[i] = h[i]
  BY <1>2, <1>3
<1>5. /\ s \in {"IN_PROGRESS", "RESOLVED", "REJECTED"} /\ s \notin Before(r.status)
      /\ Before(r.status) \subseteq Before(s) /\ s \in Before(s)
  BY DEF Allowed, Before, Statuses
<1>6. \A i \in 1..Len(h) : h[i].new # s
  BY <1>5 DEF Path
<1>7. Len(g) > 0 /\ g[1] = [old |-> "none", new |-> "PENDING"] /\ g[Len(g)].new = q.status
  BY <1>2, <1>4 DEF Path
<1>8. ASSUME NEW i \in 2..Len(g) PROVE g[i].old = g[i - 1].new /\ g[i].new \in Allowed[g[i].old]
  <2>1. CASE i = Len(g)
    <3>1. g[i] = x /\ i - 1 = Len(h) /\ g[i - 1] = h[Len(h)]
      BY <1>4, <1>7, <2>1 DEF Path
    <3> QED BY <1>2, <3>1 DEF Path
  <2>2. CASE i # Len(g)
    <3>1. i \in 2..Len(h) /\ g[i] = h[i] /\ g[i - 1] = h[i - 1]
      BY <1>4, <2>2
    <3> QED BY <3>1 DEF Path
  <2> QED BY <2>1, <2>2
<1>9. \A i \in 1..Len(g) : g[i].new \in Before(q.status)
  <2> SUFFICES ASSUME NEW i \in 1..Len(g) PROVE g[i].new \in Before(s)
    OBVIOUS
  <2>1. CASE i = Len(g)
    BY <1>2, <1>4, <1>5, <2>1
  <2>2. CASE i # Len(g)
    <3>1. i \in 1..Len(h) /\ g[i] = h[i]
      BY <1>4, <2>2
    <3> QED BY <1>5, <3>1 DEF Path
  <2> QED BY <2>1, <2>2
<1>10. Path(q, g)
  BY <1>7, <1>8, <1>9 DEF Path
<1> QED BY <1>1, <1>2, <1>3, <1>4, <1>6, <1>10

LEMMA CommitStatusStep ==
    ASSUME IInv, NEW w \in Workers, CommitStatus(w)
    PROVE  IInv'
<1>1. PICK c, k : c = job[w].id /\ k = job[w]
  OBVIOUS
<1>2. /\ At(w, "commit") /\ Reply(w) /\ k.op = "status"
      /\ UNCHANGED <<owner, stored, note, accounts>>
  BY <1>1 DEF CommitStatus
<1>3. /\ k \in Requests /\ Fits(k) /\ MayRun(w) /\ c \in Ids /\ row[c] # NoRow
      /\ job' = [job EXCEPT ![w] = Idle] /\ owner[c] # Nobody
      /\ \A v \in Workers \ {w} : Creating(job[v]) => job[v].id # c
      /\ Inserting(c)' \subseteq Inserting(c) /\ k.pc = "commit"
  BY <1>1, <1>2, Committing DEF At
<1>4. PICK s : s = k.arg
  OBVIOUS
<1>5. /\ row[c] \in Rows /\ row[c].type = "REPORT" /\ row[c].status = k.seen /\ s \in Statuses
      /\ s \in Allowed[row[c].status]
      /\ s = "RESOLVED" => row[c].evidence > 0
  BY <1>1, <1>2, <1>3, <1>4, RowFacts, JobFacts DEF Fits, IInv, TypeOK, Gone
<1>6. PICK r, g : r = [row[c] EXCEPT !.status = s] /\ g = Append(history[c], [old |-> row[c].status, new |-> s])
  OBVIOUS
<1>7. /\ r \in Rows /\ r.type = "REPORT" /\ r.status = s /\ r.images = row[c].images
      /\ r.evidence = row[c].evidence
  BY <1>5, <1>6 DEF Rows
<1>8. /\ row' = [row EXCEPT ![c] = r] /\ history' = [history EXCEPT ![c] = g]
      /\ task' = IF Tells(s) THEN [task EXCEPT ![c][s] = "queued"] ELSE task
  BY <1>1, <1>4, <1>5, <1>6, RowFacts DEF CommitStatus, Exists
<1>9. PICK h : h = history[c]
  OBVIOUS
<1>10. h \in Seq(Changes) /\ row[c].status \in Statuses /\ Path(row[c], h)
  BY <1>3, <1>5, <1>9 DEF IInv, TypeOK, Changes, Recorded, Agrees
<1>11. /\ g \in Seq(Changes) /\ Path(r, g)
       /\ \A i \in 1..Len(h) : h[i].new # s
       /\ \A i \in 1..Len(h) : i \in 1..Len(g) /\ g[i] = h[i]
       /\ Len(g) \in 1..Len(g) /\ g[Len(g)].new = s
  <2>1. /\ s \in Allowed[row[c].status] /\ r.status = s
        /\ r.status = "RESOLVED" => r.evidence > 0
    BY <1>5, <1>7
  <2>2. g = Append(h, [old |-> row[c].status, new |-> s])
    BY <1>6, <1>9
  <2>3. LET f == Append(h, [old |-> row[c].status, new |-> s]) IN
        /\ f \in Seq(Changes) /\ Path(r, f)
        /\ \A i \in 1..Len(h) : h[i].new # s
        /\ \A i \in 1..Len(h) : i \in 1..Len(f) /\ f[i] = h[i]
        /\ Len(f) \in 1..Len(f) /\ f[Len(f)].new = s
    BY <2>1, <1>5, <1>10, PathGrows
  <2> QED BY <2>2, <2>3
<1>12. Agrees(r, g)
  BY <1>5, <1>7, <1>11 DEF Agrees
<1>13. r.images + r.evidence + Cardinality(Inserting(c))' <= stored[c]
  <2>1. row[c].images + row[c].evidence + Cardinality(Inserting(c)) <= stored[c]
    BY <1>3, <1>5 DEF IInv, Stored
  <2>2. row[c].images \in Nat /\ row[c].evidence \in Nat /\ stored[c] \in Nat
    BY <1>3, <1>5, StoredFacts DEF IInv
  <2>3. /\ Cardinality(Inserting(c))' <= Cardinality(Inserting(c))
        /\ Cardinality(Inserting(c))' \in Nat /\ Cardinality(Inserting(c)) \in Nat
    BY <1>3, FewerInserts
  <2> QED BY <1>7, <2>1, <2>2, <2>3
<1>14. row'[c] = r /\ history'[c] = g
  BY <1>3, <1>8 DEF IInv, TypeOK
<1>15. s \in Events /\ s # "SUBMITTED"
  BY <1>5, <1>10 DEF Allowed, Statuses, Events
<1>16. /\ \A e \in Events : task'[c][e] = task[c][e] \/ (e = s /\ task'[c][e] = "queued")
       /\ task' \in [Ids -> [Events -> Tasks]] /\ \A d \in Ids \ {c} : task'[d] = task[d]
  BY <1>3, <1>8, <1>15 DEF IInv, TypeOK, Tasks
<1>17. \A e \in Events : Task(c, e)'
  <2>1. \A e \in Events : Task(c, e)
    BY <1>3 DEF IInv, Told
  <2>2. \A e \in Events : Happened(c, e) => Happened(c, e)'
    BY <1>5, <1>7, <1>9, <1>11, <1>14, RowFacts DEF Happened, Exists
  <2>3. Happened(c, s)'
    BY <1>11, <1>14, <1>15 DEF Happened
  <2>4. ~Happened(c, s) /\ row[c] # Gone
    BY <1>5, <1>9, <1>11, <1>15, RowFacts DEF Happened
  <2>5. note[c][s] = 0
    BY <1>15, <2>1, <2>4 DEF Task
  <2> SUFFICES ASSUME NEW e \in Events PROVE Task(c, e)'
    OBVIOUS
  <2>6. CASE task'[c][e] = task[c][e]
    BY <1>2, <1>5, <2>1, <2>2, <2>6, RowFacts DEF Task, accounts
  <2>7. CASE e = s /\ task'[c][e] = "queued"
    BY <1>2, <2>3, <2>5, <2>7 DEF Task, accounts
  <2> QED BY <1>16, <2>6, <2>7
<1>18. task'[c]["SUBMITTED"] = task[c]["SUBMITTED"]
  BY <1>15, <1>16 DEF Events
<1>19. /\ owner' \in [Ids -> Users \cup {Nobody}] /\ owner'[c] # Nobody
       /\ \A d \in Ids \ {c} : owner'[d] = owner[d]
  BY <1>2, <1>3 DEF IInv, TypeOK
<1>20. /\ \A v \in Workers \ {w} : ~Clash(job[v], Idle) /\ ~Clash(Idle, job[v])
       /\ Idle.pc \in {"idle", "sign"} /\ Idle \notin Requests
       /\ row[c] # Gone
  BY <1>5, IdleFacts, RowFacts
<1> QED BY <1>2, <1>3, <1>5, <1>7, <1>8, <1>11, <1>12, <1>13, <1>16, <1>17, <1>18, <1>19, <1>20, RowStep

-----------------------------------------------------------------------------
(* Notifications, accounts, the process.                                   *)

\* The rows stay, and no task is forgotten that a request still counts on.
LEMMA TaskStep ==
    ASSUME IInv, UNCHANGED rows, job' \in [Workers -> {Idle} \cup Requests],
           \A v \in Workers : job'[v] = Idle \/ job'[v] = job[v],
           task' \in [Ids -> [Events -> Tasks]], note' \in [Ids -> [Events -> Nat]],
           active' \subseteq Users, closed' \subseteq Users \ active',
           \A v \in Workers : job'[v].pc = "sign" /\ job[v].id \in Ids =>
              (task[job[v].id]["SUBMITTED"] = "none" => task'[job[v].id]["SUBMITTED"] = "none"),
           Told'
    PROVE  IInv'
<1>1. UNCHANGED <<row, owner, history, stored>>
  BY DEF rows
<1>2. TypeOK'
  BY <1>1 DEF IInv, TypeOK
<1>3. AllFit'
  <2> SUFFICES ASSUME NEW v \in Workers, NEW k \in Requests, job'[v] = k PROVE Fits(k)'
    BY DEF AllFit
  <2>1. job[v] = k /\ Fits(k)
    BY IdleFacts DEF IInv, AllFit
  <2>2. k.pc = "sign" => task'[k.id]["SUBMITTED"] = "none"
    BY <2>1, JobFacts DEF Fits
  <2>3. Existing' = Existing
    BY <1>1 DEF Existing, Exists
  <2> QED BY <1>1, <2>1, <2>2, <2>3 DEF Fits, Creating
<1>4. Apart'
  BY IdleFacts DEF IInv, Apart
<1>5. Recorded'
  BY <1>1 DEF IInv, Recorded
<1>6. Stored'
  <2> SUFFICES ASSUME NEW d \in Ids, row[d] \in Rows
               PROVE  row[d].images + row[d].evidence + Cardinality(Inserting(d))' <= stored[d]
    BY <1>1 DEF Stored
  <2>1. Inserting(d)' \subseteq Inserting(d)
    BY IdleFacts DEF Inserting
  <2>2. row[d].images + row[d].evidence + Cardinality(Inserting(d)) <= stored[d]
    BY DEF IInv, Stored
  <2>3. /\ row[d].images \in Nat /\ row[d].evidence \in Nat /\ stored[d] \in Nat
    BY StoredFacts DEF IInv
  <2>4. /\ Cardinality(Inserting(d))' <= Cardinality(Inserting(d))
        /\ Cardinality(Inserting(d))' \in Nat /\ Cardinality(Inserting(d)) \in Nat
    BY <2>1, FewerInserts
  <2> QED BY <2>2, <2>3, <2>4
<1> QED BY <1>2, <1>3, <1>4, <1>5, <1>6 DEF IInv

LEMMA SameHappened ==
    ASSUME UNCHANGED rows PROVE \A c, e : Happened(c, e)' = Happened(c, e)
BY DEF rows, Happened, Exists

LEMMA SignStep ==
    ASSUME IInv, NEW w \in Workers, SignAnswer(w)
    PROVE  IInv'
<1>1. PICK c : c = job[w].id
  OBVIOUS
<1>2. At(w, "sign") /\ Reply(w) /\ UNCHANGED <<rows, note, accounts>>
  BY DEF SignAnswer
<1>3. job[w] \in Requests /\ job[w].pc = "sign" /\ Fits(job[w]) /\ c \in Ids
  BY <1>1, <1>2, Serving
<1>4. PICK t \in {"queued", "lost"} : task' = [task EXCEPT ![c]["SUBMITTED"] = t]
  BY <1>1 DEF SignAnswer
<1>5. task[c]["SUBMITTED"] = "none" /\ row[c] # NoRow
  BY <1>1, <1>3 DEF Fits, Creating
<1>6. /\ task' \in [Ids -> [Events -> Tasks]]
      /\ \A d \in Ids, e \in Events :
           task'[d][e] = IF d = c /\ e = "SUBMITTED" THEN t ELSE task[d][e]
  BY <1>3, <1>4 DEF IInv, TypeOK, Tasks, Events
<1>7. Told'
  <2> SUFFICES ASSUME NEW d \in Ids, NEW e \in Events PROVE Task(d, e)'
    BY DEF Told
  <2>1. /\ Task(d, e) /\ Happened(d, e)' = Happened(d, e)
        /\ UNCHANGED <<row, owner, note, closed>>
    BY <1>2, SameHappened DEF IInv, Told, rows, accounts
  <2>2. CASE d = c /\ e = "SUBMITTED"
    <3>1. Happened(d, e) \/ row[d] = Gone
      BY <1>5, <2>2 DEF Happened, Exists
    <3>2. note[d][e] = 0
      BY <1>5, <2>1, <2>2 DEF Task
    <3> QED BY <1>6, <2>1, <2>2, <3>1, <3>2 DEF Task
  <2>3. CASE ~(d = c /\ e = "SUBMITTED")
    BY <1>6, <2>1, <2>3 DEF Task
  <2> QED BY <2>2, <2>3
<1>8. /\ job' \in [Workers -> {Idle} \cup Requests]
      /\ \A v \in Workers : job'[v] = Idle \/ job'[v] = job[v]
      /\ \A v \in Workers : job'[v].pc = "sign" => v # w /\ job'[v] = job[v]
  BY <1>2, IdleFacts DEF Reply, IInv, TypeOK
<1>9. \A v \in Workers : job'[v].pc = "sign" => job[v].id # c
  BY <1>1, <1>3, <1>8 DEF IInv, Apart, Clash
<1>10. UNCHANGED <<note, active, closed>>
  BY <1>2 DEF accounts
<1>11. "SUBMITTED" \in Events
  BY DEF Events
<1>12. /\ note' \in [Ids -> [Events -> Nat]] /\ active' \subseteq Users /\ closed' \subseteq Users \ active'
  BY <1>10 DEF IInv, TypeOK
<1> QED BY <1>2, <1>6, <1>7, <1>8, <1>9, <1>11, <1>12, TaskStep

LEMMA BackgroundStep ==
    ASSUME IInv, NEW c \in Ids, NEW e \in Events, Background(c, e)
    PROVE  IInv'
<1>1. PICK t \in Tasks, n \in {0, 1} :
        /\ task' = [task EXCEPT ![c][e] = t] /\ note' = [note EXCEPT ![c][e] = n]
        /\ task[c][e] # "none" /\ t # "none"
        /\ n = 1 => t \in {"told", "told_late"}
        /\ owner[c] \in closed => t # "looked" /\ (t = "told" => n = 0)
  <2>1. Task(c, e)
    BY DEF IInv, Told
  <2>2. CASE Look(c, e)
    <3>1. note[c][e] = 0 /\ note' = [note EXCEPT ![c][e] = 0] /\ task[c][e] = "queued"
      BY <2>1, <2>2 DEF Look, Task, IInv, TypeOK
    <3>2. CASE owner[c] \in active
      <4>1. owner[c] \notin closed /\ task' = [task EXCEPT ![c][e] = "looked"]
        BY <2>2, <3>2 DEF Look, IInv, TypeOK
      <4> QED BY <3>1, <4>1 DEF Tasks
    <3>3. CASE owner[c] \notin active
      <4>1. task' = [task EXCEPT ![c][e] = "lost"]
        BY <2>2, <3>3 DEF Look
      <4> QED BY <3>1, <4>1 DEF Tasks
    <3> QED BY <3>2, <3>3
  <2>3. CASE Tell(c, e)
    <3>1. note[c][e] = 0 /\ task[c][e] \in {"looked", "raced"}
      BY <2>1, <2>3 DEF Tell, Task
    <3>2. /\ note' = [note EXCEPT ![c][e] = 1]
          /\ task' = [task EXCEPT ![c][e] = IF task[c][e] = "looked" THEN "told" ELSE "told_late"]
      BY <2>3, <3>1 DEF Tell
    <3> QED BY <2>1, <3>1, <3>2 DEF Tasks, Task
  <2> QED BY <2>2, <2>3 DEF Background
<1>2. UNCHANGED <<rows, accounts, job>>
  BY DEF Background, Look, Tell
<1>3. \A d \in Ids, f \in Events : /\ task'[d][f] = IF d = c /\ f = e THEN t ELSE task[d][f]
                                   /\ note'[d][f] = IF d = c /\ f = e THEN n ELSE note[d][f]
  BY <1>1 DEF IInv, TypeOK
<1>4. Told'
  <2> SUFFICES ASSUME NEW d \in Ids, NEW f \in Events PROVE Task(d, f)'
    BY DEF Told
  <2>1. Task(d, f) /\ Happened(d, f)' = Happened(d, f) /\ UNCHANGED <<row, owner, closed>>
    BY <1>2, SameHappened DEF IInv, Told, rows, accounts
  <2> QED BY <1>1, <1>3, <2>1 DEF Task
<1>5. task' \in [Ids -> [Events -> Tasks]] /\ note' \in [Ids -> [Events -> Nat]]
  BY <1>1 DEF IInv, TypeOK
<1>6. \A d \in Ids, f \in Events : task[d][f] = "none" => task'[d][f] = "none"
  BY <1>1, <1>3
<1>7. UNCHANGED <<job, active, closed>> /\ "SUBMITTED" \in Events
  BY <1>2 DEF accounts, Events
<1>8. job' \in [Workers -> {Idle} \cup Requests] /\ active' \subseteq Users /\ closed' \subseteq Users \ active'
  BY <1>7 DEF IInv, TypeOK
<1> QED BY <1>2, <1>4, <1>5, <1>6, <1>7, <1>8, TaskStep

LEMMA AccountSteps ==
    ASSUME IInv, NEW u \in Users, CloseAccount(u) \/ SetActive(u)
    PROVE  IInv'
<1>1. CASE CloseAccount(u)
  <2>1. /\ u \in active /\ active' = active \ {u} /\ closed' = closed \cup {u}
        /\ note' = [c \in Ids |-> IF owner[c] = u THEN [e \in Events |-> 0] ELSE note[c]]
        /\ task' = [c \in Ids |-> [e \in Events |->
             IF owner[c] = u /\ task[c][e] = "looked" THEN "raced" ELSE task[c][e]]]
        /\ UNCHANGED <<rows, job>>
    BY <1>1 DEF CloseAccount
  <2>2. note' \in [Ids -> [Events -> Nat]] /\ task' \in [Ids -> [Events -> Tasks]]
    <3>1. [e \in Events |-> 0] \in [Events -> Nat]
      OBVIOUS
    <3> QED BY <2>1, <3>1 DEF IInv, TypeOK, Tasks
  <2>3. Told'
    <3> SUFFICES ASSUME NEW d \in Ids, NEW f \in Events PROVE Task(d, f)'
      BY DEF Told
    <3>1. Task(d, f) /\ Happened(d, f)' = Happened(d, f) /\ UNCHANGED <<row, owner>>
      BY <2>1, SameHappened DEF IInv, Told, rows
    <3>2. /\ note'[d][f] = IF owner[d] = u THEN 0 ELSE note[d][f]
          /\ task'[d][f] = IF owner[d] = u /\ task[d][f] = "looked" THEN "raced" ELSE task[d][f]
      BY <2>1
    <3> QED BY <2>1, <3>1, <3>2 DEF Task
  <2>4. \A d \in Ids, f \in Events : task[d][f] = "none" => task'[d][f] = "none"
    BY <2>1
  <2>5. /\ UNCHANGED job /\ "SUBMITTED" \in Events /\ job' \in [Workers -> {Idle} \cup Requests]
        /\ active' \subseteq Users /\ closed' \subseteq Users \ active'
    BY <2>1 DEF Events, IInv, TypeOK
  <2> QED BY <2>1, <2>2, <2>3, <2>4, <2>5, TaskStep
<1>2. CASE SetActive(u)
  <2>1. UNCHANGED <<rows, note, task, closed, job>>
    BY <1>2 DEF SetActive, notes
  <2>2. active' \subseteq Users /\ closed' \subseteq Users \ active'
    BY <1>2 DEF SetActive, IInv, TypeOK
  <2>3. Told'
    BY <2>1, SameHappened DEF IInv, Told, Task, rows
  <2>4. /\ job' \in [Workers -> {Idle} \cup Requests]
        /\ note' \in [Ids -> [Events -> Nat]] /\ task' \in [Ids -> [Events -> Tasks]]
    BY <2>1 DEF IInv, TypeOK
  <2> QED BY <2>1, <2>2, <2>3, <2>4, TaskStep
<1> QED BY <1>1, <1>2

LEMMA RestartStep == IInv /\ Restart => IInv'
<1> SUFFICES ASSUME IInv, Restart PROVE IInv'
  OBVIOUS
<1>1. job' = [w \in Workers |-> Idle] /\ UNCHANGED <<rows, note, accounts>>
  BY DEF Restart
<1>2. PICK t \in [Ids -> [Events -> Tasks]] :
        /\ task' = t
        /\ \A d \in Ids, f \in Events :
             \/ t[d][f] = task[d][f]
             \/ t[d][f] = "lost" /\ task[d][f] \in {"queued", "looked", "raced"}
             \/ t[d][f] = "lost" /\ f = "SUBMITTED" /\ \E w \in Workers : job[w].pc = "sign" /\ job[w].id = d
  <2> DEFINE new == [c \in Ids |-> [e \in Events |->
         IF \/ task[c][e] \in {"queued", "looked", "raced"}
            \/ e = "SUBMITTED" /\ \E w \in Workers : job[w].pc = "sign" /\ job[w].id = c
         THEN "lost" ELSE task[c][e]]]
  <2>1. task' = new /\ new \in [Ids -> [Events -> Tasks]]
    BY DEF Restart, IInv, TypeOK, Tasks
  <2> QED BY <2>1
<1>3. Told'
  <2> SUFFICES ASSUME NEW d \in Ids, NEW f \in Events PROVE Task(d, f)'
    BY DEF Told
  <2>1. Task(d, f) /\ Happened(d, f)' = Happened(d, f) /\ UNCHANGED <<row, owner, note, closed>>
    BY <1>1, SameHappened DEF IInv, Told, rows, accounts
  <2>2. CASE t[d][f] = task[d][f]
    BY <1>2, <2>1, <2>2 DEF Task
  <2>3. CASE t[d][f] = "lost" /\ task[d][f] \in {"queued", "looked", "raced"}
    BY <1>2, <2>1, <2>3 DEF Task
  <2>4. CASE t[d][f] = "lost" /\ f = "SUBMITTED" /\ \E w \in Workers : job[w].pc = "sign" /\ job[w].id = d
    <3>1. PICK w \in Workers : job[w].pc = "sign" /\ job[w].id = d
      BY <2>4
    <3>2. task[d][f] = "none" /\ row[d] # NoRow
      BY <2>4, <3>1, IdleFacts DEF IInv, AllFit, TypeOK, Fits, Creating
    <3>3. Happened(d, f) \/ row[d] = Gone
      BY <2>4, <3>2 DEF Happened, Exists
    <3> QED BY <1>2, <2>1, <2>4, <3>2, <3>3 DEF Task
  <2> QED BY <1>2, <2>2, <2>3, <2>4
<1>4. /\ job' \in [Workers -> {Idle} \cup Requests]
      /\ \A v \in Workers : job'[v] = Idle
      /\ \A v \in Workers : job'[v].pc # "sign"
      /\ UNCHANGED <<note, active, closed>>
  BY <1>1, IdleFacts DEF accounts
<1>5. /\ task' \in [Ids -> [Events -> Tasks]] /\ note' \in [Ids -> [Events -> Nat]]
      /\ active' \subseteq Users /\ closed' \subseteq Users \ active'
  BY <1>2, <1>4 DEF IInv, TypeOK
<1> QED BY <1>1, <1>3, <1>4, <1>5, TaskStep

LEMMA StepInv == IInv /\ [Next]_vars => IInv'
<1> SUFFICES ASSUME IInv, [Next]_vars PROVE IInv'
  OBVIOUS
<1>1. CASE UNCHANGED vars
  <2>1. UNCHANGED <<rows, row, owner, history, stored, note, task, active, closed, job>>
    BY <1>1 DEF vars, rows, notes, accounts
  <2>2. /\ job' \in [Workers -> {Idle} \cup Requests]
        /\ task' \in [Ids -> [Events -> Tasks]] /\ note' \in [Ids -> [Events -> Nat]]
        /\ active' \subseteq Users /\ closed' \subseteq Users \ active'
    BY <2>1 DEF IInv, TypeOK
  <2>3. Told'
    BY <2>1, SameHappened DEF IInv, Told, Task
  <2> QED BY <2>1, <2>2, <2>3, TaskStep
<1>2. ASSUME NEW w \in Workers, Call(w) PROVE IInv'
  BY <1>2, CallStep
<1>3. ASSUME NEW w \in Workers, Step(w) PROVE IInv'
  BY <1>3, UploadImageStep, CommitCreateStep, SignStep, UploadEvidenceStep, CommitEvidenceStep,
     CommitStatusStep, CommitEditStep, CommitDeleteStep, ListSteps DEF Step
<1> QED BY <1>1, <1>2, <1>3, BackgroundStep, AccountSteps, RestartStep DEF Next

-----------------------------------------------------------------------------
(* The theorems.                                                           *)

\* The invariant holds of every reachable state.
THEOREM Invariance == Spec => []IInv
BY InitInv, StepInv, PTL DEF Spec

\* Type correctness.
THEOREM TypeCorrect == Spec => []TypeOK
<1>1. IInv => TypeOK
  BY DEF IInv
<1> QED BY <1>1, Invariance, PTL

\* The history of a report is a path of the allowed transitions that ends at
\* its status, and no report is resolved without stored evidence.
THEOREM HistoriesArePaths == Spec => []HistoryIsPath
<1>1. IInv => HistoryIsPath
  <2> SUFFICES ASSUME IInv, NEW c \in Ids, Exists(c)
               PROVE  LET r == row[c]  h == history[c] IN
                      /\ r.images + r.evidence <= stored[c]
                      /\ r.type = "SUGGESTION" => h = <<>> /\ r.status = "none" /\ r.evidence = 0
                      /\ r.type = "REPORT" =>
                           /\ Len(h) > 0
                           /\ h[1] = [old |-> "none", new |-> "PENDING"]
                           /\ \A i \in 2..Len(h) : h[i].old = h[i - 1].new /\ h[i].new \in Allowed[h[i].old]
                           /\ h[Len(h)].new = r.status
                           /\ r.status = "RESOLVED" => r.evidence > 0
    BY DEF HistoryIsPath
  <2>1. row[c] \in Rows /\ Agrees(row[c], history[c])
    BY RowFacts DEF IInv, Recorded
  <2>2. row[c].images + row[c].evidence <= stored[c]
    <3>1. IsFiniteSet(Inserting(c))
      BY ComplaintsAssumption, FS_Subset DEF Inserting
    <3>2. row[c].images + row[c].evidence + Cardinality(Inserting(c)) <= stored[c]
      BY <2>1 DEF IInv, Stored
    <3> QED BY <2>1, <3>1, <3>2, FS_CardinalityType, StoredFacts DEF IInv
  <2> QED BY <2>1, <2>2 DEF Agrees, Path
<1> QED BY <1>1, Invariance, PTL

\* The list of the staff adds up.
THEOREM ListsAddUp == Spec => []ListAddsUp
<1>1. IInv => ListAddsUp
  <2> SUFFICES ASSUME IInv, NEW w \in Workers, job[w].pc = "page" PROVE job[w].stats <= job[w].total
    BY DEF ListAddsUp
  <2>1. job[w] \in Requests
    BY IdleFacts DEF IInv, TypeOK
  <2> QED BY <2>1 DEF IInv, AllFit, Fits, Creating
<1> QED BY <1>1, Invariance, PTL

\* Owners are told once of each change, of none that did not happen, and a
\* closed account only by a task it overtook.
THEOREM TrueNotices == Spec => []NoticesAreTrue
<1>1. IInv => NoticesAreTrue
  BY DEF IInv, Told, Task, TypeOK, NoticesAreTrue
<1> QED BY <1>1, Invariance, PTL

Edited ==
    \A c \in Ids :
       (Exists(c) /\ row'[c] # Gone /\ row[c].text # row'[c].text) => row[c].status = "PENDING"

\* What a complaint says changes only while it is PENDING.
THEOREM EditsWhilePending == Spec => EditedWhilePending
<1>1. IInv /\ [Next]_vars => [Edited]_vars
  <2> SUFFICES ASSUME IInv, Next, NEW c \in Ids, Exists(c), row'[c] # Gone,
                      row[c].text # row'[c].text
               PROVE  row[c].status = "PENDING"
    BY DEF Edited
  <2>1. row' # row /\ row[c] \in Rows
    BY RowFacts DEF IInv
  <2>2. PICK w \in Workers : \/ CommitCreate(w) \/ CommitEvidence(w) \/ CommitStatus(w)
                             \/ CommitEdit(w) \/ CommitDelete(w)
    <3>1. ASSUME NEW w \in Workers, Call(w) PROVE row' = row
      BY <3>1 DEF Call, BeginCreate, LoadForEvidence, LoadForStatus, LoadForEdit, LoadForDelete,
         ListStats, Begin, rows
    <3>2. ASSUME NEW w \in Workers,
                 \/ UploadImage(w) \/ SignAnswer(w) \/ UploadEvidence(w) \/ ListTotal(w) \/ ListPage(w)
          PROVE row' = row
      BY <3>2 DEF UploadImage, SignAnswer, UploadEvidence, ListTotal, ListPage, rows
    <3>3. ASSUME NEW d \in Ids, NEW e \in Events, Background(d, e) PROVE row' = row
      BY <3>3 DEF Background, Look, Tell, rows
    <3>4. ASSUME NEW u \in Users, CloseAccount(u) \/ SetActive(u) PROVE row' = row
      BY <3>4 DEF CloseAccount, SetActive, rows
    <3>5. Restart => row' = row
      BY DEF Restart, rows
    <3> QED BY <2>1, <3>1, <3>2, <3>3, <3>4, <3>5 DEF Next, Step
  <2>3. PICK k, d : k = job[w] /\ d = job[w].id
    OBVIOUS
  <2>4. /\ k \in Requests /\ Fits(k) /\ d \in Ids
    BY <2>2, <2>3, Serving DEF CommitCreate, CommitEvidence, CommitStatus, CommitEdit, CommitDelete
  <2>5. \E r : row' = [row EXCEPT ![d] = r]
    BY <2>1, <2>2, <2>3 DEF CommitCreate, CommitEvidence, CommitStatus, CommitEdit, CommitDelete
  <2>6. d = c
    BY <2>4, <2>5 DEF IInv, TypeOK
  <2>7. CASE CommitCreate(w)
    BY <2>3, <2>4, <2>6, <2>7 DEF CommitCreate, At, Fits, Creating, Exists
  <2>8. CASE CommitEvidence(w)
    BY <2>1, <2>3, <2>6, <2>8 DEF CommitEvidence, IInv, TypeOK, Rows
  <2>9. CASE CommitStatus(w)
    BY <2>1, <2>3, <2>6, <2>9 DEF CommitStatus, IInv, TypeOK, Rows
  <2>10. CASE CommitEdit(w)
    BY <2>3, <2>4, <2>6, <2>10 DEF CommitEdit, At, Fits
  <2>11. CASE CommitDelete(w)
    BY <2>3, <2>6, <2>11 DEF CommitDelete, IInv, TypeOK
  <2> QED BY <2>2, <2>7, <2>8, <2>9, <2>10, <2>11
<1> QED BY <1>1, Invariance, PTL DEF Spec, EditedWhilePending, Edited
=============================================================================
