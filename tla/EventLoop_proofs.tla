-------------------------- MODULE EventLoop_proofs --------------------------
(***************************************************************************)
(* For any requests, sockets and size of the pool: EventLoop is type       *)
(* correct and never exceeds its pool, the loop waits for a lock only in   *)
(* the ways that FreezesOnlyOnConflict names, and a frozen loop stays so.  *)
(***************************************************************************)
EXTENDS EventLoop, FiniteSetTheorems, TLAPS

Sent == [pc : Stages, op : Ops, user : Users, name : Names \cup {Nobody}, files : BOOLEAN]

\* What a step may do to the requests: move one that was sent to a stage.
Moves(j, pc) ==
    /\ req[j] \in Sent
    /\ req' \in [Jobs -> {NotSent} \cup Sent]
    /\ req'[j] \in Sent
    /\ req'[j].pc = pc
    /\ req'[j].op = req[j].op
    /\ req'[j].user = req[j].user
    /\ req'[j].name = req[j].name
    /\ req'[j].files = req[j].files
    /\ \A k \in Jobs \ {j} : req'[k] = req[k]

LEMMA GotoMoves ==
    ASSUME req \in [Jobs -> {NotSent} \cup Sent], NEW j \in Jobs, NEW pc \in Stages,
           req[j].pc \in Stages, Goto(j, pc)
    PROVE  Moves(j, pc)
<1>1. req[j] \in Sent
  BY DEF Sent, Stages, NotSent
<1>2. [req[j] EXCEPT !.pc = pc] \in Sent
  BY <1>1 DEF Sent
<1>3. req' = [req EXCEPT ![j] = [req[j] EXCEPT !.pc = pc]]
  BY DEF Goto
<1>4. /\ req'[j] = [req[j] EXCEPT !.pc = pc]
      /\ \A k \in Jobs \ {j} : req'[k] = req[k]
      /\ req' \in [Jobs -> {NotSent} \cup Sent]
  BY <1>2, <1>3
<1> QED BY <1>1, <1>2, <1>4 DEF Moves, Sent

-----------------------------------------------------------------------------
(* The pool.                                                               *)

Pooled ==
    /\ holding \subseteq Jobs \cup Sockets
    /\ IsFiniteSet(holding)
    /\ Cardinality(holding) <= Pool

LEMMA Taken ==
    ASSUME Pooled, NEW x \in Jobs \cup Sockets, Cardinality(holding) < Pool,
           holding' = holding \cup {x}
    PROVE  Pooled'
<1>1. /\ IsFiniteSet(holding')
      /\ Cardinality(holding') \in {Cardinality(holding), Cardinality(holding) + 1}
  BY FS_AddElement DEF Pooled
<1>2. Cardinality(holding) \in Nat
  BY FS_CardinalityType DEF Pooled
<1> QED BY <1>1, <1>2, LoopAssumption DEF Pooled

LEMMA TakenRoom ==
    ASSUME Pooled, NEW x \in Jobs, HasRoom(x), holding' = holding \cup {x}
    PROVE  Pooled'
BY FS_AddElement DEF Pooled, HasRoom

LEMMA GivenBack ==
    ASSUME Pooled, NEW x, holding' = holding \ {x}
    PROVE  Pooled'
<1>1. /\ IsFiniteSet(holding')
      /\ Cardinality(holding') \in {Cardinality(holding), Cardinality(holding) - 1}
  BY FS_RemoveElement DEF Pooled
<1>2. Cardinality(holding) \in Nat
  BY FS_CardinalityType DEF Pooled
<1> QED BY <1>1, <1>2, LoopAssumption DEF Pooled

-----------------------------------------------------------------------------
(* The invariant.                                                          *)

\* The fields of a request fit together, only one with files awaits the store,
\* and only the request on the loop is in its synchronous part.
Shape(j) ==
    req[j] # NotSent =>
        /\ req[j].name \in Names <=> req[j].op \in Naming
        /\ req[j].files => req[j].op # "sync"
        /\ req[j].pc \in {"reread", "reply"} => loop = j /\ req[j].op # "sync"
        /\ req[j].pc \in {"await", "awaited", "failed"} => req[j].files
        /\ req[j].pc \in {"query", "flush"} => loop = j /\ req[j].op # "sync"
        /\ req[j].pc = "commit" => loop = j \/ req[j].op = "sync"

IInv == 
    /\ req \in [Jobs -> {NotSent} \cup Sent]
    /\ loop \in Jobs \cup {Nobody}
    /\ names \subseteq Names /\ club \in BOOLEAN
    /\ Pooled
    /\ \A j \in Jobs : Shape(j)
    /\ loop # Nobody => /\ req[loop].pc \in {"query", "flush", "commit", "reread", "reply"}
                       /\ req[loop].op # "sync"

LEMMA InitInv == Init => IInv
<1> SUFFICES ASSUME Init PROVE IInv
  OBVIOUS
<1>1. Pooled
  BY LoopAssumption, FS_EmptySet DEF Init, Pooled
<1> QED BY <1>1, LoopAssumption DEF Init, IInv, Shape, NotSent

\* A request that is answered and leaves the loop, if it was on it.
LEMMA DoneInv ==
    ASSUME IInv, NEW j \in Jobs, req[j].pc \in Stages, Done(j),
           \/ loop = j /\ loop' = Nobody
           \/ loop # j /\ UNCHANGED loop,
           names' \subseteq Names, club' \in BOOLEAN
    PROVE  IInv'
<1>1. Moves(j, "done")
  BY GotoMoves DEF IInv, Done, Stages
<1>2. Pooled'
  BY GivenBack DEF IInv, Done
<1>3. \A k \in Jobs : Shape(k)'
  BY <1>1, LoopAssumption DEF IInv, Shape, Moves, Sent, NotSent
<1> QED BY <1>1, <1>2, <1>3 DEF IInv, Moves

\* A request that goes to another stage.
LEMMA MoveInv ==
    ASSUME IInv, NEW j \in Jobs, NEW pc \in Stages, req[j].pc \in Stages, Goto(j, pc),
           Pooled', names' \subseteq Names, club' \in BOOLEAN,
           pc \in {"await", "awaited", "failed"} => req[j].files,
           \/ /\ pc \in {"query", "flush", "commit", "reread", "reply"}
              /\ loop \in {j, Nobody} /\ loop' = j /\ req[j].op # "sync"
           \/ /\ pc \in {"auth", "ready", "await", "awaited", "failed"}
              /\ loop = j /\ loop' = Nobody
           \/ /\ pc \in {"auth", "ready", "await", "awaited", "failed"}
              /\ loop # j /\ UNCHANGED loop
           \/ pc = "commit" /\ req[j].op = "sync" /\ UNCHANGED loop
    PROVE  IInv'
<1>1. Moves(j, pc)
  BY GotoMoves DEF IInv
<1>2. \A k \in Jobs : Shape(k)'
  BY <1>1, LoopAssumption DEF IInv, Shape, Moves, Sent, NotSent
<1> QED BY <1>1, <1>2, LoopAssumption DEF IInv, Moves

LEMMA StepInv == IInv /\ [Next]_vars => IInv'
<1> SUFFICES ASSUME IInv, [Next]_vars PROVE IInv'
  OBVIOUS
<1> USE DEF Stages
<1>1. ASSUME NEW j \in Jobs, Send(j) PROVE IInv'
  <2>1. PICK r \in Requests : req' = [req EXCEPT ![j] = r]
    BY <1>1 DEF Send
  <2>2. r \in Sent /\ r.pc \in {"auth", "ready"}
    BY <2>1 DEF Requests, Sent
  <2>6. /\ r.name \in Names <=> r.op \in Naming
        /\ r.files => r.op # "sync"
    BY <2>1 DEF Requests
  <2>3. Pooled'
    BY <1>1 DEF Send, IInv, Pooled
  <2>4. loop # j
    BY <1>1, LoopAssumption DEF IInv, Send, NotSent
  <2>5. \A k \in Jobs : Shape(k)'
    BY <1>1, <2>1, <2>2, <2>6 DEF Send, IInv, Shape
  <2> QED BY <1>1, <2>1, <2>2, <2>3, <2>4, <2>5 DEF Send, IInv
<1>2. ASSUME NEW j \in Jobs, Authenticate(j) PROVE IInv'
  <2>0. loop # j
    BY <1>2, LoopAssumption DEF IInv, Authenticate
  <2>1. CASE Goto(j, "ready") /\ UNCHANGED holding
    <3>1. Pooled'
      BY <2>1 DEF IInv, Pooled
    <3> QED BY <1>2, <2>0, <2>1, <3>1, MoveInv DEF Authenticate, IInv
  <2>2. CASE Cardinality(holding) < Pool /\ Goto(j, "ready") /\ holding' = holding \cup {j}
    <3>1. Pooled'
      BY <2>2, Taken DEF IInv
    <3> QED BY <1>2, <2>0, <2>2, <3>1, MoveInv DEF Authenticate, IInv
  <2>3. CASE Done(j)
    BY <1>2, <2>0, <2>3, DoneInv DEF Authenticate, IInv
  <2> QED BY <1>2, <2>1, <2>2, <2>3 DEF Authenticate
<1>3. ASSUME NEW j \in Jobs, ServeInThread(j) PROVE IInv'
  <2>0. loop # j
    BY <1>3, LoopAssumption DEF IInv, ServeInThread
  <2>1. CASE Cardinality(holding \cup {j}) <= Pool /\ Goto(j, "commit") /\ holding' = holding \cup {j}
    <3>1. Pooled'
      BY <2>1, TakenRoom DEF IInv, HasRoom
    <3> QED BY <1>3, <2>1, <3>1, MoveInv DEF ServeInThread, IInv
  <2>2. CASE Done(j)
    BY <1>3, <2>0, <2>2, DoneInv DEF ServeInThread, IInv
  <2> QED BY <1>3, <2>1, <2>2 DEF ServeInThread
<1>4. ASSUME NEW j \in Jobs, AnswerFromThread(j) PROVE IInv'
  <2>0. loop # j
    BY <1>4, LoopAssumption DEF IInv, AnswerFromThread
  <2> QED BY <1>4, <2>0, DoneInv DEF AnswerFromThread, IInv
<1>5. ASSUME NEW j \in Jobs, Start(j) PROVE IInv'
  <2>1. Pooled'
    BY <1>5 DEF Start, IInv, Pooled
  <2> QED BY <1>5, <2>1, MoveInv DEF Start, IInv
<1>6. ASSUME NEW j \in Jobs, Query(j) PROVE IInv'
  <2>0. loop = j /\ req[j].pc = "query" /\ req[j].op # "sync" /\ j # Nobody
    BY <1>6, LoopAssumption DEF Query, OnLoop, IInv
  <2>1. CASE Refused(req[j])
    BY <1>6, <2>0, <2>1, DoneInv DEF Query, IInv
  <2>2. CASE ~Refused(req[j])
    <3>1. Pooled'
      BY <1>6, <2>2, TakenRoom DEF Query, IInv
    <3>2. CASE req[j].files /\ ~FlushesFirst(req[j])
      <4>1. Goto(j, "await") /\ loop' = Nobody /\ UNCHANGED <<names, club>>
        BY <1>6, <2>2, <3>2 DEF Query
      <4> QED BY <2>0, <3>1, <3>2, <4>1, MoveInv DEF IInv
    <3>3. CASE ~(req[j].files /\ ~FlushesFirst(req[j]))
      <4>1. Goto(j, "flush") /\ UNCHANGED <<loop, names, club>>
        BY <1>6, <2>2, <3>3 DEF Query
      <4> QED BY <2>0, <3>1, <3>3, <4>1, MoveInv DEF IInv
    <3> QED BY <3>2, <3>3
  <2> QED BY <2>1, <2>2
<1>7. ASSUME NEW j \in Jobs, PoolTimeout(j) PROVE IInv'
  BY <1>7, DoneInv DEF PoolTimeout, OnLoop, IInv
<1>8. ASSUME NEW j \in Jobs, Flush(j) PROVE IInv'
  <2>0. loop = j /\ req[j].pc = "flush" /\ req[j].op # "sync" /\ j # Nobody
    BY <1>8, LoopAssumption DEF Flush, OnLoop, IInv
  <2>1. Pooled'
    BY <1>8 DEF Flush, IInv, Pooled
  <2>2. CASE req[j].files /\ FlushesFirst(req[j])
    <3>1. Goto(j, "await") /\ loop' = Nobody /\ UNCHANGED <<names, club>>
      BY <1>8, <2>2 DEF Flush
    <3> QED BY <2>0, <2>1, <2>2, <3>1, MoveInv DEF IInv
  <2>3. CASE ~(req[j].files /\ FlushesFirst(req[j]))
    <3>1. Goto(j, "commit") /\ UNCHANGED <<loop, names, club>>
      BY <1>8, <2>3 DEF Flush
    <3> QED BY <2>0, <2>1, <3>1, MoveInv DEF IInv
  <2> QED BY <2>2, <2>3
<1>9. ASSUME NEW j \in Jobs, StoreAnswers(j) PROVE IInv'
  <2>1. Pooled'
    BY <1>9 DEF StoreAnswers, IInv, Pooled
  <2>2. PICK pc \in {"awaited", "failed"} : Goto(j, pc)
    BY <1>9 DEF StoreAnswers
  <2>3. loop # j /\ req[j].files
    BY <1>9, LoopAssumption DEF StoreAnswers, IInv, Shape, NotSent
  <2> QED BY <1>9, <2>1, <2>2, <2>3, MoveInv DEF StoreAnswers, IInv
<1>10. ASSUME NEW j \in Jobs, Resume(j) PROVE IInv'
  <2>0. loop = Nobody /\ req[j].pc \in {"awaited", "failed"} /\ j # Nobody /\ req[j].op # "sync"
    BY <1>10, LoopAssumption DEF Resume, MayResume, IInv, Shape, NotSent
  <2>1. CASE req[j].pc = "failed"
    BY <1>10, <2>0, <2>1, DoneInv DEF Resume, IInv
  <2>2. CASE req[j].pc # "failed"
    <3>1. Pooled'
      BY <1>10, <2>2 DEF Resume, IInv, Pooled
    <3>2. PICK pc \in {"commit", "flush"} : Goto(j, pc)
      BY <1>10, <2>2 DEF Resume
    <3> QED BY <1>10, <2>0, <2>2, <3>1, <3>2, MoveInv DEF Resume, IInv
  <2> QED BY <2>1, <2>2
<1>11. ASSUME NEW j \in Jobs, Commit(j) PROVE IInv'
  <2>0. loop = j /\ req[j].pc = "commit" /\ req[j].op # "sync" /\ req[j] \in Sent
    BY <1>11, LoopAssumption DEF Commit, OnLoop, IInv, NotSent
  <2>1. names' \subseteq Names
    BY <1>11, <2>0 DEF Commit, IInv, Shape, NotSent
  <2>2. club' \in BOOLEAN
    BY <1>11 DEF Commit, IInv
  <2>3. CASE Done(j) /\ loop' = Nobody
    BY <2>0, <2>1, <2>2, <2>3, DoneInv DEF IInv
  <2>4. CASE Goto(j, "reread") /\ holding' = holding \ {j} /\ UNCHANGED loop
    <3>1. Pooled'
      BY <2>4, GivenBack DEF IInv
    <3> QED BY <2>0, <2>1, <2>2, <2>4, <3>1, MoveInv
  <2> QED BY <1>11, <2>3, <2>4 DEF Commit
<1>15. ASSUME NEW j \in Jobs, Reread(j) PROVE IInv'
  <2>1. loop = j /\ req[j].pc = "reread" /\ req[j].op # "sync"
    BY <1>15, LoopAssumption DEF Reread, OnLoop, IInv
  <2>2. Pooled'
    BY <1>15, TakenRoom DEF Reread, IInv
  <2> QED BY <1>15, <2>1, <2>2, MoveInv DEF Reread, IInv
<1>16. ASSUME NEW j \in Jobs, Reply(j) PROVE IInv'
  BY <1>16, DoneInv DEF Reply, OnLoop, IInv
<1>12. ASSUME NEW s \in Sockets, OpenSocket(s) PROVE IInv'
  <2>1. Pooled'
    BY <1>12, Taken DEF OpenSocket, IInv
  <2> QED BY <1>12, <2>1 DEF OpenSocket, IInv, Shape
<1>13. ASSUME NEW s \in Sockets, CloseSocket(s) PROVE IInv'
  <2>1. Pooled'
    BY <1>13, GivenBack DEF CloseSocket, IInv
  <2> QED BY <1>13, <2>1 DEF CloseSocket, IInv, Shape
<1>14. CASE UNCHANGED vars
  BY <1>14 DEF vars, IInv, Shape, Pooled
<1> QED BY <1>1, <1>2, <1>3, <1>4, <1>5, <1>6, <1>7, <1>8, <1>9, <1>10, <1>11, <1>12,
           <1>13, <1>14, <1>15, <1>16 DEF Next, Serve

\* The invariant holds in every state.
LEMMA Invariant == Spec => []IInv
BY InitInv, StepInv, PTL DEF Spec

-----------------------------------------------------------------------------
(* The theorems.                                                           *)

\* Type correctness: no request and no socket ever holds a connection beyond
\* the size of the pool, whoever fails or times out.
THEOREM TypeCorrect == Spec => []TypeOK
<1>1. IInv => TypeOK
  BY DEF IInv, TypeOK, Pooled, Sent
<1> QED BY <1>1, Invariant, PTL

\* Whatever is in flight, the request on the loop waits for a lock only of a
\* request with files that flushed before its upload: one that creates a club
\* of that name, a post in a club that is changed, or anything by an account
\* that is closed or linked anew.
LEMMA Conflicts == IInv => FreezesOnlyOnConflict
<1> SUFFICES ASSUME IInv, NEW v \in Jobs, WaitsFor(v)
             PROVE  /\ req[v].files
                    /\ LET j == req[loop] IN
                       \/ req[v].op = "create_club" /\ j.op \in Naming /\ j.name = req[v].name
                       \/ req[v].op = "create_post" /\ j.op \in {"update_club", "delete_club"}
                       \/ req[v].op \in Creating /\ j.op \in {"close", "link_login"}
                          /\ j.user = req[v].user
  BY DEF FreezesOnlyOnConflict
<1>1. PICK x \in Wants(req[loop]), y \in Holds(v) : x[1] = y[1] /\ "own" \in {x[2], y[2]}
  BY DEF WaitsFor, Conflict
<1>2. /\ loop \in Jobs /\ loop # v /\ req[loop] \in Sent /\ req[loop].op # "sync"
      /\ Shape(loop) /\ req[loop] # NotSent
  BY DEF IInv, WaitsFor, NotSent
<1>3. y \in Wants(req[v]) /\ req[v] \in Sent /\ Shape(v) /\ req[v] # NotSent
  BY <1>1 DEF IInv, Holds, NotSent
<1>4. req[v].op # "sync"
  BY <1>3 DEF Wants
<1>5. req[v].pc \in {"await", "awaited", "failed"} /\ FlushesFirst(req[v]) /\ req[v].files
  BY <1>1, <1>2, <1>3, <1>4 DEF Holds, Shape
<1>9. req[loop].op \in {"close", "link_login"} => x[1] = req[loop].user
  BY <1>1 DEF Wants
<1>6. CASE req[v].op = "create_complaint"
  <2>1. y = <<req[v].user, "share">>
    BY <1>3, <1>6 DEF Wants
  <2>2. x[2] = "own" /\ x[1] = req[v].user
    BY <1>1, <2>1
  <2>3. req[loop].op \in {"close", "link_login"}
    BY <1>1, <1>2, <1>3, <2>2, LoopAssumption DEF Wants, Sent, Ops, Shape, Naming
  <2> QED BY <1>5, <1>6, <1>9, <2>2, <2>3 DEF Creating
<1>7. CASE req[v].op = "create_club"
  <2>0. req[v].name \in Names
    BY <1>3, <1>7 DEF Shape, Naming
  <2>1. CASE y = <<req[v].user, "share">>
    <3>2. x[2] = "own" /\ x[1] = req[v].user
      BY <1>1, <2>1
    <3>3. req[loop].op \in {"close", "link_login"}
      BY <1>1, <1>2, <1>3, <3>2, LoopAssumption DEF Wants, Sent, Ops, Shape, Naming
    <3> QED BY <1>5, <1>7, <1>9, <3>2, <3>3 DEF Creating
  <2>2. CASE y = <<req[v].name, "own">>
    <3>1. x[1] \in Names /\ x[1] = req[v].name
      BY <1>1, <2>0, <2>2
    <3>2. req[loop].op \in Naming /\ x[1] = req[loop].name
      BY <1>1, <1>2, <3>1, LoopAssumption DEF Wants, Sent, Ops, Naming
    <3> QED BY <1>5, <1>7, <3>1, <3>2
  <2> QED BY <1>3, <1>7, <2>1, <2>2 DEF Wants
<1>8. CASE req[v].op = "create_post"
  <2>1. x[2] = "own" /\ (x[1] = req[v].user \/ x[1] = "club")
    BY <1>1, <1>3, <1>8 DEF Wants
  <2>2. CASE x[1] = "club"
    BY <1>1, <1>2, <1>5, <1>8, <2>1, <2>2, LoopAssumption DEF Wants, Sent, Ops, Shape, Naming
  <2>3. CASE x[1] = req[v].user
    <3>1. req[loop].op \in {"close", "link_login"}
      BY <1>1, <1>2, <1>3, <2>1, <2>3, LoopAssumption DEF Wants, Sent, Ops, Shape, Naming
    <3> QED BY <1>5, <1>8, <1>9, <2>3, <3>1 DEF Creating
  <2> QED BY <2>1, <2>2, <2>3
<1> QED BY <1>5, <1>6, <1>7, <1>8 DEF FlushesFirst, Creating

THEOREM OnlyKnownFreezes == Spec => []FreezesOnlyOnConflict
BY Conflicts, Invariant, PTL

\* A frozen loop stays frozen: the request on it gets on only when the lock is
\* given up, and the one that holds the lock only when the loop is free.
LEMMA StaysFrozen == IInv /\ [Next]_vars => (Frozen => Frozen')
<1> SUFFICES ASSUME IInv, [Next]_vars, NEW v \in Jobs, WaitsFor(v),
                    req[v].pc \in {"await", "awaited", "failed"}
             PROVE  WaitsFor(v)' /\ (req[v].pc \in {"await", "awaited", "failed"})'
  BY DEF Frozen
<1>1. /\ loop \in Jobs /\ loop # v /\ loop # Nobody
      /\ req[loop] \in Sent /\ req[loop].pc = "flush"
      /\ req[v] \in Sent
  BY LoopAssumption DEF WaitsFor, IInv, NotSent
\* It is enough that the two stay where they are.
<1>2. ASSUME UNCHANGED loop, req'[loop] = req[loop],
             /\ req'[v].pc \in {"await", "awaited", "failed"}
             /\ req'[v].op = req[v].op /\ req'[v].user = req[v].user /\ req'[v].name = req[v].name
      PROVE  WaitsFor(v)' /\ (req[v].pc \in {"await", "awaited", "failed"})'
  <2>1. FlushesFirst(req'[v]) <=> FlushesFirst(req[v])
    BY <1>2 DEF FlushesFirst
  <2>2. Wants(req'[v]) = Wants(req[v])
    BY <1>2 DEF Wants
  <2>3. Holds(v)' = Holds(v)
    BY <1>2, <2>1, <2>2 DEF Holds
  <2> QED BY <1>2, <2>3 DEF WaitsFor
<1>3. ASSUME NEW j \in Jobs \ {loop, v}, UNCHANGED loop,
             \A k \in Jobs \ {j} : req'[k] = req[k]
      PROVE  WaitsFor(v)' /\ (req[v].pc \in {"await", "awaited", "failed"})'
  BY <1>1, <1>2, <1>3
<1>4. ASSUME NEW j \in Jobs, Send(j)
      PROVE  WaitsFor(v)' /\ (req[v].pc \in {"await", "awaited", "failed"})'
  <2>1. j \notin {loop, v}
    BY <1>1, <1>4 DEF Send, Sent, NotSent, Stages
  <2> QED BY <1>3, <1>4, <2>1 DEF Send, IInv
<1>5. ASSUME NEW j \in Jobs, Authenticate(j) \/ ServeInThread(j) \/ AnswerFromThread(j)
      PROVE  WaitsFor(v)' /\ (req[v].pc \in {"await", "awaited", "failed"})'
  <2>1. j \notin {loop, v} /\ UNCHANGED loop
    BY <1>1, <1>5 DEF Authenticate, ServeInThread, AnswerFromThread
  <2>2. \A k \in Jobs \ {j} : req'[k] = req[k]
    BY <1>5 DEF Authenticate, ServeInThread, AnswerFromThread, Goto, Done, IInv
  <2> QED BY <1>3, <2>1, <2>2
<1>6. ASSUME NEW j \in Jobs, StoreAnswers(j)
      PROVE  WaitsFor(v)' /\ (req[v].pc \in {"await", "awaited", "failed"})'
  <2>1. PICK pc \in {"awaited", "failed"} : Goto(j, pc)
    BY <1>6 DEF StoreAnswers
  <2>2. Moves(j, pc)
    BY <1>6, <2>1, GotoMoves DEF StoreAnswers, IInv, Stages
  <2>3. j # loop /\ UNCHANGED loop
    BY <1>1, <1>6 DEF StoreAnswers
  <2>4. CASE j = v
    BY <1>1, <1>2, <2>2, <2>3, <2>4 DEF Moves
  <2>5. CASE j # v
    BY <1>3, <2>2, <2>3, <2>5 DEF Moves
  <2> QED BY <2>4, <2>5
\* Everything else needs the loop or the lock.
<1>7. ASSUME NEW j \in Jobs
      PROVE  ~(Start(j) \/ Query(j) \/ PoolTimeout(j) \/ Flush(j) \/ Resume(j)
               \/ Commit(j) \/ Reread(j) \/ Reply(j))
  BY <1>1 DEF Start, Query, PoolTimeout, Flush, Resume, MayResume, Commit, Reread, Reply, OnLoop
<1>8. ASSUME NEW s \in Sockets, OpenSocket(s) \/ CloseSocket(s)
      PROVE  WaitsFor(v)' /\ (req[v].pc \in {"await", "awaited", "failed"})'
  BY <1>1, <1>2, <1>8 DEF OpenSocket, CloseSocket
<1>9. CASE UNCHANGED vars
  BY <1>2, <1>9 DEF vars
<1> QED BY <1>4, <1>5, <1>6, <1>7, <1>8, <1>9 DEF Next, Serve

THEOREM NothingThaws == Spec => FrozenForGood
<1>1. IInv /\ [Next]_vars => [Frozen => Frozen']_vars
  BY StaysFrozen
<1> QED BY <1>1, Invariant, PTL DEF Spec, FrozenForGood
=============================================================================
