----------------------------- MODULE EventLoop -----------------------------
(***************************************************************************)
(* One process of the API: one event loop, a pool of database connections, *)
(* and the row locks of PostgreSQL.                                        *)
(*                                                                         *)
(* Async handlers use the blocking SQLAlchemy session on the event loop.   *)
(* While a query waits, for a connection of the pool or for a row lock,    *)
(* nothing else runs on the loop.  Three handlers flush an INSERT and then *)
(* await the object store, holding what the INSERT locked; the others      *)
(* write only in the COMMIT, after their last await.  A COMMIT gives the    *)
(* connection back, and whoever reads its rows again needs another.        *)
(*                                                                         *)
(* A lock is a resource and a mode: "share" for the rows a foreign key     *)
(* refers to (FOR KEY SHARE), "own" for a row that is deleted or whose     *)
(* unique columns change, and for a name in a unique index.                *)
(*                                                                         *)
(* Handlers that are not async run in threads and do not await with locks  *)
(* held; here they are "sync" requests, which only need a connection.  A   *)
(* WebSocket keeps the connection its authentication took until it closes. *)
(***************************************************************************)
EXTENDS Naturals, FiniteSets

CONSTANTS
    Jobs,     \* requests, each served once
    Nobody,
    Users,
    Names,    \* names that a club may be given
    Sockets,  \* open or closed chat connections
    Pool      \* pool_size + max_overflow

ASSUME LoopAssumption ==
    /\ Nobody \notin Jobs \cup Names
    /\ Pool \in Nat \ {0}
    /\ Names \cap Users = {} /\ "club" \notin Names \cup Users \* what a lock names

VARIABLES
    req,     \* req[j]: what j asks for and how far it is
    loop,    \* the request that runs on the event loop
    holding, \* the requests and sockets that hold a connection
    names,   \* the names of committed clubs
    club     \* the club that is posted to, renamed and deleted is there

vars == <<req, loop, holding, names, club>>

Ops == {"create_club", "create_post", "create_complaint", "update_club", "delete_club",
        "close", "login", "link_login", "sync"}

Naming == {"create_club", "update_club"}
Creating == {"create_club", "create_post", "create_complaint"}

\* A login needs no token.  It is a "link_login" when the email or the subject
\* of the provider is not the one that the account has stored.
Logins == {"login", "link_login"}

Requests ==
    {r \in [pc : {"auth", "ready"}, op : Ops, user : Users, name : Names \cup {Nobody},
            files : BOOLEAN] :
        /\ r.pc = "ready" <=> r.op \in Logins
        /\ r.name \in Names <=> r.op \in Naming
        /\ r.files => r.op \notin Logins \cup {"sync"}}
NotSent == [pc |-> "not_sent"]

Init ==
    /\ req = [j \in Jobs |-> NotSent]
    /\ loop = Nobody
    /\ holding = {}
    /\ names = {}
    /\ club = TRUE

-----------------------------------------------------------------------------
(* Locks.                                                                  *)

\* What the statements of a request lock: a post refers to the club and to
\* its author, a session to its account; closing an account changes the unique
\* email, and so does linking one to what its provider says now.
Wants(r) ==
    CASE r.op = "create_club"      -> {<<r.name, "own">>, <<r.user, "share">>}
      [] r.op = "create_post"      -> {<<"club", "share">>, <<r.user, "share">>}
      [] r.op = "create_complaint" -> {<<r.user, "share">>}
      [] r.op = "update_club"      -> {<<r.name, "own">>, <<"club", "own">>}
      [] r.op = "delete_club"      -> {<<"club", "own">>}
      [] r.op = "close"            -> {<<r.user, "own">>}
      [] r.op = "login"            -> {<<r.user, "share">>}
      [] r.op = "link_login"       -> {<<r.user, "own">>}
      [] r.op = "sync"             -> {}

Conflict(a, b) == \E x \in a, y \in b : x[1] = y[1] /\ "own" \in {x[2], y[2]}

\* Faulty variant: closing an account writes before it removes the objects.
FlushesFirst_Close(r) == r.op \in Creating \cup {"close"}

\* The flush comes before the uploads, not with the COMMIT after them.
FlushesFirst(r) == r.op \in Creating

Holds(j) ==
    IF \/ req[j].pc \in {"await", "awaited", "failed"} /\ FlushesFirst(req[j])
       \/ req[j].pc = "commit"
    THEN Wants(req[j]) ELSE {}

\* The request on the loop waits for what request v holds.
WaitsFor(v) ==
    /\ loop # Nobody
    /\ v # loop
    /\ req[loop].pc = "flush"
    /\ Conflict(Wants(req[loop]), Holds(v))

-----------------------------------------------------------------------------
(* The stages of a request.                                                *)

Goto(j, pc) == req' = [req EXCEPT ![j].pc = pc]
OnLoop(j, pc) == loop = j /\ req[j].pc = pc

\* The response is sent and the session closed.
Done(j) ==
    /\ Goto(j, "done")
    /\ holding' = holding \ {j}

Send(j) ==
    /\ req[j] = NotSent
    /\ \E r \in Requests : req' = [req EXCEPT ![j] = r]
    /\ UNCHANGED <<loop, holding, names, club>>

\* get_current_user runs in a thread.  With the account in the cache it needs
\* no connection; else it waits for one, for pool_timeout at most.
Authenticate(j) ==
    /\ req[j].pc = "auth"
    /\ \/ Goto(j, "ready") /\ UNCHANGED holding
       \/ /\ Cardinality(holding) < Pool
          /\ Goto(j, "ready")
          /\ holding' = holding \cup {j}
       \/ /\ Cardinality(holding) = Pool
          /\ Done(j)
    /\ UNCHANGED <<loop, names, club>>

\* A handler that is not async does its work in a thread.
ServeInThread(j) ==
    /\ req[j].pc = "ready"
    /\ req[j].op = "sync"
    /\ \/ Cardinality(holding \cup {j}) <= Pool /\ Goto(j, "commit") /\ holding' = holding \cup {j}
       \/ Cardinality(holding \cup {j}) > Pool /\ Done(j)
    /\ UNCHANGED <<loop, names, club>>

AnswerFromThread(j) ==
    /\ req[j].pc = "commit"
    /\ req[j].op = "sync"
    /\ Done(j)
    /\ UNCHANGED <<loop, names, club>>

Start(j) ==
    /\ loop = Nobody
    /\ req[j].pc = "ready"
    /\ req[j].op # "sync"
    /\ loop' = j
    /\ Goto(j, "query")
    /\ UNCHANGED <<holding, names, club>>

\* A club or a name that is gone or taken ends the request.
Refused(r) ==
    \/ r.op \in Naming /\ r.name \in names
    \/ r.op \in {"create_post", "update_club", "delete_club"} /\ ~club

HasRoom(j) == Cardinality(holding \cup {j}) <= Pool

\* The first query of the handler, which has a connection or gets one.
Query(j) ==
    /\ OnLoop(j, "query")
    /\ HasRoom(j)
    /\ IF Refused(req[j])
       THEN loop' = Nobody /\ Done(j)
       ELSE /\ holding' = holding \cup {j}
            /\ IF req[j].files /\ ~FlushesFirst(req[j])
               THEN Goto(j, "await") /\ loop' = Nobody
               ELSE Goto(j, "flush") /\ UNCHANGED loop
    /\ UNCHANGED <<names, club>>

\* Faulty variant: the pool is waited for without a limit.
PoolTimeout_Never(j) == FALSE /\ UNCHANGED vars

\* The loop has stood still for pool_timeout, and the request fails: also when
\* it has committed and only reads again.
PoolTimeout(j) ==
    /\ OnLoop(j, "query") \/ OnLoop(j, "reread")
    /\ ~HasRoom(j)
    /\ loop' = Nobody
    /\ Done(j)
    /\ UNCHANGED <<names, club>>

\* PostgreSQL knows of no deadlock: whoever holds the lock waits for nothing
\* that it could see.
Flush(j) ==
    /\ OnLoop(j, "flush")
    /\ \A v \in Jobs : ~WaitsFor(v)
    /\ IF req[j].files /\ FlushesFirst(req[j])
       THEN Goto(j, "await") /\ loop' = Nobody
       ELSE Goto(j, "commit") /\ UNCHANGED loop
    /\ UNCHANGED <<holding, names, club>>

\* The object store answers, well or not.
StoreAnswers(j) ==
    /\ req[j].pc = "await"
    /\ \E pc \in {"awaited", "failed"} : Goto(j, pc)
    /\ UNCHANGED <<loop, holding, names, club>>

\* Faulty variant: the rest of the request needs no turn on the loop.
MayResume_Thread(j) == req[j].pc \in {"awaited", "failed"}

MayResume(j) == req[j].pc \in {"awaited", "failed"} /\ loop = Nobody

Resume(j) ==
    /\ MayResume(j)
    /\ IF req[j].pc = "failed"
       THEN Done(j) /\ UNCHANGED loop
       ELSE /\ Goto(j, IF FlushesFirst(req[j]) THEN "commit" ELSE "flush")
            /\ loop' = j
            /\ UNCHANGED holding
    /\ UNCHANGED <<names, club>>

\* What was committed is expired: the response, or the entry to delete from
\* the cache, is made of what is read again.
Rereads(r) == r.op # "delete_club"

Commit(j) ==
    /\ OnLoop(j, "commit")
    /\ names' = IF req[j].op \in Naming THEN names \cup {req[j].name} ELSE names
    /\ club' = (club /\ req[j].op # "delete_club")
    /\ IF Rereads(req[j])
       THEN Goto(j, "reread") /\ holding' = holding \ {j} /\ UNCHANGED loop
       ELSE Done(j) /\ loop' = Nobody

\* A login saves its tokens here as well.
Reread(j) ==
    /\ OnLoop(j, "reread")
    /\ HasRoom(j)
    /\ Goto(j, "reply")
    /\ holding' = holding \cup {j}
    /\ UNCHANGED <<loop, names, club>>

Reply(j) ==
    /\ OnLoop(j, "reply")
    /\ Done(j)
    /\ loop' = Nobody
    /\ UNCHANGED <<names, club>>

\* Authentication of a WebSocket queries in a thread, and the transaction it
\* begins stays open; the loop is needed to see that the client is gone.
OpenSocket(s) ==
    /\ s \notin holding
    /\ Cardinality(holding) < Pool
    /\ holding' = holding \cup {s}
    /\ UNCHANGED <<req, loop, names, club>>

CloseSocket(s) ==
    /\ s \in holding
    /\ loop = Nobody
    /\ holding' = holding \ {s}
    /\ UNCHANGED <<req, loop, names, club>>

-----------------------------------------------------------------------------
Serve(j) ==
    \/ Authenticate(j) \/ ServeInThread(j) \/ AnswerFromThread(j)
    \/ Start(j) \/ Query(j) \/ PoolTimeout(j) \/ Flush(j)
    \/ StoreAnswers(j) \/ Resume(j) \/ Commit(j) \/ Reread(j) \/ Reply(j)

Next ==
    \/ \E j \in Jobs : Send(j) \/ Serve(j)
    \/ \E s \in Sockets : OpenSocket(s) \/ CloseSocket(s)

Spec == Init /\ [][Next]_vars

\* The loop takes ready requests in turn, pools and locks are queues, and
\* every await of the store ends.
Fairness == \A j \in Jobs : SF_vars(Serve(j))
FairSpec == Spec /\ Fairness

-----------------------------------------------------------------------------
(* Properties.                                                             *)

Stages == {"auth", "ready", "query", "flush", "await", "awaited", "failed", "commit",
           "reread", "reply", "done"}

\* Type invariant; no more connections than the pool has.
TypeOK ==
    /\ req \in [Jobs -> {NotSent} \cup [pc : Stages, op : Ops, user : Users,
                                       name : Names \cup {Nobody}, files : BOOLEAN]]
    /\ loop \in Jobs \cup {Nobody}
    /\ holding \subseteq Jobs \cup Sockets /\ Cardinality(holding) <= Pool
    /\ names \subseteq Names /\ club \in BOOLEAN

\* The request on the loop waits for one that awaits its turn on the loop.
Frozen == \E v \in Jobs : WaitsFor(v) /\ req[v].pc \in {"await", "awaited", "failed"}

\* The loop freezes only behind a request with files, and only when a club is
\* created with the same name, the club is changed under a post, or an account
\* is closed, or linked anew by a login, while it creates something.
FreezesOnlyOnConflict ==
    \A v \in Jobs : WaitsFor(v) =>
        LET j == req[loop] IN
        /\ req[v].files
        /\ \/ req[v].op = "create_club" /\ j.op \in Naming /\ j.name = req[v].name
           \/ req[v].op = "create_post" /\ j.op \in {"update_club", "delete_club"}
           \/ req[v].op \in Creating /\ j.op \in {"close", "link_login"} /\ j.user = req[v].user

\* A loop that is frozen stays so: nothing in the process or in PostgreSQL
\* ends it.
FrozenForGood == [][Frozen => Frozen']_vars

\* Every request is answered, if only with an error, or the loop freezes.
Answered == \A j \in Jobs : req[j].pc \in {"auth", "ready"} ~> (req[j].pc = "done" \/ Frozen)
=============================================================================
