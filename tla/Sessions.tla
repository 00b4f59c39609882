------------------------------ MODULE Sessions ------------------------------
(***************************************************************************)
(* The session rows of one account: login, rotation of the refresh token,  *)
(* logout, registration of a push token and the closing of the account,    *)
(* called by several devices at a time.                                    *)
(*                                                                         *)
(* A refresh token is a JWT of the account and an expiry in whole seconds, *)
(* nothing else: two tokens issued in the same second are the same string, *)
(* so a token is modelled by the second of its issue.                      *)
(*                                                                         *)
(* Each request reads the account's row with one SELECT and writes it at   *)
(* its COMMIT.  The table has no unique key on id_user.  Both logins are   *)
(* async handlers that never await, so from its first statement to its     *)
(* COMMIT a login runs alone on the event loop; refresh, logout and        *)
(* push-token run in the thread pool and interleave anywhere.              *)
(***************************************************************************)
EXTENDS Integers, FiniteSets

CONSTANTS
    Devices,   \* clients signed in to the account
    Workers,   \* requests the server may have in flight at a time
    None,      \* no token
    Ops,       \* the operations the devices use
    MaxClock,  \* bound: seconds the clock advances
    MaxRows    \* bound: primary keys of the session table

ASSUME SessionsAssumption ==
    /\ MaxClock \in Nat
    /\ MaxRows \in Nat
    /\ None \notin 0..MaxClock

VARIABLES
    session,  \* session[id]: refresh_token of the row with that key
    lastRow,  \* last primary key handed out
    now,      \* the server's clock, in seconds
    held,     \* held[d]: refresh token of the last answer that reached d
    access,   \* devices that hold an access token (30 minutes, never revoked)
    closed,   \* the account was closed
    devUsed,  \* history: an access token was issued without a login
    spent,    \* history: tokens exchanged for a different one
    raced,    \* history: a request overwrote a token written since its SELECT
    job       \* job[w]: the request worker w is serving

vars == <<session, lastRow, now, held, access, closed, devUsed, spent, raced, job>>

AllOps == {"login", "refresh", "logout", "push", "close", "dev_token"}

Tokens == 0..MaxClock

Rows == DOMAIN session

Idle == [pc |-> "idle"]

Init ==
    /\ session = [id \in {} |-> None]
    /\ lastRow = 0
    /\ now = 0
    /\ held = [d \in Devices |-> None]
    /\ access = {}
    /\ closed = FALSE
    /\ devUsed = FALSE
    /\ spent = {}
    /\ raced = FALSE
    /\ job = [w \in Workers |-> Idle]

-----------------------------------------------------------------------------

Tick ==
    /\ now < MaxClock
    /\ now' = now + 1
    /\ UNCHANGED <<session, lastRow, held, access, closed, devUsed, spent, raced, job>>

\* GET /auth/dev-token signs an access token without a session.
DevToken(d) ==
    /\ "dev_token" \in Ops
    /\ access' = access \cup {d}
    /\ devUsed' = TRUE
    /\ UNCHANGED <<session, lastRow, now, held, closed, spent, raced, job>>

\* What the caller must present.  Nobody signs in to a closed account (its
\* OAuth identity is gone), and get_current_user refuses its access tokens
\* (is_active is off; it is not switched on again here); /auth/refresh looks at
\* the session row only.
MayCall(op, d) ==
    CASE op = "login"   -> ~closed
      [] op = "refresh" -> held[d] # None
      [] OTHER          -> d \in access /\ ~closed

LoopFree_Threads == TRUE

\* No login is between its SELECT and its COMMIT: the event loop is free.
LoopFree == \A w \in Workers : job[w].pc = "commit" => job[w].op # "login"

Begin(w, d) ==
    /\ job[w] = Idle
    /\ \E op \in Ops \cap {"login", "refresh", "logout", "push"} :
         /\ MayCall(op, d)
         /\ op \in {"login", "push"} => lastRow + Cardinality(Workers) <= MaxRows
         /\ job' = [job EXCEPT ![w] = [pc |-> "load", op |-> op, dev |-> d,
                      sent |-> held[d], row |-> 0, was |-> None, token |-> None]]
    /\ UNCHANGED <<session, lastRow, now, held, access, closed, devUsed, spent, raced>>

\* The row a refresh found must hold the very token it was sent.
Accepts_AnyToken(j, id) == TRUE

Accepts(j, id) == j.op # "refresh" \/ session[id] = j.sent

\* Without a row a login and a push token insert one; a refresh is refused and
\* a logout has nothing to do.
Inserts(op) == op \in {"login", "push"}

\* scalar_one_or_none raises when the account has two rows; push-token takes
\* the first.  A login signs its tokens before it looks for the row.
Load(w) ==
    LET j == job[w]
        Found(id, was) ==
            [j EXCEPT !.pc = "commit", !.row = id, !.token = now, !.was = was]
    IN
    /\ j.pc = "load"
    /\ j.op = "login" => LoopFree /\ ~closed
    /\ \/ /\ Rows = {}
          /\ job' = [job EXCEPT ![w] = IF Inserts(j.op) THEN Found(0, None) ELSE Idle]
       \/ \E id \in Rows :
            /\ Cardinality(Rows) = 1 \/ j.op = "push"
            /\ job' = [job EXCEPT ![w] =
                         IF Accepts(j, id) THEN Found(id, session[id]) ELSE Idle]
       \/ /\ Cardinality(Rows) > 1
          /\ j.op # "push"
          /\ job' = [job EXCEPT ![w] = Idle]
    /\ UNCHANGED <<session, lastRow, now, held, access, closed, devUsed, spent, raced>>

\* The account was closed while a login waited for the event loop: the
\* provider's identity now belongs to a new account, which is another session.
LoginElsewhere(w) ==
    /\ job[w].pc = "load"
    /\ job[w].op = "login"
    /\ closed
    /\ job' = [job EXCEPT ![w] = Idle]
    /\ UNCHANGED <<session, lastRow, now, held, access, closed, devUsed, spent, raced>>

AtCommit(w, op) ==
    /\ job[w].pc = "commit"
    /\ job[w].op = op
    /\ job' = [job EXCEPT ![w] = Idle]

\* The row a handler loaded is updated by its key, or inserted when there was
\* none; an UPDATE of a row that is gone fails.
Stored_Upsert(j) == TRUE

Stored(j) == j.row = 0 \/ j.row \in Rows

\* The ORM leaves a column out of the UPDATE that is assigned the value it was
\* loaded with.
Store(j, token) ==
    LET key == IF j.row = 0 THEN lastRow + 1 ELSE j.row IN
    IF j.row # 0 /\ token = j.was
    THEN UNCHANGED <<session, lastRow, raced>>
    ELSE /\ session' = [id \in Rows \cup {key} |-> IF id = key THEN token ELSE session[id]]
         /\ lastRow' = IF j.row = 0 THEN key ELSE lastRow
         /\ raced' = (raced \/ (j.row \in Rows /\ session[j.row] # j.was))

\* The answer with the new tokens reaches the device, or is lost on the way.
Answer(d, token) ==
    \/ held' = [held EXCEPT ![d] = token] /\ access' = access \cup {d}
    \/ UNCHANGED <<held, access>>

CommitLogin_KeepsRow(w) ==
    LET j == job[w] IN
    /\ AtCommit(w, "login")
    /\ Stored(j)
    /\ Store(j, IF j.was = None THEN j.token ELSE j.was)
    /\ Answer(j.dev, j.token)
    /\ UNCHANGED <<now, closed, devUsed, spent>>

CommitLogin(w) ==
    LET j == job[w] IN
    /\ AtCommit(w, "login")
    /\ Stored(j)
    /\ Store(j, j.token)
    /\ Answer(j.dev, j.token)
    /\ UNCHANGED <<now, closed, devUsed, spent>>

CommitRefresh_NotRotated(w) ==
    LET j == job[w] IN
    /\ AtCommit(w, "refresh")
    /\ Stored(j)
    /\ \E token \in j.token..now :
         /\ Store(j, j.sent)
         /\ Answer(j.dev, token)
         /\ spent' = spent \cup ({j.sent} \ {token})
    /\ UNCHANGED <<now, closed, devUsed>>

\* The new token is signed between the SELECT and the COMMIT.
CommitRefresh(w) ==
    LET j == job[w] IN
    /\ AtCommit(w, "refresh")
    /\ Stored(j)
    /\ \E token \in j.token..now :
         /\ Store(j, token)
         /\ Answer(j.dev, token)
         /\ spent' = spent \cup ({j.sent} \ {token})
    /\ UNCHANGED <<now, closed, devUsed>>

CommitLogout(w) ==
    LET j == job[w] IN
    /\ AtCommit(w, "logout")
    /\ Stored(j)
    /\ Store(j, None)
    /\ UNCHANGED <<now, held, access, closed, devUsed, spent>>

CommitPush(w) ==
    LET j == job[w] IN
    /\ AtCommit(w, "push")
    /\ Stored(j)
    /\ IF j.row = 0 THEN Store(j, None) ELSE UNCHANGED <<session, lastRow, raced>>
    /\ UNCHANGED <<now, held, access, closed, devUsed, spent>>

\* The row disappeared with the account: StaleDataError, nothing is written.
StaleRow(w) ==
    /\ job[w].pc = "commit"
    /\ ~Stored(job[w])
    /\ job' = [job EXCEPT ![w] = Idle]
    /\ UNCHANGED <<session, lastRow, now, held, access, closed, devUsed, spent, raced>>

\* DELETE /users/me removes every session row in its one COMMIT.  It runs on
\* the event loop.
CloseAccount(d) ==
    /\ "close" \in Ops
    /\ MayCall("close", d)
    /\ LoopFree
    /\ session' = [id \in {} |-> None]
    /\ closed' = TRUE
    /\ UNCHANGED <<lastRow, now, held, access, devUsed, spent, raced, job>>

Next ==
    \/ Tick
    \/ \E d \in Devices : DevToken(d) \/ CloseAccount(d)
    \/ \E w \in Workers, d \in Devices : Begin(w, d)
    \/ \E w \in Workers :
          \/ Load(w) \/ LoginElsewhere(w) \/ StaleRow(w)
          \/ CommitLogin(w) \/ CommitRefresh(w) \/ CommitLogout(w) \/ CommitPush(w)

Spec == Init /\ [][Next]_vars

-----------------------------------------------------------------------------
(* Properties. *)

Requests ==
    [pc : {"load", "commit"}, op : {"login", "refresh", "logout", "push"}, dev : Devices,
     sent : Tokens \cup {None}, row : Nat, was : Tokens \cup {None}, token : Tokens \cup {None}]

\* Type invariant.
TypeOK ==
    /\ session \in [Rows -> Tokens \cup {None}]
    /\ lastRow \in Nat /\ Rows \subseteq 1..lastRow
    /\ now \in Tokens
    /\ held \in [Devices -> Tokens \cup {None}]
    /\ access \subseteq Devices
    /\ closed \in BOOLEAN /\ devUsed \in BOOLEAN /\ raced \in BOOLEAN
    /\ spent \subseteq Tokens
    /\ job \in [Workers -> {Idle} \cup Requests]

\* An open account has at most one session row, as long as every access token
\* came with a login.  login, refresh and logout read the row with
\* scalar_one_or_none: with two rows each of them fails for ever.
OneSession == ~closed /\ ~devUsed => Cardinality(Rows) <= 1

\* Once the account is closed no row holds a refresh token again, whatever was
\* in flight: /auth/refresh looks at nothing but the row.
ClosedStaysOut == closed => \A id \in Rows : session[id] = None

\* A refresh token that was exchanged for another one never opens the session
\* again, unless a request overwrote what another one had just written.
NoSpentToken == ~raced => \A id \in Rows : session[id] \notin spent

\* The last login or refresh that was answered is the one that stays signed in:
\* no device holds a token newer than the session's, with the same exception.
SessionIsNewest ==
    ~raced => \A id \in Rows, d \in Devices :
        session[id] # None /\ held[d] # None => held[d] <= session[id]

Revived(id) ==
    /\ id \in Rows \cap DOMAIN session'
    /\ session[id] = None
    /\ session'[id] # None

LoginCommits ==
    \E w \in Workers : job[w].pc = "commit" /\ job[w].op = "login" /\ job'[w] = Idle

\* After a logout the row stays without a token until somebody signs in, unless
\* a request overwrites it with what it had loaded before the logout.
LogoutHoldsUnlessRaced ==
    [][\A id \in Rows : Revived(id) /\ ~raced' => LoginCommits]_vars
=============================================================================
