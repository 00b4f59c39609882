-------------------------- MODULE Sessions_proofs --------------------------
(***************************************************************************)
(* For any devices, requests in flight and clock: an open account has one  *)
(* session row, a closed one is never signed in again, and rotation and    *)
(* logout hold as long as no request overwrites a token written since its  *)
(* SELECT.                                                                 *)
(***************************************************************************)
EXTENDS Sessions, FiniteSetTheorems, TLAPS

\* A login between its SELECT and its COMMIT; the same of a refresh whose row
\* is still there.
Logging(w) == job[w].pc = "commit" /\ job[w].op = "login"
Rotating(w) == job[w].pc = "commit" /\ job[w].op = "refresh" /\ job[w].row \in Rows

\* Nothing comes from the future, and what was exchanged is past.
Past ==
    /\ \A id \in Rows : session[id] # None => session[id] <= now
    /\ \A d \in Devices : held[d] # None => held[d] <= now
    /\ \A t \in spent : t < now
    /\ \A w \in Workers : job[w].pc = "commit" =>
         /\ job[w].token \in Tokens /\ job[w].token <= now
         /\ job[w].was # None => job[w].was <= job[w].token
         /\ job[w].row \in 0..lastRow

\* What a request presented and what it found.
Found ==
    \A w \in Workers :
        /\ job[w].pc \in {"load", "commit"} /\ job[w].op = "refresh" => job[w].sent # None
        /\ job[w].pc = "commit" /\ job[w].op = "refresh" => job[w].row # 0 /\ job[w].was = job[w].sent
        /\ job[w].pc = "commit" /\ job[w].op = "logout" => job[w].row # 0
        /\ job[w].pc = "commit" /\ job[w].row = 0 => job[w].was = None
        /\ Logging(w) => ~closed /\ (job[w].row # 0 => job[w].row \in Rows)

\* The event loop runs one login at a time.
Alone == \A v, w \in Workers : Logging(v) /\ Logging(w) => v = w

\* A closed account has no token and no request that would write one.
Gone ==
    closed =>
        /\ \A id \in Rows : session[id] = None
        /\ \A w \in Workers : ~Logging(w) /\ ~Rotating(w)

\* Before its first login an account has neither tokens nor, without the
\* developers' endpoint, anybody who could do anything but sign in.
Unborn ==
    /\ Rows = {}
    /\ access = {}
    /\ \A d \in Devices : held[d] = None
    /\ \A w \in Workers : job[w].pc # "idle" => job[w].op = "login"

One ==
    ~closed /\ ~devUsed =>
        \/ Unborn
        \/ \E id \in Rows : Rows = {id} /\ \A w \in Workers : job[w].pc = "commit" => job[w].row = id

Fresh == ~closed /\ Rows = {} => spent = {} /\ \A d \in Devices : held[d] = None

\* One row at most is signed in, with the newest token there is.
Newest ==
    /\ \A i, k \in Rows : session[i] # None /\ session[k] # None => i = k
    /\ \A id \in Rows : session[id] # None =>
         /\ \A t \in spent : t < session[id]
         /\ \A d \in Devices : held[d] # None => held[d] <= session[id]

\* What is true of a login in flight.
LoginSound(w) ==
    LET j == job[w] IN
    Logging(w) =>
        /\ \A id \in Rows \ {j.row} : session[id] = None
        /\ j.row = 0 =>
             /\ spent = {}
             /\ \A d \in Devices : held[d] = None
             /\ \A v \in Workers : ~Rotating(v)
        /\ j.row # 0 =>
             /\ session[j.row] # None => j.was # None /\ j.was <= session[j.row]
             /\ \A v \in Workers : Rotating(v) => job[v].row = j.row
             /\ session[j.row] = j.was =>
                  /\ \A t \in spent : t < j.token
                  /\ \A d \in Devices : held[d] # None => held[d] <= j.token
                  /\ \A v \in Workers : Rotating(v) => job[v].was <= j.token

\* The same of a refresh.
RefreshSound(w) ==
    LET j == job[w] IN
    Rotating(w) =>
        /\ \A id \in Rows \ {j.row} : session[id] = None
        /\ session[j.row] # None => j.was <= session[j.row]

Ordered == ~raced => Newest /\ \A w \in Workers : LoginSound(w) /\ RefreshSound(w)

IInv == TypeOK /\ Past /\ Found /\ Alone /\ Gone /\ One /\ Fresh /\ Ordered

rest == <<session, lastRow, now, held, access, closed, devUsed, spent, raced>>

LEMMA InitInv == Init => IInv
<1> SUFFICES ASSUME Init PROVE IInv
  OBVIOUS
<1>1. Rows = {} /\ \A w \in Workers : job[w] = Idle
  BY DEF Init, Rows
<1>2. TypeOK
  <2>1. session \in [Rows -> Tokens \cup {None}]
    BY <1>1 DEF Init, Rows
  <2>2. now \in Tokens
    BY SessionsAssumption DEF Init, Tokens
  <2> QED BY <1>1, <2>1, <2>2 DEF Init, TypeOK
<1>3. Past /\ Found /\ Alone /\ Gone /\ Ordered
  BY <1>1, SessionsAssumption DEF Init, Past, Found, Alone, Gone, Ordered, Newest, LoginSound,
     RefreshSound, Logging, Rotating, Idle
<1>4. One /\ Fresh
  BY <1>1 DEF Init, One, Fresh, Unborn, Idle
<1> QED BY <1>2, <1>3, <1>4 DEF IInv

\* A request is given up.
LEMMA GivenUp ==
    ASSUME IInv, NEW w \in Workers, job' = [job EXCEPT ![w] = Idle], UNCHANGED rest
    PROVE  IInv'
<1>1. /\ job'[w] = Idle /\ \A v \in Workers \ {w} : job'[v] = job[v]
      /\ UNCHANGED <<session, lastRow, now, held, access, closed, devUsed, spent, raced>>
  BY DEF IInv, TypeOK, rest
<1>2. Rows' = Rows
  BY <1>1 DEF Rows
<1>3. TypeOK'
  BY <1>1, <1>2 DEF IInv, TypeOK
<1>4. \A v \in Workers : (Logging(v)' => Logging(v) /\ v # w) /\ (Rotating(v)' => Rotating(v) /\ v # w)
  BY <1>1, <1>2 DEF Logging, Rotating, Idle
<1>5. Past' /\ Found' /\ Alone'
  BY <1>1, <1>2, <1>4 DEF IInv, Past, Found, Alone, Idle
<1>6. Gone' /\ Fresh'
  BY <1>1, <1>2, <1>4 DEF IInv, Gone, Fresh
<1>7. One'
  BY <1>1, <1>2 DEF IInv, One, Unborn, Idle
<1>8. Ordered'
  <2>1. ~raced' => Newest'
    BY <1>1, <1>2 DEF IInv, Ordered, Newest
  <2>2. ASSUME NEW v \in Workers, ~raced' PROVE LoginSound(v)' /\ RefreshSound(v)'
    BY <1>1, <1>2, <1>4, <2>2 DEF IInv, Ordered, LoginSound, RefreshSound
  <2> QED BY <2>1, <2>2 DEF Ordered
<1> QED BY <1>3, <1>5, <1>6, <1>7, <1>8 DEF IInv

LEMMA TickStep ==
    ASSUME IInv, Tick
    PROVE  IInv'
<1>1. /\ now < MaxClock /\ now' = now + 1 /\ now' \in Tokens
      /\ UNCHANGED <<session, lastRow, held, access, closed, devUsed, spent, raced, job, Rows>>
  BY SessionsAssumption DEF Tick, IInv, TypeOK, Tokens, Rows
<1>2. TypeOK'
  BY <1>1 DEF IInv, TypeOK
<1>3. Past'
  BY <1>1, SessionsAssumption DEF IInv, TypeOK, Past, Tokens
<1>4. Found' /\ Alone' /\ Gone' /\ One' /\ Fresh'
  BY <1>1 DEF IInv, Found, Alone, Gone, One, Fresh, Unborn, Logging, Rotating
<1>5. Ordered'
  BY <1>1 DEF IInv, Ordered, Newest, LoginSound, RefreshSound, Logging, Rotating
<1> QED BY <1>2, <1>3, <1>4, <1>5 DEF IInv

LEMMA DevTokenStep ==
    ASSUME IInv, NEW d \in Devices, DevToken(d)
    PROVE  IInv'
<1>1. /\ access' = access \cup {d} /\ devUsed' = TRUE
      /\ UNCHANGED <<session, lastRow, now, held, closed, spent, raced, job, Rows>>
  BY DEF DevToken, Rows
<1>2. TypeOK'
  BY <1>1 DEF IInv, TypeOK
<1>3. Past' /\ Found' /\ Alone' /\ Gone' /\ One' /\ Fresh'
  BY <1>1 DEF IInv, Past, Found, Alone, Gone, One, Fresh, Unborn, Logging, Rotating
<1>4. Ordered'
  BY <1>1 DEF IInv, Ordered, Newest, LoginSound, RefreshSound, Logging, Rotating
<1> QED BY <1>2, <1>3, <1>4 DEF IInv

LEMMA CloseStep ==
    ASSUME IInv, NEW d \in Devices, CloseAccount(d)
    PROVE  IInv'
<1>1. /\ session' = [id \in {} |-> None] /\ closed' = TRUE /\ LoopFree /\ ~closed
      /\ UNCHANGED <<lastRow, now, held, access, devUsed, spent, raced, job>>
  BY DEF CloseAccount, MayCall
<1>2. Rows' = {}
  BY <1>1 DEF Rows
<1>3. \A w \in Workers : ~Logging(w) /\ ~Logging(w)' /\ ~Rotating(w)'
  BY <1>1, <1>2 DEF LoopFree, Logging, Rotating
<1>4. TypeOK'
  BY <1>1, <1>2 DEF IInv, TypeOK
<1>5. Past' /\ Found'
  BY <1>1, <1>2, <1>3 DEF IInv, Past, Found
<1>6. Alone' /\ Gone' /\ One' /\ Fresh' /\ Ordered'
  BY <1>1, <1>2, <1>3 DEF Alone, Gone, One, Fresh, Ordered, Newest, LoginSound, RefreshSound
<1> QED BY <1>4, <1>5, <1>6 DEF IInv

LEMMA BeginStep ==
    ASSUME IInv, NEW w \in Workers, NEW d \in Devices, Begin(w, d)
    PROVE  IInv'
<1>1. PICK op \in Ops \cap {"login", "refresh", "logout", "push"} :
         /\ MayCall(op, d)
         /\ job' = [job EXCEPT ![w] = [pc |-> "load", op |-> op, dev |-> d,
                      sent |-> held[d], row |-> 0, was |-> None, token |-> None]]
  BY DEF Begin
<1> DEFINE j == [pc |-> "load", op |-> op, dev |-> d, sent |-> held[d], row |-> 0,
                 was |-> None, token |-> None]
<1>2. j \in Requests /\ j.pc = "load" /\ j.op = op /\ j.sent = held[d]
  BY DEF Requests, IInv, TypeOK
<1> HIDE DEF j
<1>3. /\ job'[w] = j /\ \A v \in Workers \ {w} : job'[v] = job[v]
      /\ UNCHANGED <<session, lastRow, now, held, access, closed, devUsed, spent, raced, Rows>>
      /\ job' \in [Workers -> {Idle} \cup Requests]
  BY <1>1, <1>2 DEF IInv, TypeOK, Begin, j, Rows
<1>4. TypeOK'
  BY <1>3 DEF IInv, TypeOK
<1>5. \A v \in Workers : (Logging(v)' => Logging(v) /\ v # w) /\ (Rotating(v)' => Rotating(v) /\ v # w)
  BY <1>2, <1>3 DEF Logging, Rotating
<1>6. Past' /\ Alone' /\ Gone' /\ Fresh'
  BY <1>2, <1>3, <1>5 DEF IInv, Past, Alone, Gone, Fresh
<1>7. Found'
  <2>1. op = "refresh" => held[d] # None
    BY <1>1 DEF MayCall
  <2> QED BY <1>2, <1>3, <1>5, <2>1 DEF IInv, Found
<1>8. One'
  <2>1. Unborn => op = "login"
    BY <1>1 DEF MayCall, Unborn
  <2>2. Unborn => Unborn'
    BY <1>2, <1>3, <2>1 DEF Unborn
  <2> QED BY <1>2, <1>3, <2>2 DEF IInv, One
<1>9. Ordered'
  <2>1. ~raced' => Newest'
    BY <1>3 DEF IInv, Ordered, Newest
  <2>2. ASSUME NEW v \in Workers, ~raced' PROVE LoginSound(v)' /\ RefreshSound(v)'
    BY <1>3, <1>5, <2>2 DEF IInv, Ordered, LoginSound, RefreshSound
  <2> QED BY <2>1, <2>2 DEF Ordered
<1> QED BY <1>4, <1>6, <1>7, <1>8, <1>9 DEF IInv


\* A request that finds a row, or may insert one, goes on to its COMMIT.
LEMMA Goes ==
    ASSUME IInv, NEW w \in Workers, job[w].pc = "load", job' \in [Workers -> {Idle} \cup Requests],
           job'[w].pc = "commit", job'[w].op = job[w].op,
           \A v \in Workers \ {w} : job'[v] = job[v], UNCHANGED rest
    PROVE  /\ TypeOK'
           /\ UNCHANGED <<session, lastRow, now, held, access, closed, devUsed, spent, raced, Rows>>
           /\ \A v \in Workers \ {w} : (Logging(v)' <=> Logging(v)) /\ (Rotating(v)' <=> Rotating(v))
           /\ Logging(w)' <=> job[w].op = "login"
           /\ Rotating(w)' <=> job[w].op = "refresh" /\ job'[w].row \in Rows
<1>1. UNCHANGED <<session, lastRow, now, held, access, closed, devUsed, spent, raced, Rows>>
  BY DEF rest, Rows
<1>2. Rows' = Rows
  BY <1>1
<1>3. TypeOK'
  BY <1>1 DEF IInv, TypeOK
<1>4. \A v \in Workers \ {w} : (Logging(v)' <=> Logging(v)) /\ (Rotating(v)' <=> Rotating(v))
  BY <1>2 DEF Logging, Rotating
<1>5. Logging(w)' <=> job[w].op = "login"
  BY DEF Logging
<1>6. Rotating(w)' <=> job[w].op = "refresh" /\ job'[w].row \in Rows
  BY <1>2 DEF Rotating
<1> QED BY <1>1, <1>3, <1>4, <1>5, <1>6

\* A login, a refresh or a logout that finds the one row, with its token.
LEMMA FindsRow ==
    ASSUME IInv, NEW w \in Workers, job[w].pc = "load", NEW id \in Rows,
           job' = [job EXCEPT ![w] =
             [job[w] EXCEPT !.pc = "commit", !.row = id, !.token = now, !.was = session[id]]],
           UNCHANGED rest,
           job[w].op # "push" => Rows = {id},
           job[w].op = "refresh" => session[id] = job[w].sent,
           job[w].op = "login" => ~closed /\ \A v \in Workers : ~Logging(v)
    PROVE  IInv'
<1>0. id \in 0..lastRow /\ id \in Nat /\ id # 0 /\ session[id] \in Tokens \cup {None} /\ now \in Nat
  BY SessionsAssumption DEF IInv, TypeOK, Tokens
<1> DEFINE j == [job[w] EXCEPT !.pc = "commit", !.row = id, !.token = now, !.was = session[id]]
<1>a. job[w] \in Requests /\ now \in Tokens
  BY DEF IInv, TypeOK, Idle
<1>b. /\ j \in Requests /\ j.pc = "commit" /\ j.row = id /\ j.token = now /\ j.was = session[id]
      /\ j.op = job[w].op /\ j.sent = job[w].sent
  BY <1>0, <1>a DEF Requests
<1> HIDE DEF j
<1>c. job'[w] = j /\ (\A v \in Workers \ {w} : job'[v] = job[v]) /\ job' \in [Workers -> {Idle} \cup Requests]
  BY <1>b DEF IInv, TypeOK, j
<1>1. /\ job'[w].pc = "commit" /\ job'[w].row = id
      /\ job'[w].token = now /\ job'[w].was = session[id]
      /\ job'[w].op = job[w].op /\ job'[w].sent = job[w].sent
      /\ \A v \in Workers \ {w} : job'[v] = job[v]
      /\ TypeOK'
      /\ UNCHANGED <<session, lastRow, now, held, access, closed, devUsed, spent, raced, Rows>>
      /\ \A v \in Workers \ {w} : (Logging(v)' <=> Logging(v)) /\ (Rotating(v)' <=> Rotating(v))
      /\ Logging(w)' <=> job[w].op = "login"
      /\ Rotating(w)' <=> job[w].op = "refresh" /\ id \in Rows
  BY <1>b, <1>c, Goes
<1>2. Past'
  BY <1>0, <1>1 DEF IInv, TypeOK, Past, Tokens
<1>3. Found'
  BY <1>0, <1>1 DEF IInv, Found
<1>4. Alone'
  BY <1>1 DEF IInv, Alone
<1>5. Gone' /\ Fresh'
  BY <1>1 DEF IInv, Gone, Found, Fresh
<1>6. One'
  BY <1>1 DEF IInv, One, Unborn
<1>7. ASSUME ~raced' PROVE Newest' /\ \A v \in Workers : LoginSound(v)' /\ RefreshSound(v)'
  <2>0. Newest /\ \A v \in Workers : LoginSound(v) /\ RefreshSound(v)
    BY <1>1, <1>7 DEF IInv, Ordered
  <2>1. Newest'
    BY <1>1, <2>0 DEF Newest
  <2>2. ASSUME NEW v \in Workers \ {w} PROVE LoginSound(v)'
    <3>1. CASE Logging(v) /\ job[w].op = "refresh"
      <4>1. job[v].row # 0 => job[v].row = id
        BY <1>1, <3>1 DEF IInv, Found
      <4>2. session[id] # None
        BY <1>1, <3>1 DEF IInv, Found
      <4>3. job[v].row # 0
        BY <1>0, <2>0, <3>1, <4>2 DEF LoginSound
      <4>4. session[id] = job[v].was => session[id] <= job[v].token
        BY <3>1, <4>2 DEF IInv, Past, Logging
      <4> QED BY <1>1, <2>0, <4>1, <4>3, <4>4 DEF LoginSound
    <3>2. CASE ~(Logging(v) /\ job[w].op = "refresh")
      BY <1>1, <2>0, <3>2 DEF LoginSound
    <3> QED BY <3>1, <3>2
  <2>3. ASSUME NEW v \in Workers \ {w} PROVE RefreshSound(v)'
    BY <1>1, <2>0 DEF RefreshSound
  <2>4. LoginSound(w)'
    <3> SUFFICES ASSUME job[w].op = "login" PROVE LoginSound(w)'
      BY <1>1 DEF LoginSound
    <3>1. \A v \in Workers : Rotating(v)' => v # w /\ Rotating(v) /\ job[v].row = id
      BY <1>1 DEF Rotating
    <3>2. session[id] # None => session[id] <= session[id]
      BY <1>0 DEF Tokens
    <3>3. /\ \A t \in spent : t < now
          /\ \A d \in Devices : held[d] # None => held[d] <= now
          /\ \A v \in Workers : Rotating(v) => job[v].was <= now
      <4>1. ASSUME NEW v \in Workers, Rotating(v) PROVE job[v].was <= now
        <5>1. job[v] \in Requests /\ job[v].was # None
          BY <4>1 DEF IInv, TypeOK, Found, Rotating, Idle
        <5>2. job[v].was <= job[v].token /\ job[v].token <= now /\ job[v].token \in Tokens
          BY <4>1, <5>1 DEF IInv, Past, Rotating
        <5> QED BY <1>0, <5>1, <5>2 DEF Requests, Tokens
      <4> QED BY <4>1 DEF IInv, Past
    <3> QED BY <1>0, <1>1, <3>1, <3>2, <3>3 DEF LoginSound
  <2>5. RefreshSound(w)'
    <3>1. session[id] # None => session[id] <= session[id]
      BY <1>0 DEF Tokens
    <3> QED BY <1>1, <3>1 DEF RefreshSound
  <2> QED BY <2>1, <2>2, <2>3, <2>4, <2>5
<1> QED BY <1>1, <1>2, <1>3, <1>4, <1>5, <1>6, <1>7 DEF IInv, Ordered

\* The same without a row.
LEMMA FindsNone ==
    ASSUME IInv, NEW w \in Workers, job[w].pc = "load", Rows = {},
           job' = [job EXCEPT ![w] =
             [job[w] EXCEPT !.pc = "commit", !.row = 0, !.token = now, !.was = None]],
           UNCHANGED rest,
           job[w].op \in {"login", "push"},
           job[w].op = "login" => ~closed /\ \A v \in Workers : ~Logging(v)
    PROVE  IInv'
<1>0. 0 \in 0..lastRow /\ now \in Nat
  BY SessionsAssumption DEF IInv, TypeOK, Tokens
<1> DEFINE j == [job[w] EXCEPT !.pc = "commit", !.row = 0, !.token = now, !.was = None]
<1>a. job[w] \in Requests /\ now \in Tokens
  BY DEF IInv, TypeOK, Idle
<1>b. /\ j \in Requests /\ j.pc = "commit" /\ j.row = 0 /\ j.token = now /\ j.was = None
      /\ j.op = job[w].op /\ j.sent = job[w].sent
  BY <1>0, <1>a DEF Requests
<1> HIDE DEF j
<1>c. job'[w] = j /\ (\A v \in Workers \ {w} : job'[v] = job[v]) /\ job' \in [Workers -> {Idle} \cup Requests]
  BY <1>b DEF IInv, TypeOK, j
<1>1. /\ job'[w].pc = "commit" /\ job'[w].row = 0
      /\ job'[w].token = now /\ job'[w].was = None
      /\ job'[w].op = job[w].op /\ job'[w].sent = job[w].sent
      /\ \A v \in Workers \ {w} : job'[v] = job[v]
      /\ TypeOK'
      /\ UNCHANGED <<session, lastRow, now, held, access, closed, devUsed, spent, raced, Rows>>
      /\ \A v \in Workers \ {w} : (Logging(v)' <=> Logging(v)) /\ (Rotating(v)' <=> Rotating(v))
      /\ Logging(w)' <=> job[w].op = "login"
      /\ Rotating(w)' <=> job[w].op = "refresh" /\ 0 \in Rows
  BY <1>b, <1>c, Goes
<1>2. Past'
  BY <1>0, <1>1 DEF IInv, TypeOK, Past, Tokens
<1>3. Found'
  BY <1>0, <1>1 DEF IInv, Found
<1>4. Alone'
  BY <1>1 DEF IInv, Alone
<1>5. Gone' /\ Fresh'
  BY <1>1 DEF IInv, Gone, Fresh
<1>6. One'
  BY <1>1 DEF IInv, One, Unborn
<1>7. ASSUME ~raced' PROVE Newest' /\ \A v \in Workers : LoginSound(v)' /\ RefreshSound(v)'
  <2>0. Newest /\ \A v \in Workers : LoginSound(v) /\ RefreshSound(v)
    BY <1>1, <1>7 DEF IInv, Ordered
  <2>1. Newest'
    BY <1>1, <2>0 DEF Newest
  <2>2. ASSUME NEW v \in Workers PROVE ~Rotating(v)'
    BY <1>1 DEF Rotating
  <2>3. ASSUME NEW v \in Workers \ {w} PROVE LoginSound(v)'
    BY <1>1, <2>0, <2>2 DEF LoginSound
  <2>4. LoginSound(w)'
    BY <1>1, <2>2 DEF LoginSound, IInv, Fresh
  <2> QED BY <2>1, <2>2, <2>3, <2>4 DEF RefreshSound
<1> QED BY <1>1, <1>2, <1>3, <1>4, <1>5, <1>6, <1>7 DEF IInv, Ordered

LEMMA LoadStep ==
    ASSUME IInv, NEW w \in Workers, Load(w) \/ LoginElsewhere(w) \/ StaleRow(w)
    PROVE  IInv'
<1> USE DEF rest
<1>1. CASE job' = [job EXCEPT ![w] = Idle] /\ UNCHANGED rest
  BY <1>1, GivenUp
<1>2. CASE Load(w)
  <2>1. /\ job[w].pc = "load" /\ UNCHANGED rest
        /\ job[w].op = "login" => ~closed /\ \A v \in Workers : ~Logging(v)
    BY <1>2 DEF Load, LoopFree, Logging
  <2>2. CASE /\ Rows = {} /\ Inserts(job[w].op)
             /\ job' = [job EXCEPT ![w] =
                  [job[w] EXCEPT !.pc = "commit", !.row = 0, !.token = now, !.was = None]]
    BY <2>1, <2>2, FindsNone DEF Inserts
  <2>3. ASSUME NEW id \in Rows, Cardinality(Rows) = 1 \/ job[w].op = "push", Accepts(job[w], id),
               job' = [job EXCEPT ![w] = [job[w] EXCEPT
                         !.pc = "commit", !.row = id, !.token = now, !.was = session[id]]]
        PROVE  IInv'
    <3>1. job[w].op # "push" => Rows = {id}
      <4>1. IsFiniteSet(Rows)
        <5>1. IsFiniteSet(1..lastRow) /\ Rows \in SUBSET (1..lastRow)
          BY FS_Interval DEF IInv, TypeOK
        <5> QED BY <5>1, FS_Subset
      <4>2. Cardinality(Rows) = 1 => \E x : Rows = {x}
        BY <4>1, FS_Singleton
      <4> QED BY <2>3, <4>2
    <3> QED BY <2>1, <2>3, <3>1, FindsRow DEF Accepts
  <2> QED BY <1>1, <1>2, <2>1, <2>2, <2>3 DEF Load
<1> QED BY <1>1, <1>2 DEF LoginElsewhere, StaleRow

\* What the COMMIT of a request does to the rows: nothing, or its own row gets
\* the token.
Kept(w) == job[w].row \in Rows /\ UNCHANGED <<session, lastRow, raced>>

Wrote(w, key, token) ==
    /\ Rows' = Rows \cup {key} /\ session'[key] = token /\ session' \in [Rows' -> Tokens \cup {None}]
    /\ \A id \in Rows \ {key} : session'[id] = session[id]
    /\ lastRow' \in Nat /\ lastRow <= lastRow' /\ Rows' \subseteq 1..lastRow' /\ raced' \in BOOLEAN
    /\ \/ job[w].row = 0 /\ key \notin Rows /\ key \notin 0..lastRow
       \/ job[w].row # 0 /\ key = job[w].row /\ key \in Rows
    /\ ~raced' => ~raced /\ (job[w].row # 0 => session[key] = job[w].was)

LEMMA Stores ==
    ASSUME IInv, NEW w \in Workers, job[w].pc = "commit", NEW token \in Tokens \cup {None},
           Stored(job[w]), Store(job[w], token)
    PROVE  (Kept(w) /\ token = job[w].was) \/ \E key \in Nat : Wrote(w, key, token)
<1> DEFINE key == IF job[w].row = 0 THEN lastRow + 1 ELSE job[w].row
<1>1. lastRow \in Nat /\ Rows \subseteq 1..lastRow /\ raced \in BOOLEAN
      /\ session \in [Rows -> Tokens \cup {None}]
  BY DEF IInv, TypeOK
<1>2. job[w].row = 0 \/ job[w].row \in Rows
  BY DEF Stored
<1>3. key \in Nat /\ (job[w].row = 0 => key = lastRow + 1 /\ key \notin 0..lastRow)
      /\ (job[w].row # 0 => key = job[w].row /\ key \in Rows)
  <2>1. CASE job[w].row = 0
    BY <1>1, <2>1
  <2>2. CASE job[w].row # 0
    <3>1. key = job[w].row
      BY <2>2
    <3>2. job[w].row \in Rows
      BY <1>2, <2>2
    <3>3. \A id \in Rows : id \in Nat
      BY <1>1
    <3> QED BY <2>2, <3>1, <3>2, <3>3
  <2> QED BY <2>1, <2>2
<1>4. CASE job[w].row # 0 /\ token = job[w].was
  BY <1>2, <1>4 DEF Store, Kept
<1>5. CASE ~(job[w].row # 0 /\ token = job[w].was)
  <2>1. /\ session' = [id \in Rows \cup {key} |-> IF id = key THEN token ELSE session[id]]
        /\ lastRow' = IF job[w].row = 0 THEN key ELSE lastRow
        /\ raced' = (raced \/ (job[w].row \in Rows /\ session[job[w].row] # job[w].was))
    BY <1>5 DEF Store
  <2> HIDE DEF key
  <2>2. Rows' = Rows \cup {key}
    BY <2>1 DEF Rows
  <2>3. session'[key] = token /\ session' \in [Rows' -> Tokens \cup {None}]
        /\ \A id \in Rows \ {key} : session'[id] = session[id]
    BY <1>1, <2>1, <2>2
  <2>4. lastRow' \in Nat /\ lastRow <= lastRow' /\ Rows' \subseteq 1..lastRow'
    <3>1. CASE job[w].row = 0
      BY <1>1, <1>3, <2>1, <2>2, <3>1
    <3>2. CASE job[w].row # 0
      BY <1>1, <1>3, <2>1, <2>2, <3>2
    <3> QED BY <3>1, <3>2
  <2>5. raced' \in BOOLEAN /\ (~raced' => ~raced /\ (job[w].row # 0 => session[key] = job[w].was))
    BY <1>1, <1>3, <2>1
  <2>6. \/ job[w].row = 0 /\ key \notin Rows /\ key \notin 0..lastRow
        \/ job[w].row # 0 /\ key = job[w].row /\ key \in Rows
    BY <1>1, <1>3
  <2> QED BY <1>3, <2>2, <2>3, <2>4, <2>5, <2>6 DEF Wrote
<1> QED BY <1>4, <1>5

\* Everything but the order of the tokens, for all COMMITs alike.
LEMMA Commits ==
    ASSUME IInv, NEW w \in Workers, job[w].pc = "commit", job' = [job EXCEPT ![w] = Idle],
           NEW token \in Tokens \cup {None}, token # None => token <= now /\ ~closed,
           Kept(w) \/ \E key \in Nat : Wrote(w, key, token),
           UNCHANGED <<now, closed, devUsed>>,
           held' \in [Devices -> Tokens \cup {None}],
           \A d \in Devices : held'[d] # None => held'[d] <= now,
           access' \subseteq Devices, spent' \subseteq Tokens, \A t \in spent' : t < now
    PROVE  /\ TypeOK' /\ Past' /\ Found' /\ Alone' /\ Gone' /\ One' /\ Fresh'
           /\ \A v \in Workers \ {w} : job'[v] = job[v]
           /\ \A v \in Workers : (Logging(v)' => v # w /\ Logging(v)) /\ (Rotating(v)' => v # w /\ Rotating(v))
<1>1. job'[w] = Idle /\ (\A v \in Workers \ {w} : job'[v] = job[v]) /\ job' \in [Workers -> {Idle} \cup Requests]
  BY DEF IInv, TypeOK
<1>2. TypeOK'
  <2>1. CASE Kept(w)
    BY <1>1, <2>1 DEF Kept, IInv, TypeOK, Rows
  <2>2. CASE \E key \in Nat : Wrote(w, key, token)
    BY <1>1, <2>2 DEF Wrote, IInv, TypeOK
  <2> QED BY <2>1, <2>2
<1>3. /\ lastRow \in Nat /\ lastRow' \in Nat /\ lastRow <= lastRow'
      /\ Rows \subseteq Rows' /\ Rows' # {}
      /\ \A id \in Rows' : session'[id] = token \/ (id \in Rows /\ session'[id] = session[id])
      /\ \A id \in Rows' \cap 0..lastRow : id \in Rows
  <2>1. CASE Kept(w)
    BY <2>1 DEF Kept, IInv, TypeOK, Rows
  <2>2. CASE \E key \in Nat : Wrote(w, key, token)
    BY <2>2 DEF Wrote, IInv, TypeOK
  <2> QED BY <2>1, <2>2
<1>4. \A v \in Workers : (Logging(v)' => v # w /\ Logging(v)) /\ (Rotating(v)' => v # w /\ Rotating(v))
  BY <1>1, <1>3 DEF Logging, Rotating, Idle, IInv, Past
<1>5. Past'
  <2>1. \A id \in Rows' : session'[id] # None => session'[id] <= now
    BY <1>3 DEF IInv, Past
  <2>2. ASSUME NEW v \in Workers, job'[v].pc = "commit"
        PROVE  /\ job'[v].token \in Tokens /\ job'[v].token <= now
               /\ job'[v].was # None => job'[v].was <= job'[v].token
               /\ job'[v].row \in 0..lastRow'
    <3>1. job'[v] = job[v]
      BY <1>1, <2>2 DEF Idle
    <3> QED BY <1>3, <2>2, <3>1 DEF IInv, Past
  <2> QED BY <2>1, <2>2 DEF Past
<1>6. Found'
  BY <1>1, <1>3, <1>4 DEF IInv, Found, Idle
<1>7. Alone' /\ Fresh'
  BY <1>3, <1>4 DEF IInv, Alone, Fresh
<1>8. Gone'
  BY <1>3, <1>4 DEF IInv, Gone
<1>9. One'
  <2> SUFFICES ASSUME ~closed, ~devUsed
               PROVE  \E id \in Rows' : Rows' = {id} /\ \A v \in Workers : job'[v].pc = "commit" => job'[v].row = id
    BY DEF One
  <2>1. CASE Unborn
    <3>1. PICK key \in Nat : Rows' = Rows \cup {key}
      BY <2>1 DEF Unborn, Kept, Wrote
    <3>2. ASSUME NEW v \in Workers \ {w} PROVE job[v].pc # "commit"
      BY <2>1, <3>2 DEF Unborn, IInv, Alone, Logging
    <3> QED BY <1>1, <2>1, <3>1, <3>2 DEF Unborn, Idle
  <2>2. CASE \E id \in Rows : Rows = {id} /\ \A v \in Workers : job[v].pc = "commit" => job[v].row = id
    <3>1. PICK id \in Rows : Rows = {id} /\ \A v \in Workers : job[v].pc = "commit" => job[v].row = id
      BY <2>2
    <3>2. Rows' = Rows
      <4>1. job[w].row = id /\ id # 0
        BY <3>1 DEF IInv, TypeOK
      <4>2. CASE Kept(w)
        BY <4>2 DEF Kept, Rows
      <4>3. ASSUME NEW key \in Nat, Wrote(w, key, token) PROVE Rows' = Rows
        BY <3>1, <4>1, <4>3 DEF Wrote
      <4> QED BY <4>2, <4>3
    <3> QED BY <1>1, <3>1, <3>2 DEF Idle
  <2> QED BY <2>1, <2>2 DEF IInv, One
<1> QED BY <1>1, <1>2, <1>4, <1>5, <1>6, <1>7, <1>8, <1>9

\* The COMMIT of a logout or of a push token: at most a token goes.
LEMMA BlankStep ==
    ASSUME IInv, NEW w \in Workers, job[w].pc = "commit", job' = [job EXCEPT ![w] = Idle],
           Kept(w) \/ \E key \in Nat : Wrote(w, key, None),
           UNCHANGED <<now, held, access, closed, devUsed, spent>>
    PROVE  IInv'
<1>1. \A d \in Devices : held[d] # None => held[d] <= now
  BY DEF IInv, Past
<1>2. /\ held \in [Devices -> Tokens \cup {None}] /\ access \subseteq Devices
      /\ spent \subseteq Tokens /\ \A t \in spent : t < now
  BY DEF IInv, TypeOK, Past
<1>3. /\ TypeOK' /\ Past' /\ Found' /\ Alone' /\ Gone' /\ One' /\ Fresh'
      /\ \A v \in Workers \ {w} : job'[v] = job[v]
      /\ \A v \in Workers : (Logging(v)' => v # w /\ Logging(v)) /\ (Rotating(v)' => v # w /\ Rotating(v))
  BY <1>1, <1>2, Commits
<1>4. \A id \in Rows' : session'[id] = None \/ (id \in Rows /\ session'[id] = session[id])
  <2>1. CASE Kept(w)
    BY <2>1 DEF Kept, Rows
  <2>2. CASE \E key \in Nat : Wrote(w, key, None)
    BY <2>2 DEF Wrote
  <2> QED BY <2>1, <2>2
<1>5. ASSUME ~raced' PROVE Newest' /\ \A v \in Workers : LoginSound(v)' /\ RefreshSound(v)'
  <2>0. Newest /\ \A v \in Workers : LoginSound(v) /\ RefreshSound(v)
    BY <1>5 DEF IInv, Ordered, Kept, Wrote
  <2>1. Newest'
    BY <1>4, <2>0 DEF Newest
  <2>2. ASSUME NEW v \in Workers, Rotating(v)' PROVE RefreshSound(v)'
    <3>1. Rotating(v) /\ job'[v] = job[v]
      BY <1>3, <2>2
    <3> QED BY <1>4, <2>0, <2>2, <3>1 DEF RefreshSound, Rotating
  <2>3. ASSUME NEW v \in Workers, Logging(v)' PROVE LoginSound(v)'
    <3>1. Logging(v) /\ job'[v] = job[v] /\ (job[v].row # 0 => job[v].row \in Rows /\ job[v].row \in Rows')
      BY <1>3, <2>3 DEF IInv, Found
    <3>2. \A id \in Rows' \ {job[v].row} : session'[id] = None
      BY <1>4, <2>0, <3>1 DEF LoginSound
    <3>3. job[v].row = 0 => spent = {} /\ (\A d \in Devices : held[d] = None) /\ \A u \in Workers : ~Rotating(u)'
      BY <1>3, <2>0, <3>1 DEF LoginSound
    <3>4. CASE job[v].row # 0
      <4>1. session'[job[v].row] = None \/ session'[job[v].row] = session[job[v].row]
        BY <1>4, <3>1, <3>4
      <4>2. session'[job[v].row] # None => job[v].was # None /\ job[v].was <= session'[job[v].row]
        BY <2>0, <3>1, <3>4, <4>1 DEF LoginSound
      <4>3. \A u \in Workers : Rotating(u)' => Rotating(u) /\ job'[u] = job[u] /\ job[u].row = job[v].row
        BY <1>3, <2>0, <3>1, <3>4 DEF LoginSound
      <4>4. session'[job[v].row] = job[v].was => session[job[v].row] = job[v].was
        BY <2>0, <3>1, <3>4, <4>1 DEF LoginSound
      <4> QED BY <2>0, <3>1, <3>2, <3>4, <4>2, <4>3, <4>4 DEF LoginSound
    <3> QED BY <3>1, <3>2, <3>3, <3>4 DEF LoginSound
  <2> QED BY <2>1, <2>2, <2>3 DEF LoginSound, RefreshSound
<1> QED BY <1>3, <1>5 DEF IInv, Ordered

LEMMA LogoutStep ==
    ASSUME IInv, NEW w \in Workers, CommitLogout(w) \/ CommitPush(w)
    PROVE  IInv'
<1>1. /\ job[w].pc = "commit" /\ job' = [job EXCEPT ![w] = Idle] /\ Stored(job[w])
      /\ UNCHANGED <<now, held, access, closed, devUsed, spent>>
      /\ Store(job[w], None) \/ (job[w].row # 0 /\ UNCHANGED <<session, lastRow, raced>>)
  BY DEF CommitLogout, CommitPush, AtCommit
<1>2. Kept(w) \/ \E key \in Nat : Wrote(w, key, None)
  <2>1. CASE Store(job[w], None)
    BY <1>1, <2>1, Stores
  <2>2. CASE job[w].row # 0 /\ UNCHANGED <<session, lastRow, raced>>
    BY <1>1, <2>2 DEF Stored, Kept
  <2> QED BY <1>1, <2>1, <2>2
<1> QED BY <1>1, <1>2, BlankStep

\* The answer carries a token that is written, or was there already.
LEMMA Answers ==
    ASSUME IInv, NEW w \in Workers, job[w].pc = "commit", NEW token \in Tokens, Answer(job[w].dev, token)
    PROVE  /\ held' \in [Devices -> Tokens \cup {None}] /\ access' \subseteq Devices
           /\ \A d \in Devices : held'[d] = token \/ held'[d] = held[d]
<1>1. job[w] \in Requests /\ held \in [Devices -> Tokens \cup {None}] /\ access \subseteq Devices
  BY DEF IInv, TypeOK, Idle
<1>2. job[w].dev \in Devices
  BY <1>1 DEF Requests
<1> QED BY <1>1, <1>2 DEF Answer

LEMMA LoginStep ==
    ASSUME IInv, NEW w \in Workers, CommitLogin(w)
    PROVE  IInv'
<1> DEFINE token == job[w].token
<1>1. /\ job[w].pc = "commit" /\ Logging(w) /\ job' = [job EXCEPT ![w] = Idle]
      /\ Stored(job[w]) /\ Store(job[w], token) /\ Answer(job[w].dev, token)
      /\ UNCHANGED <<now, closed, devUsed, spent>>
  BY DEF CommitLogin, AtCommit, Logging
<1>2. token \in Tokens /\ token <= now /\ token # None /\ ~closed
  BY <1>1, SessionsAssumption DEF IInv, Past, Found, Tokens
<1> HIDE DEF token
<1>3. (Kept(w) /\ token = job[w].was) \/ \E key \in Nat : Wrote(w, key, token)
  BY <1>1, <1>2, Stores
<1>4. /\ held' \in [Devices -> Tokens \cup {None}] /\ access' \subseteq Devices
      /\ \A d \in Devices : held'[d] = token \/ held'[d] = held[d]
  BY <1>1, <1>2, Answers
<1>5. /\ \A d \in Devices : held'[d] # None => held'[d] <= now
      /\ spent' \subseteq Tokens /\ \A t \in spent' : t < now
  BY <1>1, <1>2, <1>4 DEF IInv, TypeOK, Past
<1>6. /\ TypeOK' /\ Past' /\ Found' /\ Alone' /\ Gone' /\ One' /\ Fresh'
      /\ \A v \in Workers \ {w} : job'[v] = job[v]
      /\ \A v \in Workers : (Logging(v)' => v # w /\ Logging(v)) /\ (Rotating(v)' => v # w /\ Rotating(v))
  BY <1>1, <1>2, <1>3, <1>4, <1>5, Commits
<1>7. ASSUME ~raced' PROVE Newest' /\ \A v \in Workers : LoginSound(v)' /\ RefreshSound(v)'
  <2>0. Newest /\ \A v \in Workers : LoginSound(v) /\ RefreshSound(v)
    BY <1>3, <1>7 DEF IInv, Ordered, Kept, Wrote
  <2>1. \A v \in Workers : ~Logging(v)'
    BY <1>1, <1>6 DEF IInv, Alone
  <2>2. CASE Kept(w) /\ token = job[w].was
    <3>1. /\ job[w].row \in Rows /\ job[w].row # 0 /\ Rows' = Rows /\ session' = session
          /\ \A id \in Rows \ {job[w].row} : session[id] = None
          /\ session[job[w].row] # None => token <= session[job[w].row]
      BY <1>1, <2>0, <2>2 DEF Kept, LoginSound, IInv, TypeOK, Rows
    <3>2. Newest'
      BY <1>1, <1>4, <2>0, <3>1 DEF Newest
    <3>3. ASSUME NEW v \in Workers, Rotating(v)' PROVE RefreshSound(v)'
      BY <1>6, <2>0, <3>1, <3>3 DEF RefreshSound
    <3> QED BY <2>1, <3>2, <3>3 DEF LoginSound, RefreshSound
  <2>3. ASSUME NEW key \in Nat, Wrote(w, key, token) PROVE Newest' /\ \A v \in Workers : RefreshSound(v)'
    <3>1. /\ Rows' = Rows \cup {key} /\ session'[key] = token
          /\ \A id \in Rows \ {key} : session'[id] = session[id]
          /\ job[w].row = 0 => key \notin Rows
          /\ job[w].row # 0 => key = job[w].row /\ key \in Rows /\ session[key] = job[w].was
      BY <1>7, <2>3 DEF Wrote
    <3>2. \A id \in Rows' \ {key} : session'[id] = None
      <4>1. \A id \in Rows : id # 0
        BY DEF IInv, TypeOK
      <4> QED BY <1>1, <2>0, <3>1, <4>1 DEF LoginSound
    <3>3. /\ \A t \in spent : t < token
          /\ \A d \in Devices : held[d] # None => held[d] <= token
          /\ \A v \in Workers : Rotating(v) => job[v].row = key /\ job[v].was <= token
      BY <1>1, <2>0, <3>1 DEF LoginSound, token
    <3>4. token <= token
      BY <1>2 DEF Tokens
    <3>5. Newest'
      BY <1>1, <1>4, <3>1, <3>2, <3>3, <3>4 DEF Newest
    <3>6. ASSUME NEW v \in Workers, Rotating(v)' PROVE RefreshSound(v)'
      BY <1>6, <3>1, <3>2, <3>3, <3>6 DEF RefreshSound
    <3> QED BY <3>5, <3>6 DEF RefreshSound
  <2> QED BY <1>3, <2>1, <2>2, <2>3 DEF LoginSound
<1> QED BY <1>6, <1>7 DEF IInv, Ordered

LEMMA RefreshStep ==
    ASSUME IInv, NEW w \in Workers, CommitRefresh(w)
    PROVE  IInv'
<1> DEFINE was == job[w].was
           row == job[w].row
<1>1. /\ job[w].pc = "commit" /\ job[w].op = "refresh" /\ job' = [job EXCEPT ![w] = Idle]
      /\ Stored(job[w]) /\ UNCHANGED <<now, closed, devUsed>>
  BY DEF CommitRefresh, AtCommit
<1>2. PICK token \in job[w].token..now :
        /\ Store(job[w], token) /\ Answer(job[w].dev, token)
        /\ spent' = spent \cup ({job[w].sent} \ {token})
  BY DEF CommitRefresh
<1>3. Rotating(w) /\ ~closed /\ row # 0 /\ row \in Rows /\ was = job[w].sent /\ was # None
  BY <1>1 DEF Rotating, Stored, IInv, Found, Gone
<1>4. was \in Tokens /\ was <= job[w].token /\ job[w].token \in Tokens
  BY <1>1, <1>3 DEF IInv, TypeOK, Past, Requests, Idle
<1>5. token \in Tokens /\ token <= now /\ token # None /\ was <= token /\ now \in Tokens
  BY <1>2, <1>4, SessionsAssumption DEF IInv, TypeOK, Tokens
<1> HIDE DEF was, row
<1>6. (Kept(w) /\ token = was) \/ \E key \in Nat : Wrote(w, key, token)
  BY <1>1, <1>2, <1>5, Stores DEF was
<1>7. /\ held' \in [Devices -> Tokens \cup {None}] /\ access' \subseteq Devices
      /\ \A d \in Devices : held'[d] = token \/ held'[d] = held[d]
  BY <1>1, <1>2, <1>5, Answers
<1>8. \A d \in Devices : held'[d] # None => held'[d] <= now
  BY <1>5, <1>7 DEF IInv, Past
<1>9. spent' \subseteq spent \cup {was} /\ (token = was => spent' = spent)
  BY <1>2, <1>3
<1>10. spent' \subseteq Tokens /\ \A t \in spent' : t < now
  <2>1. token # was => was < now
    BY <1>4, <1>5 DEF Tokens
  <2> QED BY <1>4, <1>9, <2>1 DEF IInv, TypeOK, Past
<1>11. /\ TypeOK' /\ Past' /\ Found' /\ Alone' /\ Gone' /\ One' /\ Fresh'
       /\ \A v \in Workers \ {w} : job'[v] = job[v]
       /\ \A v \in Workers : (Logging(v)' => v # w /\ Logging(v)) /\ (Rotating(v)' => v # w /\ Rotating(v))
  BY <1>1, <1>3, <1>5, <1>6, <1>7, <1>8, <1>10, Commits
<1>12. ASSUME ~raced' PROVE Newest' /\ \A v \in Workers : LoginSound(v)' /\ RefreshSound(v)'
  <2>0. Newest /\ \A v \in Workers : LoginSound(v) /\ RefreshSound(v)
    BY <1>6, <1>12 DEF IInv, Ordered, Kept, Wrote
  <2>1. \A id \in Rows \ {row} : session[id] = None
    BY <1>3, <2>0 DEF RefreshSound, row
  <2>2. session[row] # None => was <= session[row]
    BY <1>3, <2>0 DEF RefreshSound, row, was
  <2>3. CASE Kept(w) /\ token = was
    <3>1. Rows' = Rows /\ session' = session /\ spent' = spent
      BY <1>9, <2>3 DEF Kept, Rows
    <3>2. Newest'
      BY <1>3, <1>7, <2>0, <2>1, <2>2, <2>3, <3>1 DEF Newest
    <3>3. ASSUME NEW v \in Workers, Rotating(v)' PROVE RefreshSound(v)'
      BY <1>11, <2>0, <3>1, <3>3 DEF RefreshSound
    <3>4. ASSUME NEW v \in Workers, Logging(v)' PROVE LoginSound(v)'
      <4>1. v # w /\ Logging(v) /\ job'[v] = job[v] /\ job[v].row # 0 /\ job[v].row = row
        BY <1>3, <1>11, <2>0, <3>4 DEF LoginSound, row
      <4>2. \A u \in Workers : Rotating(u)' => Rotating(u) /\ job'[u] = job[u]
        BY <1>11
      <4>3. session[row] = job[v].was => was <= job[v].token
        BY <1>3, <2>0, <4>1 DEF LoginSound, was, row
      <4>4. session[row] = job[v].was => \A d \in Devices : held'[d] # None => held'[d] <= job[v].token
        BY <1>7, <2>0, <2>3, <4>1, <4>3 DEF LoginSound
      <4> QED BY <2>0, <3>1, <4>1, <4>2, <4>4 DEF LoginSound
    <3> QED BY <3>2, <3>3, <3>4 DEF LoginSound, RefreshSound
  <2>4. ASSUME NEW key \in Nat, Wrote(w, key, token)
        PROVE  Newest' /\ \A v \in Workers : LoginSound(v)' /\ RefreshSound(v)'
    <3>1. /\ key = row /\ Rows' = Rows /\ session'[row] = token /\ session[row] = was
          /\ \A id \in Rows \ {row} : session'[id] = None
      BY <1>3, <1>12, <2>1, <2>4 DEF Wrote, was, row
    <3>2. /\ \A t \in spent' : t < token
          /\ \A d \in Devices : held'[d] # None => held'[d] <= token
      <4>1. (\A t \in spent : t < was) /\ \A d \in Devices : held[d] # None => held[d] <= was
        BY <1>3, <2>0, <3>1 DEF Newest
      <4>2. \A t \in spent' : t < token
        <5>1. ASSUME NEW t \in spent' PROVE t < token
          <6>1. t \in Tokens /\ (t < was \/ (t = was /\ token # was))
            BY <1>9, <1>10, <4>1
          <6> QED BY <1>4, <1>5, <6>1 DEF Tokens
        <5> QED BY <5>1
      <4>3. \A d \in Devices : held'[d] # None => held'[d] <= token
        <5>1. ASSUME NEW d \in Devices, held'[d] # None PROVE held'[d] <= token
          <6>1. held'[d] \in Tokens /\ (held'[d] = token \/ held'[d] <= was)
            BY <1>7, <4>1, <5>1
          <6> QED BY <1>4, <1>5, <6>1 DEF Tokens
        <5> QED BY <5>1
      <4> QED BY <4>2, <4>3
    <3>3. Newest'
      BY <1>3, <3>1, <3>2 DEF Newest
    <3>4. ASSUME NEW v \in Workers, Rotating(v)' PROVE RefreshSound(v)'
      <4>1. v # w /\ Rotating(v) /\ job'[v] = job[v] /\ job[v].row \in Rows
        BY <1>11, <3>4 DEF Rotating
      <4>2. job[v].row = row /\ job[v].was <= was /\ job[v].was \in Tokens
        <5>1. job[v].row = row
          BY <1>3, <2>0, <3>1, <4>1 DEF RefreshSound
        <5>2. job[v].was \in Tokens
          BY <4>1 DEF Rotating, IInv, TypeOK, Found, Requests, Idle
        <5> QED BY <1>3, <2>0, <3>1, <4>1, <5>1, <5>2 DEF RefreshSound
      <4>3. job[v].was <= token
        BY <1>4, <1>5, <4>2 DEF Tokens
      <4> QED BY <3>1, <4>1, <4>2, <4>3 DEF RefreshSound
    <3>5. ASSUME NEW v \in Workers, Logging(v)' PROVE LoginSound(v)'
      <4>1. v # w /\ Logging(v) /\ job'[v] = job[v] /\ job[v].row # 0 /\ job[v].row = row
        BY <1>3, <1>11, <2>0, <3>5 DEF LoginSound, row
      <4>2. job[v].was # None /\ job[v].was <= was
        BY <1>3, <2>0, <3>1, <4>1 DEF LoginSound
      <4>3. job[v].was \in Tokens
        BY <4>1, <4>2 DEF Logging, IInv, TypeOK, Requests, Idle
      <4>4. job[v].was <= token
        BY <1>4, <1>5, <4>2, <4>3 DEF Tokens
      <4>5. \A u \in Workers : Rotating(u)' => Rotating(u) /\ job'[u] = job[u] /\ job[u].row = row
        BY <1>11, <2>0, <4>1 DEF LoginSound
      <4>6. CASE token # job[v].was
        BY <3>1, <4>1, <4>2, <4>4, <4>5, <4>6 DEF LoginSound
      <4>7. CASE token = job[v].was
        <5>1. was = token
          BY <1>4, <1>5, <4>2, <4>7 DEF Tokens
        <5>2. session[row] = job[v].was /\ spent' = spent
          BY <1>9, <3>1, <4>7, <5>1
        <5>3. /\ \A t \in spent : t < job[v].token
              /\ \A d \in Devices : held[d] # None => held[d] <= job[v].token
              /\ \A u \in Workers : Rotating(u) => job[u].was <= job[v].token
          BY <2>0, <4>1, <5>2 DEF LoginSound
        <5>4. \A d \in Devices : held'[d] # None => held'[d] <= job[v].token
          BY <1>3, <1>7, <5>1, <5>3 DEF was
        <5> QED BY <3>1, <4>1, <4>2, <4>4, <4>5, <5>2, <5>3, <5>4 DEF LoginSound
      <4> QED BY <4>6, <4>7
    <3> QED BY <3>3, <3>4, <3>5 DEF LoginSound, RefreshSound
  <2> QED BY <1>6, <2>3, <2>4
<1> QED BY <1>11, <1>12 DEF IInv, Ordered

LEMMA StepInv == IInv /\ [Next]_vars => IInv'
<1> SUFFICES ASSUME IInv, [Next]_vars PROVE IInv'
  OBVIOUS
<1>1. CASE UNCHANGED vars
  <2>1. UNCHANGED <<session, lastRow, now, held, access, closed, devUsed, spent, raced, job, Rows>>
    BY <1>1 DEF vars, Rows
  <2>2. TypeOK' /\ Past'
    BY <2>1 DEF IInv, TypeOK, Past
  <2>3. Found' /\ Alone' /\ Gone' /\ One' /\ Fresh'
    BY <2>1 DEF IInv, Found, Alone, Gone, One, Unborn, Fresh, Logging, Rotating
  <2>4. Ordered'
    BY <2>1 DEF IInv, Ordered, Newest, LoginSound, RefreshSound, Logging, Rotating
  <2> QED BY <2>2, <2>3, <2>4 DEF IInv
<1> QED BY <1>1, TickStep, DevTokenStep, CloseStep, BeginStep, LoadStep, LoginStep, RefreshStep,
           LogoutStep DEF Next

\* The invariant holds in every state.
LEMMA Invariant == Spec => []IInv
BY InitInv, StepInv, PTL DEF Spec

-----------------------------------------------------------------------------
(* The theorems.                                                           *)

\* Type correctness of the session rows and of each request at each step.
THEOREM TypeCorrect == Spec => []TypeOK
BY Invariant, PTL DEF IInv

\* _save_refresh_token and save_push_token: no two requests insert a row for
\* one open account, although no key of the table forbids it.
THEOREM OneRow == Spec => []OneSession
<1>1. IInv => OneSession
  <2> SUFFICES ASSUME IInv, ~closed, ~devUsed PROVE Cardinality(Rows) <= 1
    BY DEF OneSession
  <2>1. Rows = {} \/ \E id \in Rows : Rows = {id}
    BY DEF IInv, One, Unborn
  <2>2. Cardinality(Rows) = 0 \/ Cardinality(Rows) = 1
    BY <2>1, FS_EmptySet, FS_Singleton
  <2> QED BY <2>2
<1> QED BY <1>1, Invariant, PTL

\* delete_my_account: nothing in flight signs a closed account in again.
THEOREM ClosedForGood == Spec => []ClosedStaysOut
<1>1. IInv => ClosedStaysOut
  BY DEF IInv, Gone, ClosedStaysOut
<1> QED BY <1>1, Invariant, PTL

\* refresh_access_token: what was exchanged is never accepted again, unless a
\* request wrote over a token that it had not seen.
THEOREM RotationHolds == Spec => []NoSpentToken
<1>1. IInv => NoSpentToken
  <2> SUFFICES ASSUME IInv, ~raced, NEW id \in Rows PROVE session[id] \notin spent
    BY DEF NoSpentToken
  <2>1. spent \subseteq Tokens /\ None \notin Tokens
    BY SessionsAssumption DEF IInv, TypeOK, Tokens
  <2>2. session[id] # None => \A t \in spent : t < session[id]
    BY DEF IInv, Ordered, Newest
  <2>3. \A t \in Tokens : ~(t < t)
    BY DEF Tokens
  <2> QED BY <2>1, <2>2, <2>3
<1> QED BY <1>1, Invariant, PTL

\* google_login, microsoft_login and refresh_access_token: no device holds a
\* token newer than the one that is stored, with the same exception.
THEOREM NewestStays == Spec => []SessionIsNewest
<1>1. IInv => SessionIsNewest
  BY DEF IInv, Ordered, Newest, SessionIsNewest
<1> QED BY <1>1, Invariant, PTL

\* logout: only a login gives a row its token back, with the same exception.
THEOREM LogoutStays == Spec => LogoutHoldsUnlessRaced
<1>1. ASSUME IInv, [Next]_vars, NEW id \in Rows, Revived(id), ~raced' PROVE LoginCommits
  <2>1. session'[id] # None /\ session[id] = None /\ session'[id] # session[id] /\ id \in Rows'
    BY <1>1 DEF Revived, Rows
  <2>2. \A d \in Devices : ~CloseAccount(d)
    BY <2>1 DEF CloseAccount, Rows
  <2>3. PICK w \in Workers : CommitLogin(w) \/ CommitRefresh(w) \/ CommitLogout(w) \/ CommitPush(w)
    BY <1>1, <2>1, <2>2 DEF Next, vars, Tick, DevToken, Begin, Load, LoginElsewhere, StaleRow
  <2>4. CASE CommitLogin(w)
    <3>1. job[w].pc = "commit" /\ job[w].op = "login" /\ job' = [job EXCEPT ![w] = Idle]
      BY <2>4 DEF CommitLogin, AtCommit
    <3>2. job'[w] = Idle
      BY <1>1, <3>1 DEF IInv, TypeOK
    <3> QED BY <3>1, <3>2 DEF LoginCommits
  <2>5. CASE CommitRefresh(w)
    <3>1. PICK token \in job[w].token..now : Store(job[w], token)
      BY <2>5 DEF CommitRefresh
    <3>2. job[w].pc = "commit" /\ job[w].op = "refresh" /\ Stored(job[w])
      BY <2>5 DEF CommitRefresh, AtCommit
    <3>3. job[w].token \in Tokens /\ now \in Tokens
      BY <1>1, <3>2 DEF IInv, TypeOK, Past
    <3>4. token \in Tokens
      BY <3>3, SessionsAssumption DEF Tokens
    <3>5. PICK key \in Nat : Wrote(w, key, token)
      BY <1>1, <2>1, <3>1, <3>2, <3>4, Stores DEF Kept
    <3>6. session[key] = job[w].was /\ key = id
      BY <1>1, <2>1, <3>2, <3>5 DEF Wrote, IInv, Found
    <3>7. job[w].was # None
      BY <1>1, <3>2 DEF IInv, Found
    <3> QED BY <2>1, <3>6, <3>7
  <2>6. CASE CommitLogout(w) \/ CommitPush(w)
    <3>1. /\ job[w].pc = "commit" /\ Stored(job[w])
          /\ Store(job[w], None) \/ UNCHANGED <<session, lastRow, raced>>
      BY <2>6 DEF CommitLogout, CommitPush, AtCommit
    <3>2. Kept(w) \/ \E key \in Nat : Wrote(w, key, None)
      BY <1>1, <2>1, <3>1, Stores
    <3> QED BY <1>1, <2>1, <3>2 DEF Kept, Wrote
  <2> QED BY <2>3, <2>4, <2>5, <2>6
<1>2. IInv /\ [Next]_vars => [\A id \in Rows : Revived(id) /\ ~raced' => LoginCommits]_vars
  BY <1>1
<1> QED BY <1>2, Invariant, PTL DEF Spec, LogoutHoldsUnlessRaced
=============================================================================
