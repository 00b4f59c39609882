---------------------------- MODULE Redis_proofs ----------------------------
(***************************************************************************)
(* The two components that share a Redis that may fail: the club chat      *)
(* (ClubChat) and the authentication cache (AuthCache).  They have no      *)
(* state in common and their theorems are independent.                     *)
(*                                                                         *)
(* Chat.  For any members, connections, blocks and messages, and whatever  *)
(* Redis does: a club has the listener its connections need, a message is  *)
(* shown once, it reaches every connection it was published for and every  *)
(* member that none was counted for, and a block keeps it away.            *)
(* The proofs follow a message.  Until it is published nobody carries it;  *)
(* from then on a connection that is due it either has got it or is still  *)
(* before somebody who carries it, and there is one carrier as long as     *)
(* there is one listener and the publishing did not fail half way.         *)
(*                                                                         *)
(* Cache.  For any number of requests in flight, any TTL, any cooldown,    *)
(* and a Redis that fails or not: AuthCache is type correct, and an entry  *)
(* outlives an answered suspension in the known ways only.                 *)
(***************************************************************************)
EXTENDS ClubChat, AuthCache, TLAPS

Holds(s, m) == \E i \in DOMAIN s : s[i] = m

Once(s, m) == \A i, j \in DOMAIN s : s[i] = m /\ s[j] = m => i = j

\* Carrier k may yet call c: its set is still to come, or it is the one that is
\* iterated, or the call is under way.
ToCall(c, k) ==
    \/ seat[c] \in cast[k].left
    \/ seat[c] = cast[k].at /\ seat[c] # Nobody /\ c \notin cast[k].done
    \/ cast[k].calling = c

\* It must call c, because c was in that set when its iteration began.
MustCall(c, k) ==
    \/ seat[c] \in cast[k].left
    \/ seat[c] = cast[k].at /\ c \in cast[k].seen \ cast[k].done
    \/ cast[k].calling = c

-----------------------------------------------------------------------------
(* The invariant.                                                          *)

Before(c) == conn[c].pc \in {"saving", "notifying", "publishing"}

\* Message m has not been published.
Unpublished(m) == sender[m] = Nobody \/ \E c \in Conns : Before(c) /\ conn[c].msg = m

Queued(l, m) == Holds(listener[l].inbox, m)

Single(l, m) == Once(listener[l].inbox, m)

\* A connection's callback is registered from its opening to its closing; one
\* that is new has no listener and got nothing; one that handles a message is
\* that message's sender's.
ConnSound(c) ==
    /\ seat[c] # Nobody <=> conn[c].pc \notin {"new", "closed"}
    /\ conn[c].pc \in {"new", "subscribing"} => listener[c].pc = "none"
    /\ listener[c].pc = "none" => listener[c].inbox = <<>> /\ ~listener[c].on
    /\ conn[c].pc = "new" => \A m \in Messages : got[c][m] = 0
    /\ Before(c) => conn[c].msg \in Messages /\ sender[conn[c].msg] = who[c]

\* No two handlers send the same message.
Alone ==
    \A c, d \in Conns : Before(c) /\ Before(d) /\ conn[c].msg = conn[d].msg => c = d

\* Nobody carries a message before it is published.
UnpublishedSound(m) ==
    Unpublished(m) =>
        /\ \A l \in Conns : ~Queued(l, m)
        /\ \A k \in Carriers : cast[k].msg # m
        /\ \A c \in Conns : got[c][m] = 0
        /\ due[m] = {}
        /\ sender[m] = Nobody => pushed[m] = {} /\ lost[m] = {}

\* A broadcast calls a connection of the set that it iterates, or one that has
\* left it, and that set is not still to come.
CastSound(k) ==
    cast[k] # NoCast =>
        /\ cast[k].calling = Nobody => cast[k].at = Nobody
        /\ cast[k].calling # Nobody =>
             /\ conn[cast[k].calling].pc # "new"
             /\ cast[k].calling \in cast[k].done
             /\ seat[cast[k].calling] \in {cast[k].at, Nobody}
             /\ cast[k].at \notin cast[k].left

\* One listener and one publishing that succeeded or failed outright: a message
\* is in one inbox, once, or in one broadcast, and a connection that it may yet
\* call has not got it.
OneCopy(m) ==
    ~doubled /\ m \notin unsure =>
        /\ \A l, n \in Conns : Queued(l, m) /\ Queued(n, m) => l = n
        /\ \A l \in Conns : Single(l, m)
        /\ \A l \in Conns : Queued(l, m) =>
             /\ \A k \in Carriers : cast[k].msg # m
             /\ \A c \in Conns : got[c][m] = 0
        /\ \A k, n \in Carriers : cast[k].msg = m /\ cast[n].msg = m => k = n
        /\ \A k \in Carriers, c \in Conns :
             cast[k].msg = m /\ ToCall(c, k) => got[c][m] = 0
        /\ \A c \in Conns : got[c][m] <= 1

\* Connection c is still before somebody who carries m.
Waits(c, m) ==
    \/ \E l \in Conns : Queued(l, m)
    \/ \E k \in Carriers : cast[k].msg = m /\ MustCall(c, k)

Reached(c, m) ==
    c \in due[m] /\ m \notin excused =>
        \/ got[c][m] > 0
        \/ conn[c].pc = "closed"
        \/ Blocked(who[c], sender[m])
        \/ Waits(c, m)

\* The members that no connection was counted for were sent a push.
Notified(m) ==
    m \notin excused =>
        \A u \in Reach(sender[m]) \cap phones :
            \/ u \in pushed[m] \cup lost[m]
            \/ \E c \in there[m] : who[c] = u

\* The connections that were counted are due the message or have closed.
Counted(m) ==
    /\ \A c \in there[m] \cup due[m] : conn[c].pc # "new"
    /\ due[m] # {} =>
         /\ Notified(m)
         /\ \A c \in there[m] : conn[c].pc = "closed" \/ c \in due[m]

IInv ==
    /\ TypeOK
    /\ ListenerWhileNeeded
    /\ \A c \in Conns : ConnSound(c)
    /\ \A c \in Conns : conn[c].pc = "publishing" => Notified(conn[c].msg)
    /\ Alone
    /\ \A k \in Carriers : CastSound(k)
    /\ \A m \in Messages : UnpublishedSound(m)
    /\ \A m \in Messages : OneCopy(m)
    /\ \A m \in Messages : Counted(m)
    /\ \A m \in Messages, c \in Conns : Reached(c, m)
    /\ BlockedHearNothing

-----------------------------------------------------------------------------
(* Messages, carriers and inboxes.                                         *)

LEMMA MessageFacts ==
    /\ Messages \subseteq Nat /\ 0 \notin Messages
    /\ \A m \in Messages : m \in 0..MaxMessages
BY ChatAssumption DEF Messages

LEMMA CarrierFacts ==
    /\ \A c \in Conns : <<"sender", c>> \in Carriers /\ <<"listener", c>> \in Carriers
    /\ \A c, d \in Conns : /\ <<"sender", c>> = <<"sender", d>> <=> c = d
                           /\ <<"listener", c>> = <<"listener", d>> <=> c = d
                           /\ <<"sender", c>> # <<"listener", d>>
    /\ \A k \in Carriers : /\ k[1] \in {"sender", "listener"} /\ k[2] \in Conns
                           /\ k = <<k[1], k[2]>>
BY DEF Carriers

\* A carrier either broadcasts nothing, which is no message, or one message.
LEMMA CastKinds ==
    ASSUME NEW b \in {NoCast} \cup Casts
    PROVE  /\ b = NoCast <=> b.msg \notin Messages
           /\ b # NoCast <=> b \in Casts
           /\ NoCast.msg = 0 /\ NoCast # b => b.msg \in Messages
BY MessageFacts DEF NoCast, Casts

LEMMA AppendHolds ==
    ASSUME NEW s \in Seq(Messages), NEW x \in Messages, NEW m
    PROVE  /\ Append(s, x) \in Seq(Messages)
           /\ Holds(Append(s, x), m) <=> Holds(s, m) \/ x = m
           /\ Once(s, m) /\ (x # m \/ ~Holds(s, m)) => Once(Append(s, x), m)
<1>1. Append(s, x) \in Seq(Messages) OBVIOUS
<1>2. /\ DOMAIN s = 1..Len(s) /\ Len(s) \in Nat
      /\ DOMAIN Append(s, x) = 1..(Len(s) + 1)
      /\ \A i \in 1..Len(s) : Append(s, x)[i] = s[i]
      /\ Append(s, x)[Len(s) + 1] = x
  OBVIOUS
<1>3. \A i : i \in 1..(Len(s) + 1) <=> i \in 1..Len(s) \/ i = Len(s) + 1
  BY <1>2
<1>4. Holds(Append(s, x), m) <=> Holds(s, m) \/ x = m
  <2>1. Holds(Append(s, x), m) => Holds(s, m) \/ x = m
    BY <1>2, <1>3 DEF Holds
  <2>2. Holds(s, m) => Holds(Append(s, x), m)
    BY <1>2, <1>3 DEF Holds
  <2>3. x = m => Holds(Append(s, x), m)
    BY <1>2, <1>3 DEF Holds
  <2> QED BY <2>1, <2>2, <2>3
<1>5. Once(s, m) /\ (x # m \/ ~Holds(s, m)) => Once(Append(s, x), m)
  BY <1>2, <1>3 DEF Holds, Once
<1> QED BY <1>1, <1>4, <1>5

LEMMA TailHolds ==
    ASSUME NEW s \in Seq(Messages), s # <<>>, NEW m
    PROVE  /\ Head(s) \in Messages /\ Tail(s) \in Seq(Messages)
           /\ Holds(s, m) <=> Holds(Tail(s), m) \/ Head(s) = m
           /\ Once(s, m) => Once(Tail(s), m)
           /\ Once(s, m) /\ Head(s) = m => ~Holds(Tail(s), m)
<1>1. Head(s) \in Messages /\ Tail(s) \in Seq(Messages) OBVIOUS
<1>2. /\ DOMAIN s = 1..Len(s) /\ Len(s) \in Nat /\ Len(s) > 0
      /\ DOMAIN Tail(s) = 1..(Len(s) - 1)
      /\ \A i \in 1..(Len(s) - 1) : Tail(s)[i] = s[i + 1] /\ i + 1 \in 1..Len(s) /\ i + 1 # 1
      /\ Head(s) = s[1] /\ 1 \in 1..Len(s)
  OBVIOUS
<1>3. \A i \in 1..Len(s) : i = 1 \/ (i - 1 \in 1..(Len(s) - 1) /\ Tail(s)[i - 1] = s[i])
  BY <1>2
<1>4. Holds(s, m) <=> Holds(Tail(s), m) \/ Head(s) = m
  <2>1. Holds(s, m) => Holds(Tail(s), m) \/ Head(s) = m
    BY <1>2, <1>3 DEF Holds
  <2>2. Holds(Tail(s), m) => Holds(s, m)
    BY <1>2 DEF Holds
  <2>3. Head(s) = m => Holds(s, m)
    BY <1>2 DEF Holds
  <2> QED BY <2>1, <2>2, <2>3
<1>5. Once(s, m) => Once(Tail(s), m)
  <2> SUFFICES ASSUME Once(s, m), NEW i \in DOMAIN Tail(s), NEW j \in DOMAIN Tail(s),
                      Tail(s)[i] = m, Tail(s)[j] = m
               PROVE  i = j
    BY DEF Once
  <2>1. i + 1 = j + 1 BY <1>2 DEF Once
  <2> QED BY <2>1, <1>2
<1>6. Once(s, m) /\ Head(s) = m => ~Holds(Tail(s), m)
  BY <1>2 DEF Once, Holds
<1> QED BY <1>1, <1>4, <1>5, <1>6

LEMMA EmptyHolds ==
    ASSUME NEW m
    PROVE  <<>> \in Seq(Messages) /\ ~Holds(<<>>, m) /\ Once(<<>>, m)
BY DEF Holds, Once
-----------------------------------------------------------------------------
(* What a step that brings message m to nobody leaves alone.               *)

LEMMA StillUnpublished ==
    ASSUME NEW m \in Messages, UnpublishedSound(m),
           Unpublished(m)' => Unpublished(m),
           \A l \in Conns : Queued(l, m)' => Queued(l, m),
           \A k \in Carriers : cast'[k].msg = m => cast[k].msg = m,
           \A c \in Conns : got'[c][m] = got[c][m],
           due'[m] = due[m],
           sender'[m] = Nobody =>
             sender[m] = Nobody /\ pushed'[m] = pushed[m] /\ lost'[m] = lost[m]
    PROVE  UnpublishedSound(m)'
BY DEF UnpublishedSound

LEMMA StillOneCopy ==
    ASSUME NEW m \in Messages, OneCopy(m),
           doubled => doubled', unsure \subseteq unsure',
           \A l \in Conns : Queued(l, m)' => Queued(l, m),
           \A l \in Conns : Single(l, m) => Single(l, m)',
           \A k \in Carriers : cast'[k].msg = m => cast[k].msg = m,
           \A c \in Conns : got'[c][m] = got[c][m],
           \A k \in Carriers, c \in Conns :
             cast'[k].msg = m /\ ToCall(c, k)' => ToCall(c, k) \/ got[c][m] = 0
    PROVE  OneCopy(m)'
<1> SUFFICES ASSUME ~doubled', m \notin unsure'
             PROVE  /\ \A l, n \in Conns : Queued(l, m)' /\ Queued(n, m)' => l = n
                    /\ \A l \in Conns : Single(l, m)'
                    /\ \A l \in Conns : Queued(l, m)' =>
                         /\ \A k \in Carriers : cast'[k].msg # m
                         /\ \A c \in Conns : got'[c][m] = 0
                    /\ \A k, n \in Carriers : cast'[k].msg = m /\ cast'[n].msg = m => k = n
                    /\ \A k \in Carriers, c \in Conns :
                         cast'[k].msg = m /\ ToCall(c, k)' => got'[c][m] = 0
                    /\ \A c \in Conns : got'[c][m] <= 1
  BY DEF OneCopy
<1>1. ~doubled /\ m \notin unsure OBVIOUS
<1> QED BY <1>1 DEF OneCopy

LEMMA StillReached ==
    ASSUME NEW m \in Messages, NEW c \in Conns, Reached(c, m),
           got \in [Conns -> [Messages -> Nat]], got' \in [Conns -> [Messages -> Nat]],
           due'[m] = due[m], excused \subseteq excused', sender'[m] = sender[m] \/ due[m] = {},
           got'[c][m] >= got[c][m], who' = who, blocks' = blocks,
           conn[c].pc = "closed" => conn'[c].pc = "closed",
           c \in due[m] /\ Waits(c, m) =>
             \/ Waits(c, m)' \/ got'[c][m] > 0 \/ conn'[c].pc = "closed"
             \/ Blocked(who[c], sender[m]) \/ m \in excused'
    PROVE  Reached(c, m)'
<1> SUFFICES ASSUME c \in due[m], m \notin excused'
             PROVE  \/ got'[c][m] > 0 \/ conn'[c].pc = "closed"
                    \/ Blocked(who[c], sender[m])' \/ Waits(c, m)'
  BY DEF Reached
<1>1. sender'[m] = sender[m] /\ m \notin excused OBVIOUS
<1>2. Blocked(who[c], sender[m])' <=> Blocked(who[c], sender[m])
  BY <1>1 DEF Blocked
<1>3. got[c][m] > 0 => got'[c][m] > 0
  OBVIOUS
<1> QED BY <1>1, <1>2, <1>3 DEF Reached

LEMMA StillNotified ==
    ASSUME NEW m \in Messages, Notified(m), excused \subseteq excused',
           sender'[m] = sender[m], pushed'[m] = pushed[m], lost'[m] = lost[m],
           there'[m] = there[m], who' = who, blocks' = blocks, phones' = phones
    PROVE  Notified(m)'
BY DEF Notified, Reach, Blocked

LEMMA StillCounted ==
    ASSUME NEW m \in Messages, Counted(m), Notified(m) => Notified(m)',
           there'[m] = there[m], due'[m] = due[m], there[m] \cup due[m] \subseteq Conns,
           \A c \in Conns : /\ conn[c].pc # "new" => conn'[c].pc # "new"
                            /\ conn[c].pc = "closed" => conn'[c].pc = "closed"
    PROVE  Counted(m)'
BY DEF Counted

-----------------------------------------------------------------------------
(* Types.                                                                  *)

States == {"new", "subscribing", "open", "saving", "notifying", "publishing", "casting", "closed"}

LEMMA Typed ==
    ASSUME TypeOK
    PROVE  /\ \A c \in Conns :
                /\ who[c] \in Members
                /\ conn[c] \in [pc : States, msg : 0..MaxMessages]
                /\ seat[c] \in Conns \cup {Nobody}
                /\ listener[c] \in Listeners
                /\ cast[<<"sender", c>>] # NoCast <=> conn[c].pc = "casting"
                /\ cast[<<"listener", c>>] # NoCast <=> listener[c].pc = "casting"
           /\ \A k \in Carriers : cast[k] \in {NoCast} \cup Casts
           /\ \A k \in Carriers : cast[k] # NoCast <=>
                IF k[1] = "sender" THEN conn[k[2]].pc = "casting" ELSE listener[k[2]].pc = "casting"
           /\ \A m \in Messages : /\ sender[m] \in Members \cup {Nobody}
                                  /\ there[m] \in SUBSET Conns /\ due[m] \in SUBSET Conns
                                  /\ pushed[m] \in SUBSET Members /\ lost[m] \in SUBSET Members
           /\ \A c \in Conns, m \in Messages : got[c][m] \in Nat
<1>1. \A k \in Carriers : cast[k] # NoCast <=>
        IF k[1] = "sender" THEN conn[k[2]].pc = "casting" ELSE listener[k[2]].pc = "casting"
  <2> TAKE k \in Carriers
  <2>1. k[1] \in {"sender", "listener"} /\ k[2] \in Conns /\ k = <<k[1], k[2]>>
    BY CarrierFacts
  <2>2. CASE k[1] = "sender" BY <2>1, <2>2 DEF TypeOK
  <2>3. CASE k[1] = "listener"
    <3>1. cast[<<"listener", k[2]>>] # NoCast <=> listener[k[2]].pc = "casting"
      BY <2>1 DEF TypeOK
    <3>2. k = <<"listener", k[2]>> /\ k[1] # "sender" BY <2>1, <2>3
    <3> QED BY <3>1, <3>2
  <2> QED BY <2>1, <2>2, <2>3
<1>2. \A c \in Conns : conn[c] \in [pc : States, msg : 0..MaxMessages]
  BY DEF TypeOK, States
<1> QED BY <1>1, <1>2 DEF TypeOK

\* A broadcast that begins is one.
LEMMA BroadcastType ==
    ASSUME TypeOK, NEW m \in Messages
    PROVE  Broadcast(m) \in Casts /\ Broadcast(m) # NoCast /\ Broadcast(m).msg = m
<1>1. {seat[c] : c \in Seated} \subseteq Conns
  BY Typed DEF Seated
<1>2. Broadcast(m) \in Casts /\ Broadcast(m).msg = m
  BY <1>1 DEF Broadcast, Casts
<1>3. NoCast.msg = 0 BY DEF NoCast
<1> QED BY <1>2, <1>3, MessageFacts

\* The set that a callback joins is one that is there, or its own.
LEMMA SeatType ==
    ASSUME TypeOK, NEW c \in Conns
    PROVE  /\ Seat(c) \in [Conns -> Conns \cup {Nobody}]
           /\ Seat(c)[c] \in Conns
           /\ \A d \in Conns \ {c} : Seat(c)[d] = seat[d]
<1> DEFINE mates == {seat[d] : d \in {x \in Seated : who[x] = who[c]}}
           new == IF mates = {} THEN c ELSE CHOOSE f \in mates : TRUE
<1>1. mates \subseteq Conns
  BY Typed DEF Seated
<1>2. mates # {} => (CHOOSE f \in mates : TRUE) \in mates
  OBVIOUS
<1>3. new \in Conns
  BY <1>1, <1>2
<1>4. Seat(c) = [seat EXCEPT ![c] = new]
  BY DEF Seat
<1> HIDE DEF new
<1>5. seat \in [Conns -> Conns \cup {Nobody}] BY DEF TypeOK
<1> QED BY <1>3, <1>4, <1>5

\* The next call of a broadcast is of the same message and goes to a connection
\* that is registered and has not been called.
LEMMA CallsAre ==
    ASSUME TypeOK, NEW b \in Casts, NEW next \in Calls(b)
    PROVE  /\ next \in Casts /\ next.msg = b.msg
           /\ next.calling \in Seated \ {Nobody} /\ next.calling \in next.done
           /\ seat[next.calling] = next.at
           /\ \/ /\ next.at = b.at /\ next.left = b.left /\ next.seen = b.seen
                 /\ next.done = b.done \cup {next.calling} /\ next.calling \notin b.done
              \/ /\ SetDone(b) /\ next.at \in b.left
                 /\ next.left = b.left \ {next.at} /\ next.seen = Live(next.at)
                 /\ next.done = {next.calling}
<1>1. Seated \subseteq Conns /\ \A c \in Seated : seat[c] \in Conns /\ c # Nobody
  BY Typed, ChatAssumption DEF Seated
<1>2. \A f : Live(f) \subseteq Seated /\ \A c \in Live(f) : seat[c] = f
  BY DEF Live
<1>3. /\ b.msg \in Messages /\ b.left \in SUBSET Conns /\ b.at \in Conns \cup {Nobody}
      /\ b.seen \in SUBSET Conns /\ b.done \in SUBSET Conns /\ b.calling \in Conns \cup {Nobody}
      /\ b = [msg |-> b.msg, left |-> b.left, at |-> b.at, seen |-> b.seen,
              done |-> b.done, calling |-> b.calling]
  BY DEF Casts
<1>4. CASE \E c \in Live(b.at) \ b.done : next = [b EXCEPT !.done = @ \cup {c}, !.calling = c]
  <2>1. PICK c \in Live(b.at) \ b.done : next = [b EXCEPT !.done = @ \cup {c}, !.calling = c]
    BY <1>4
  <2>2. next = [msg |-> b.msg, left |-> b.left, at |-> b.at, seen |-> b.seen,
                done |-> b.done \cup {c}, calling |-> c]
    BY <1>3, <2>1
  <2> QED BY <1>1, <1>2, <1>3, <2>2 DEF Casts
<1>5. CASE \E c \in {d \in Seated : SetDone(b) /\ seat[d] \in b.left} :
             next = [b EXCEPT !.left = @ \ {seat[c]}, !.at = seat[c], !.seen = Live(seat[c]),
                              !.done = {c}, !.calling = c]
  <2>1. PICK c \in {d \in Seated : SetDone(b) /\ seat[d] \in b.left} :
             next = [b EXCEPT !.left = @ \ {seat[c]}, !.at = seat[c], !.seen = Live(seat[c]),
                              !.done = {c}, !.calling = c]
    BY <1>5
  <2>2. next = [msg |-> b.msg, left |-> b.left \ {seat[c]}, at |-> seat[c],
                seen |-> Live(seat[c]), done |-> {c}, calling |-> c]
    BY <1>3, <2>1
  <2>3. c \in Seated /\ SetDone(b) /\ seat[c] \in b.left
    BY <2>1
  <2> QED BY <1>1, <1>2, <1>3, <2>2, <2>3 DEF Casts
<1> QED BY <1>4, <1>5 DEF Calls

\* What the turn of a carrier changes: its own broadcast, and where its handler
\* or its task is when that ends.
Turn(k) ==
    /\ conn' \in [Conns -> [pc : States, msg : 0..MaxMessages]]
    /\ listener' \in [Conns -> Listeners]
    /\ cast' \in [Carriers -> {NoCast} \cup Casts]
    /\ \A c \in Conns :
         /\ cast'[<<"sender", c>>] # NoCast <=> conn'[c].pc = "casting"
         /\ cast'[<<"listener", c>>] # NoCast <=> listener'[c].pc = "casting"
    /\ \A n \in Carriers \ {k} : cast'[n] = cast[n]
    /\ cast'[k] # NoCast => cast'[k] \in Calls(cast[k])
    /\ cast'[k] = NoCast =>
         \/ SetChanged(cast[k])
         \/ SetDone(cast[k]) /\ \A f \in cast[k].left : Live(f) = {}
    /\ \A c \in Conns :
         /\ conn'[c].msg = conn[c].msg
         /\ \/ conn'[c].pc = conn[c].pc
            \/ conn[c].pc = "casting" /\ conn'[c].pc = "open"
    /\ \A l \in Conns :
         /\ listener'[l].inbox = listener[l].inbox /\ listener'[l].on = listener[l].on
         /\ \/ listener'[l].pc = listener[l].pc
            \/ listener[l].pc = "casting" /\ listener'[l].pc \in {"listening", "sleeping"}

LEMMA GoesOn ==
    ASSUME TypeOK, NEW k \in Carriers, cast[k] # NoCast, GoOn(k, cast[k])
    PROVE  Turn(k)
<1>1. cast[k] \in Casts
  BY Typed, CastKinds
<1>2. /\ conn \in [Conns -> [pc : States, msg : 0..MaxMessages]]
      /\ listener \in [Conns -> Listeners]
      /\ cast \in [Carriers -> {NoCast} \cup Casts]
      /\ \A c \in Conns :
           /\ cast[<<"sender", c>>] # NoCast <=> conn[c].pc = "casting"
           /\ cast[<<"listener", c>>] # NoCast <=> listener[c].pc = "casting"
  BY DEF TypeOK, States
<1>3. /\ k[1] \in {"sender", "listener"} /\ k[2] \in Conns /\ k = <<k[1], k[2]>>
      /\ \A c \in Conns : <<"sender", c>> \in Carriers /\ <<"listener", c>> \in Carriers
  BY CarrierFacts
<1>4. CASE \E next \in Calls(cast[k]) :
             cast' = [cast EXCEPT ![k] = next] /\ conn' = conn /\ listener' = listener
  <2>1. PICK next \in Calls(cast[k]) :
             cast' = [cast EXCEPT ![k] = next] /\ conn' = conn /\ listener' = listener
    BY <1>4
  <2>2. next \in Casts /\ next # NoCast
    BY <1>1, <2>1, CallsAre, CastKinds
  <2>3. /\ cast' \in [Carriers -> {NoCast} \cup Casts]
        /\ cast'[k] = next /\ \A n \in Carriers \ {k} : cast'[n] = cast[n]
    BY <1>2, <2>1, <2>2
  <2>4. \A n \in Carriers : cast'[n] # NoCast <=> cast[n] # NoCast
    BY <2>2, <2>3
  <2>5. \A c \in Conns :
          /\ cast'[<<"sender", c>>] # NoCast <=> conn'[c].pc = "casting"
          /\ cast'[<<"listener", c>>] # NoCast <=> listener'[c].pc = "casting"
    BY <1>2, <1>3, <2>1, <2>4
  <2> QED BY <1>2, <2>1, <2>2, <2>3, <2>5 DEF Turn
<1>5. ASSUME NEW well \in BOOLEAN, Finish(k, well),
             SetChanged(cast[k]) \/ (SetDone(cast[k]) /\ \A f \in cast[k].left : Live(f) = {})
      PROVE  Turn(k)
  <2>1. /\ cast' \in [Carriers -> {NoCast} \cup Casts]
        /\ cast'[k] = NoCast /\ \A n \in Carriers \ {k} : cast'[n] = cast[n]
    BY <1>2, <1>5 DEF Finish
  <2>2. CASE k[1] = "sender"
    <3>1. /\ conn' = [conn EXCEPT ![k[2]].pc = "open"] /\ listener' = listener
          /\ k = <<"sender", k[2]>> /\ conn[k[2]].pc = "casting"
      BY <1>2, <1>3, <1>5, <2>2 DEF Finish
    <3>2. conn' \in [Conns -> [pc : States, msg : 0..MaxMessages]]
      BY <1>2, <1>3, <3>1 DEF States
    <3>3. \A c \in Conns :
            /\ conn'[c].msg = conn[c].msg
            /\ conn'[c].pc = IF c = k[2] THEN "open" ELSE conn[c].pc
      BY <1>2, <1>3, <3>1
    <3>4. \A c \in Conns :
            /\ cast'[<<"sender", c>>] # NoCast <=> conn'[c].pc = "casting"
            /\ cast'[<<"listener", c>>] # NoCast <=> listener'[c].pc = "casting"
      <4>1. \A n \in Carriers : cast'[n] # NoCast <=> cast[n] # NoCast /\ n # k
        BY <2>1
      <4>2. \A c \in Conns : (<<"sender", c>> = k <=> c = k[2]) /\ <<"listener", c>> # k
        BY <1>3, <3>1, CarrierFacts
      <4>3. \A c \in Conns : cast'[<<"listener", c>>] # NoCast <=> listener'[c].pc = "casting"
        BY <1>2, <1>3, <3>1, <4>1, <4>2
      <4>4. \A c \in Conns : conn'[c].pc = "casting" <=> conn[c].pc = "casting" /\ c # k[2]
        BY <3>3
      <4>5. \A c \in Conns : cast'[<<"sender", c>>] # NoCast <=> conn'[c].pc = "casting"
        BY <1>2, <1>3, <4>1, <4>2, <4>4
      <4> QED BY <4>3, <4>5
    <3> QED BY <1>2, <1>5, <2>1, <3>1, <3>2, <3>3, <3>4 DEF Turn
  <2>3. CASE k[1] = "listener"
    <3> DEFINE next == IF well THEN "listening" ELSE "sleeping"
    <3>1. /\ listener' = [listener EXCEPT ![k[2]].pc = next] /\ conn' = conn
          /\ k = <<"listener", k[2]>> /\ listener[k[2]].pc = "casting"
      BY <1>2, <1>3, <1>5, <2>3 DEF Finish
    <3>2. next \in {"listening", "sleeping"}
      OBVIOUS
    <3> HIDE DEF next
    <3>3. listener' \in [Conns -> Listeners]
      <4>1. k[2] \in Conns /\ listener[k[2]] \in Listeners
        BY <1>2, <1>3
      <4>2. [listener[k[2]] EXCEPT !.pc = next] \in Listeners
        BY <3>2, <4>1 DEF Listeners
      <4> QED BY <1>2, <3>1, <4>1, <4>2
    <3>4. \A l \in Conns :
            /\ listener'[l].inbox = listener[l].inbox /\ listener'[l].on = listener[l].on
            /\ listener'[l].pc = IF l = k[2] THEN next ELSE listener[l].pc
      BY <1>2, <1>3, <3>1 DEF Listeners
    <3>5. \A c \in Conns :
            /\ cast'[<<"sender", c>>] # NoCast <=> conn'[c].pc = "casting"
            /\ cast'[<<"listener", c>>] # NoCast <=> listener'[c].pc = "casting"
      <4>1. \A n \in Carriers : cast'[n] # NoCast <=> cast[n] # NoCast /\ n # k
        BY <2>1
      <4>2. \A c \in Conns : (<<"listener", c>> = k <=> c = k[2]) /\ <<"sender", c>> # k
        BY <1>3, <3>1, CarrierFacts
      <4>3. \A c \in Conns : listener'[c].pc = "casting" <=> listener[c].pc = "casting" /\ c # k[2]
        BY <3>2, <3>4
      <4>4. \A c \in Conns : cast'[<<"listener", c>>] # NoCast <=> listener'[c].pc = "casting"
        BY <1>2, <1>3, <4>1, <4>2, <4>3
      <4>5. \A c \in Conns : cast'[<<"sender", c>>] # NoCast <=> conn'[c].pc = "casting"
        BY <1>2, <1>3, <3>1, <4>1, <4>2
      <4> QED BY <4>4, <4>5
    <3> QED BY <1>2, <1>5, <2>1, <3>1, <3>2, <3>3, <3>4, <3>5 DEF Turn
  <2> QED BY <1>3, <2>2, <2>3
<1>6. \/ SetChanged(cast[k]) /\ Finish(k, FALSE)
      \/ SetDone(cast[k]) /\ (\A f \in cast[k].left : Live(f) = {}) /\ Finish(k, TRUE)
      \/ \E next \in Calls(cast[k]) :
           cast' = [cast EXCEPT ![k] = next] /\ conn' = conn /\ listener' = listener
  BY DEF GoOn
<1>7. TRUE \in BOOLEAN /\ FALSE \in BOOLEAN OBVIOUS
<1>8. CASE SetChanged(cast[k]) /\ Finish(k, FALSE)
  BY <1>5, <1>7, <1>8
<1>9. CASE SetDone(cast[k]) /\ (\A f \in cast[k].left : Live(f) = {}) /\ Finish(k, TRUE)
  BY <1>5, <1>7, <1>9
<1> QED BY <1>4, <1>6, <1>8, <1>9

-----------------------------------------------------------------------------
(* What a step of a handler that carries nothing leaves as it was.         *)

LEMMA SameQueued ==
    ASSUME NEW m, NEW l, listener'[l].inbox = listener[l].inbox
    PROVE  /\ Queued(l, m)' <=> Queued(l, m)
           /\ Single(l, m)' <=> Single(l, m)
BY DEF Queued, Single, Holds, Once

LEMMA SameCalls ==
    ASSUME NEW c, NEW k, seat'[c] = seat[c], cast'[k] = cast[k]
    PROVE  /\ ToCall(c, k)' <=> ToCall(c, k)
           /\ MustCall(c, k)' <=> MustCall(c, k)
BY DEF ToCall, MustCall

LEMMA SameWaits ==
    ASSUME NEW c \in Conns, NEW m \in Messages, seat'[c] = seat[c], cast' = cast,
           \A l \in Conns : listener'[l].inbox = listener[l].inbox
    PROVE  Waits(c, m)' <=> Waits(c, m)
<1>1. \A l \in Conns : Queued(l, m)' <=> Queued(l, m)
  BY SameQueued
<1>2. \A k \in Carriers : MustCall(c, k)' <=> MustCall(c, k)
  BY SameCalls
<1> QED BY <1>1, <1>2 DEF Waits

\* A new connection's callback may join a set; nothing else that a broadcast or
\* an inbox depends on changes.
HandlerOnly(c) ==
    /\ who' = who /\ blocks' = blocks /\ phones' = phones /\ cast' = cast
    /\ got' = got /\ due' = due /\ unsure' = unsure
    /\ doubled => doubled'
    /\ excused \subseteq excused'
    /\ \A l \in Conns : listener'[l].inbox = listener[l].inbox
    /\ \A d \in Conns : seat'[d] = seat[d] \/ (d = c /\ conn[d].pc = "new")
    /\ \A d \in Conns \ {c} : conn'[d] = conn[d]
    /\ conn[c].pc # "closed" /\ conn'[c].pc # "new"
    /\ \A m \in Messages : sender'[m] = sender[m] \/ due[m] = {}

LEMMA HandlerStep ==
    ASSUME IInv, NEW c \in Conns, HandlerOnly(c)
    PROVE  /\ \A m \in Messages : OneCopy(m)'
           /\ \A m \in Messages, d \in Conns : Reached(d, m)'
           /\ \A k \in Carriers : CastSound(k)'
<1>1. /\ \A d \in Conns : conn[d].pc # "new" => seat'[d] = seat[d] /\ conn'[d].pc # "new"
      /\ \A d \in Conns : conn[d].pc = "closed" => conn'[d].pc = "closed"
      /\ \A d \in Conns : seat'[d] = seat[d] \/ conn[d].pc = "new"
  BY DEF HandlerOnly
<1>2. ASSUME NEW m \in Messages
      PROVE  OneCopy(m)'
  <2>1. OneCopy(m) BY DEF IInv
  <2>2. \A l \in Conns : Queued(l, m)' => Queued(l, m)
    BY SameQueued DEF HandlerOnly
  <2>5. \A l \in Conns : Single(l, m) => Single(l, m)'
    BY SameQueued DEF HandlerOnly
  <2>3. ASSUME NEW k \in Carriers, NEW d \in Conns, ToCall(d, k)'
        PROVE  ToCall(d, k) \/ got[d][m] = 0
    <3>1. CASE conn[d].pc = "new"
      BY <3>1 DEF IInv, ConnSound
    <3>2. CASE conn[d].pc # "new"
      BY <1>1, <2>3, <3>2, SameCalls DEF HandlerOnly
    <3> QED BY <3>1, <3>2
  <2>4. /\ doubled => doubled'
        /\ unsure \subseteq unsure'
        /\ \A k \in Carriers : cast'[k].msg = m => cast[k].msg = m
        /\ \A d \in Conns : got'[d][m] = got[d][m]
    BY DEF HandlerOnly
  <2>6. \A k \in Carriers, d \in Conns :
          cast'[k].msg = m /\ ToCall(d, k)' => ToCall(d, k) \/ got[d][m] = 0
    BY <2>3
  <2> QED BY <2>1, <2>2, <2>4, <2>5, <2>6, StillOneCopy
<1>3. ASSUME NEW m \in Messages, NEW d \in Conns
      PROVE  Reached(d, m)'
  <2>1. /\ Reached(d, m) /\ (d \in due[m] => conn[d].pc # "new")
        /\ got \in [Conns -> [Messages -> Nat]]
    BY DEF IInv, TypeOK, Counted
  <2>2. d \in due[m] /\ Waits(d, m) => Waits(d, m)'
    BY <1>1, <2>1, SameWaits DEF HandlerOnly
  <2>3. /\ got' \in [Conns -> [Messages -> Nat]] /\ got'[d][m] >= got[d][m]
        /\ due'[m] = due[m] /\ excused \subseteq excused'
        /\ sender'[m] = sender[m] \/ due[m] = {}
        /\ who' = who /\ blocks' = blocks
    BY <2>1 DEF HandlerOnly
  <2> QED BY <1>1, <2>1, <2>2, <2>3, StillReached
<1>4. ASSUME NEW k \in Carriers
      PROVE  CastSound(k)'
  <2>1. CastSound(k) /\ cast'[k] = cast[k] /\ cast[k] \in {NoCast} \cup Casts
    BY Typed DEF IInv, HandlerOnly
  <2>2. cast[k] # NoCast /\ cast[k].calling # Nobody => cast[k].calling \in Conns
    BY <2>1 DEF Casts
  <2> QED BY <1>1, <2>1, <2>2 DEF CastSound
<1> QED BY <1>2, <1>3, <1>4

\* No message is sent, published or pushed, lost, though one may be given up.
RecordSame ==
    /\ who' = who /\ blocks' = blocks /\ phones' = phones
    /\ sender' = sender /\ there' = there /\ due' = due /\ pushed' = pushed /\ lost' = lost
    /\ excused \subseteq excused'
    /\ \A d \in Conns :
         /\ Before(d)' => Before(d) /\ conn'[d].msg = conn[d].msg
         /\ conn'[d].pc = "publishing" => conn[d].pc = "publishing"
         /\ conn[d].pc # "new" => conn'[d].pc # "new"
         /\ conn[d].pc = "closed" => conn'[d].pc = "closed"

LEMMA RecordStep ==
    ASSUME IInv, RecordSame
    PROVE  /\ Alone'
           /\ \A d \in Conns : conn'[d].pc = "publishing" => Notified(conn[d].msg)'
           /\ \A m \in Messages : Counted(m)'
           /\ \A m \in Messages : Unpublished(m)' => Unpublished(m)
           /\ \A d \in Conns : Before(d)' =>
                conn'[d].msg \in Messages /\ sender'[conn'[d].msg] = who'[d]
<1>1. Alone'
  BY DEF IInv, Alone, RecordSame
<1>2. \A m \in Messages : Notified(m) => Notified(m)'
  BY StillNotified DEF RecordSame
<1>3. ASSUME NEW d \in Conns, conn'[d].pc = "publishing"
      PROVE  Notified(conn[d].msg)'
  <2>1. Before(d)' BY <1>3 DEF Before
  <2>2. Before(d) /\ conn'[d].msg = conn[d].msg /\ conn[d].pc = "publishing"
    BY <1>3, <2>1 DEF RecordSame
  <2>3. conn[d].msg \in Messages /\ Notified(conn[d].msg)
    BY <2>2 DEF IInv, ConnSound
  <2>4. PICK m \in Messages : m = conn[d].msg
    BY <2>3
  <2>5. Notified(m)' BY <1>2, <2>3, <2>4
  <2>6. m = conn'[d].msg BY <2>2, <2>4
  <2> QED BY <2>5, <2>6 DEF Notified
<1>4. ASSUME NEW m \in Messages
      PROVE  Counted(m)'
  <2>1. Counted(m) /\ there[m] \cup due[m] \subseteq Conns
    BY Typed DEF IInv
  <2>2. /\ there'[m] = there[m] /\ due'[m] = due[m]
        /\ \A c \in Conns : /\ conn[c].pc # "new" => conn'[c].pc # "new"
                            /\ conn[c].pc = "closed" => conn'[c].pc = "closed"
    BY DEF RecordSame
  <2> QED BY <1>2, <2>1, <2>2, StillCounted
<1>5. \A m \in Messages : Unpublished(m)' => Unpublished(m)
  BY DEF Unpublished, RecordSame
<1>6. \A d \in Conns : Before(d)' =>
        conn'[d].msg \in Messages /\ sender'[conn'[d].msg] = who'[d]
  BY DEF IInv, ConnSound, RecordSame
<1> QED BY <1>1, <1>3, <1>4, <1>5, <1>6

\* Nor does one reach anybody new.
LEMMA NothingCarried ==
    ASSUME IInv, RecordSame, got' = got,
           \A m \in Messages, l \in Conns : Queued(l, m)' => Queued(l, m),
           \A m \in Messages, k \in Carriers :
             cast'[k].msg = m => cast[k].msg = m \/ \E l \in Conns : Queued(l, m)
    PROVE  /\ \A m \in Messages : UnpublishedSound(m)'
           /\ BlockedHearNothing'
<1>1. ASSUME NEW m \in Messages
      PROVE  UnpublishedSound(m)'
  <2>1. UnpublishedSound(m) /\ (Unpublished(m)' => Unpublished(m))
    BY RecordStep DEF IInv
  <2> QED BY <2>1 DEF UnpublishedSound, RecordSame
<1>2. BlockedHearNothing'
  BY DEF IInv, BlockedHearNothing, Blocked, RecordSame
<1> QED BY <1>1, <1>2

-----------------------------------------------------------------------------
(* The steps of a handler.                                                 *)

LEMMA ArriveStep ==
    ASSUME IInv, NEW c \in Conns, Arrive(c)
    PROVE  IInv'
<1>1. /\ conn[c].pc = "new" /\ seat' = Seat(c)
      /\ UNCHANGED <<redis, who, blocks, phones, listener, registered, cast, sender, there,
                     due, pushed, lost, got, failed, doubled, unsure, excused, faults>>
  BY DEF Arrive, facts, record, past
<1>2. PICK next \in {"subscribing", "open"} :
        /\ conn' = [conn EXCEPT ![c].pc = next]
        /\ next = "subscribing" \/ ~redis \/ registered # Nobody
  <2>1. CASE redis /\ registered = Nobody
    BY <2>1 DEF Arrive
  <2>2. CASE ~(redis /\ registered = Nobody)
    BY <2>2 DEF Arrive
  <2> QED BY <2>1, <2>2
<1>3. /\ seat' \in [Conns -> Conns \cup {Nobody}]
      /\ seat'[c] \in Conns
      /\ \A d \in Conns \ {c} : seat'[d] = seat[d]
  BY <1>1, SeatType DEF IInv
<1>4. /\ conn' \in [Conns -> [pc : States, msg : 0..MaxMessages]]
      /\ conn'[c].pc = next
      /\ \A d \in Conns \ {c} : conn'[d] = conn[d]
      /\ \A d \in Conns : conn'[d].msg = conn[d].msg
  BY <1>2 DEF IInv, TypeOK, States
<1>5. TypeOK'
  <2>1. \A d \in Conns : conn'[d].pc = "casting" <=> conn[d].pc = "casting"
    BY <1>1, <1>2, <1>4
  <2> QED BY <1>1, <1>3, <1>4, <2>1 DEF IInv, TypeOK, States
<1>6. HandlerOnly(c)
  BY <1>1, <1>2, <1>3, <1>4 DEF HandlerOnly
<1>7. RecordSame
  BY <1>1, <1>2, <1>4 DEF RecordSame, Before
<1>8. /\ \A m \in Messages : UnpublishedSound(m)'
      /\ BlockedHearNothing'
  <2>1. \A m \in Messages, l \in Conns : Queued(l, m)' => Queued(l, m)
    BY <1>1 DEF Queued
  <2> QED BY <1>1, <1>7, <2>1, NothingCarried
<1>9. ListenerWhileNeeded'
  <2>1. Seated' = Seated \cup {c}
    BY <1>3, ChatAssumption DEF Seated
  <2>2. Tasks' = Tasks
    BY <1>1 DEF Tasks
  <2> QED BY <1>1, <1>2, <1>4, <2>1, <2>2 DEF IInv, ListenerWhileNeeded
<1>10. ASSUME NEW d \in Conns PROVE ConnSound(d)'
  <2>1. ConnSound(d) /\ ConnSound(c)
    BY DEF IInv
  <2>2. d = c => seat'[d] # Nobody
    BY <1>3, ChatAssumption
  <2> QED BY <1>1, <1>2, <1>3, <1>4, <1>7, <2>1, <2>2, RecordStep DEF ConnSound, Before
<1> QED BY <1>5, <1>6, <1>7, <1>8, <1>9, <1>10, HandlerStep, RecordStep DEF IInv

LEMMA SubscribedStep ==
    ASSUME IInv, NEW c \in Conns, Subscribed(c)
    PROVE  IInv'
<1> DEFINE task == [pc |-> "listening", inbox |-> <<>>, on |-> TRUE]
<1>1. /\ conn[c].pc = "subscribing" /\ conn' = [conn EXCEPT ![c].pc = "open"]
      /\ listener' = [listener EXCEPT ![c] = task] /\ registered' = c
      /\ doubled' = (doubled \/ Tasks # {})
      /\ UNCHANGED <<redis, who, blocks, phones, seat, cast, sender, there, due, pushed, lost,
                     got, failed, unsure, excused, faults>>
  BY DEF Subscribed, facts, record
<1>2. /\ conn' \in [Conns -> [pc : States, msg : 0..MaxMessages]]
      /\ conn'[c].pc = "open"
      /\ \A d \in Conns \ {c} : conn'[d] = conn[d]
      /\ \A d \in Conns : conn'[d].msg = conn[d].msg
  BY <1>1 DEF IInv, TypeOK, States
<1>3. task \in Listeners
  BY DEF Listeners
<1>4. /\ listener' \in [Conns -> Listeners]
      /\ listener'[c] = task
      /\ \A l \in Conns \ {c} : listener'[l] = listener[l]
  BY <1>1, <1>3 DEF IInv, TypeOK
<1>5. listener[c].pc = "none" /\ listener[c].inbox = <<>>
  BY <1>1 DEF IInv, ConnSound
<1>6. \A l \in Conns : listener'[l].inbox = listener[l].inbox
  BY <1>4, <1>5
<1>7. TypeOK'
  <2>1. \A d \in Conns : /\ conn'[d].pc = "casting" <=> conn[d].pc = "casting"
                         /\ listener'[d].pc = "casting" <=> listener[d].pc = "casting"
    BY <1>1, <1>2, <1>4, <1>5
  <2>2. doubled' \in BOOLEAN
    BY <1>1
  <2> QED BY <1>1, <1>2, <1>4, <2>1, <2>2 DEF IInv, TypeOK, States
<1>8. HandlerOnly(c)
  BY <1>1, <1>2, <1>6 DEF HandlerOnly
<1>9. RecordSame
  BY <1>1, <1>2 DEF RecordSame, Before
<1>10. /\ \A m \in Messages : UnpublishedSound(m)'
       /\ BlockedHearNothing'
  <2>1. \A m \in Messages, l \in Conns : Queued(l, m)' => Queued(l, m)
    BY <1>6 DEF Queued
  <2> QED BY <1>1, <1>9, <2>1, NothingCarried
<1>11. ListenerWhileNeeded'
  <2>1. Seated' = Seated /\ c \in Seated
    BY <1>1 DEF Seated, IInv, ConnSound
  <2>2. Tasks' = Tasks \cup {c}
    BY <1>4 DEF Tasks
  <2>3. Tasks' \subseteq {registered'} \/ doubled'
    BY <1>1, <2>2
  <2>4. registered' # Nobody /\ registered' \in Tasks'
    BY <1>1, <2>2, ChatAssumption
  <2> QED BY <2>1, <2>3, <2>4 DEF ListenerWhileNeeded
<1>12. ASSUME NEW d \in Conns PROVE ConnSound(d)'
  <2>1. ConnSound(d)
    BY DEF IInv
  <2> QED BY <1>1, <1>2, <1>4, <1>9, <2>1, RecordStep DEF ConnSound, Before
<1> QED BY <1>7, <1>8, <1>9, <1>10, <1>11, <1>12, HandlerStep, RecordStep DEF IInv

LEMMA NotSubscribedStep ==
    ASSUME IInv, NEW c \in Conns, NotSubscribed(c)
    PROVE  IInv'
<1>1. /\ conn[c].pc = "subscribing" /\ conn' = [conn EXCEPT ![c].pc = "open"]
      /\ failed' = failed \cup {c} /\ Fault
      /\ UNCHANGED <<redis, who, blocks, phones, seat, listener, registered, cast, sender,
                     there, due, pushed, lost, got, doubled, unsure, excused>>
  BY DEF NotSubscribed, facts, record, manager
<1>2. /\ conn' \in [Conns -> [pc : States, msg : 0..MaxMessages]]
      /\ conn'[c].pc = "open"
      /\ \A d \in Conns \ {c} : conn'[d] = conn[d]
      /\ \A d \in Conns : conn'[d].msg = conn[d].msg
  BY <1>1 DEF IInv, TypeOK, States
<1>3. TypeOK'
  <2>1. faults' \in 0..MaxFaults
    BY <1>1, ChatAssumption DEF Fault, IInv, TypeOK
  <2> QED BY <1>1, <1>2, <2>1 DEF IInv, TypeOK, States
<1>4. HandlerOnly(c)
  BY <1>1, <1>2 DEF HandlerOnly
<1>5. RecordSame
  BY <1>1, <1>2 DEF RecordSame, Before
<1>6. /\ \A m \in Messages : UnpublishedSound(m)'
      /\ BlockedHearNothing'
  <2>1. \A m \in Messages, l \in Conns : Queued(l, m)' => Queued(l, m)
    BY <1>1 DEF Queued
  <2> QED BY <1>1, <1>5, <2>1, NothingCarried
<1>7. ListenerWhileNeeded'
  <2>1. Seated' = Seated /\ Tasks' = Tasks
    BY <1>1 DEF Seated, Tasks
  <2> QED BY <1>1, <1>2, <2>1 DEF IInv, ListenerWhileNeeded, Seated
<1>8. ASSUME NEW d \in Conns PROVE ConnSound(d)'
  <2>1. ConnSound(d)
    BY DEF IInv
  <2> QED BY <1>1, <1>2, <1>5, <2>1, RecordStep DEF ConnSound, Before
<1> QED BY <1>3, <1>4, <1>5, <1>6, <1>7, <1>8, HandlerStep, RecordStep DEF IInv

LEMMA SaveStep ==
    ASSUME IInv, NEW c \in Conns, Save(c)
    PROVE  IInv'
<1>1. PICK next \in {"notifying", "open"} : conn' = [conn EXCEPT ![c].pc = next]
  BY DEF Save
<1>2. /\ conn[c].pc = "saving"
      /\ UNCHANGED <<redis, who, blocks, phones, seat, listener, registered, cast, sender,
                     there, due, pushed, lost, got, failed, doubled, unsure, excused, faults>>
  BY DEF Save, facts, record, manager, past
<1>3. /\ conn' \in [Conns -> [pc : States, msg : 0..MaxMessages]]
      /\ conn'[c].pc = next
      /\ \A d \in Conns \ {c} : conn'[d] = conn[d]
      /\ \A d \in Conns : conn'[d].msg = conn[d].msg
  BY <1>1 DEF IInv, TypeOK, States
<1>4. TypeOK'
  BY <1>2, <1>3 DEF IInv, TypeOK, States
<1>5. HandlerOnly(c)
  BY <1>2, <1>3 DEF HandlerOnly
<1>6. RecordSame
  BY <1>2, <1>3 DEF RecordSame, Before
<1>7. /\ \A m \in Messages : UnpublishedSound(m)'
      /\ BlockedHearNothing'
  <2>1. \A m \in Messages, l \in Conns : Queued(l, m)' => Queued(l, m)
    BY <1>2 DEF Queued
  <2> QED BY <1>2, <1>6, <2>1, NothingCarried
<1>8. ListenerWhileNeeded'
  <2>1. Seated' = Seated /\ Tasks' = Tasks
    BY <1>2 DEF Seated, Tasks
  <2> QED BY <1>2, <1>3, <2>1 DEF IInv, ListenerWhileNeeded, Seated
<1>9. ASSUME NEW d \in Conns PROVE ConnSound(d)'
  <2>1. ConnSound(d)
    BY DEF IInv
  <2> QED BY <1>2, <1>3, <1>6, <2>1, RecordStep DEF ConnSound, Before
<1> QED BY <1>4, <1>5, <1>6, <1>7, <1>8, <1>9, HandlerStep, RecordStep DEF IInv

\* The message that is sent is new: nobody carries it, and no handler sends it.
LEMMA SendStep ==
    ASSUME IInv, NEW c \in Conns, Send(c)
    PROVE  IInv'
<1>1. PICK m \in Messages :
        /\ sender[m] = Nobody
        /\ conn' = [conn EXCEPT ![c] = [pc |-> "saving", msg |-> m]]
        /\ sender' = [sender EXCEPT ![m] = who[c]]
        /\ there' = [there EXCEPT ![m] = Seated]
  <2>1. PICK m \in Messages :
        /\ \A n \in Messages : sender[n] = Nobody <=> n >= m
        /\ conn' = [conn EXCEPT ![c] = [pc |-> "saving", msg |-> m]]
        /\ sender' = [sender EXCEPT ![m] = who[c]]
        /\ there' = [there EXCEPT ![m] = Seated]
    BY DEF Send
  <2>2. sender[m] = Nobody
    BY <2>1, MessageFacts
  <2> QED BY <2>1, <2>2
<1>2. /\ conn[c].pc = "open"
      /\ UNCHANGED <<redis, who, blocks, phones, seat, listener, registered, cast, due,
                     pushed, lost, got, failed, doubled, unsure, excused, faults>>
  BY DEF Send, facts, manager, past
<1>3. /\ conn' \in [Conns -> [pc : States, msg : 0..MaxMessages]]
      /\ conn'[c].pc = "saving" /\ conn'[c].msg = m
      /\ \A d \in Conns \ {c} : conn'[d] = conn[d]
  BY <1>1, MessageFacts DEF IInv, TypeOK, States
<1>4. /\ sender' \in [Messages -> Members \cup {Nobody}] /\ sender'[m] = who[c]
      /\ who[c] \in Members /\ who[c] # Nobody
      /\ \A n \in Messages \ {m} : sender'[n] = sender[n]
  BY <1>1, Typed, ChatAssumption DEF IInv, TypeOK
<1>5. /\ there' \in [Messages -> SUBSET Conns] /\ there'[m] = Seated
      /\ \A n \in Messages \ {m} : there'[n] = there[n]
  BY <1>1 DEF IInv, TypeOK, Seated
<1>6. TypeOK'
  <2>1. \A d \in Conns : conn'[d].pc = "casting" <=> conn[d].pc = "casting"
    BY <1>2, <1>3
  <2> QED BY <1>2, <1>3, <1>4, <1>5, <2>1 DEF IInv, TypeOK, States
<1>7. /\ \A l \in Conns : ~Queued(l, m)
      /\ \A k \in Carriers : cast[k].msg # m
      /\ \A d \in Conns : got[d][m] = 0
      /\ due[m] = {} /\ pushed[m] = {} /\ lost[m] = {}
  BY <1>1 DEF IInv, UnpublishedSound, Unpublished
<1>8. \A d \in Conns : Before(d) => conn[d].msg # m
  <2>1. \A d \in Conns : Before(d) => sender[conn[d].msg] = who[d]
    BY DEF IInv, ConnSound
  <2>2. \A d \in Conns : who[d] # Nobody
    <3>1. who \in [Conns -> Members] BY DEF IInv, TypeOK
    <3>2. Nobody \notin Members BY ChatAssumption
    <3> QED BY <3>1, <3>2
  <2> QED BY <1>1, <2>1, <2>2
<1>9. HandlerOnly(c)
  BY <1>2, <1>3, <1>4, <1>7 DEF HandlerOnly
<1>10. \A d \in Conns : Before(d)' <=> d = c \/ Before(d)
  BY <1>3 DEF Before
<1>11. Alone'
  BY <1>3, <1>8, <1>10 DEF IInv, Alone
<1>12. \A n \in Messages : n # m => (Notified(n) => Notified(n)')
  BY <1>2, <1>4, <1>5, StillNotified
<1>13. ASSUME NEW d \in Conns, conn'[d].pc = "publishing"
       PROVE  Notified(conn[d].msg)'
  <2>1. d # c /\ conn'[d] = conn[d] BY <1>3, <1>13
  <2>2. Before(d) BY <1>13, <2>1 DEF Before
  <2>3. conn[d].msg \in Messages /\ Notified(conn[d].msg) /\ conn[d].msg # m
    BY <1>8, <1>13, <2>1, <2>2 DEF IInv, ConnSound
  <2>4. PICK n \in Messages : n = conn[d].msg
    BY <2>3
  <2>5. Notified(n)' BY <1>12, <2>3, <2>4
  <2>6. n = conn'[d].msg BY <2>1, <2>4
  <2> QED BY <2>5, <2>6 DEF Notified
<1>14. ASSUME NEW n \in Messages PROVE Counted(n)'
  <2>1. Counted(n) /\ there[n] \cup due[n] \subseteq Conns
    BY Typed DEF IInv
  <2>2. \A d \in Conns : /\ conn[d].pc # "new" => conn'[d].pc # "new"
                         /\ conn[d].pc = "closed" => conn'[d].pc = "closed"
    BY <1>2, <1>3
  <2>3. CASE n = m
    <3>1. \A d \in Seated : d \in Conns /\ conn[d].pc # "new"
      BY DEF Seated, IInv, ConnSound
    <3>2. due'[n] = {} BY <1>2, <1>7, <2>3
    <3> QED BY <1>5, <2>2, <2>3, <3>1, <3>2 DEF Counted
  <2>4. CASE n # m
    <3>1. there'[n] = there[n] /\ due'[n] = due[n]
      BY <1>2, <1>5, <2>4
    <3> QED BY <1>12, <2>1, <2>2, <2>4, <3>1, StillCounted
  <2> QED BY <2>3, <2>4
<1>15. ASSUME NEW n \in Messages PROVE UnpublishedSound(n)'
  <2>1. CASE n = m
    BY <1>2, <1>4, <1>7, <2>1 DEF UnpublishedSound, Queued
  <2>2. CASE n # m
    <3>1. Unpublished(n)' => Unpublished(n)
      BY <1>3, <1>4, <1>10, <2>2 DEF Unpublished
    <3>2. \A l \in Conns : Queued(l, n)' => Queued(l, n)
      BY <1>2 DEF Queued
    <3>3. UnpublishedSound(n) /\ sender'[n] = sender[n]
      BY <1>4, <2>2 DEF IInv
    <3> QED BY <1>2, <3>1, <3>2, <3>3, StillUnpublished
  <2> QED BY <2>1, <2>2
<1>16. BlockedHearNothing'
  BY <1>2, <1>4, <1>7 DEF IInv, BlockedHearNothing, Blocked
<1>17. ListenerWhileNeeded'
  <2>1. Seated' = Seated /\ Tasks' = Tasks
    BY <1>2 DEF Seated, Tasks
  <2> QED BY <1>2, <1>3, <2>1 DEF IInv, ListenerWhileNeeded, Seated
<1>18. ASSUME NEW d \in Conns PROVE ConnSound(d)'
  <2>1. ConnSound(d)
    BY DEF IInv
  <2>2. Before(d) /\ d # c => sender'[conn[d].msg] = sender[conn[d].msg]
    BY <1>4, <1>8, <2>1 DEF ConnSound
  <2> QED BY <1>2, <1>3, <1>4, <1>10, <2>1, <2>2 DEF ConnSound
<1> QED BY <1>6, <1>9, <1>11, <1>13, <1>14, <1>15, <1>16, <1>17, <1>18, HandlerStep DEF IInv

\* Whoever is offline and has a token is sent a push, or the message is excused.
LEMMA NotifyStep ==
    ASSUME IInv, NEW c \in Conns, Notify(c)
    PROVE  IInv'
<1> DEFINE m == conn[c].msg
           called == (Reach(who[c]) \ {who[d] : d \in there[m]}) \cap phones
<1>1. /\ conn[c].pc = "notifying" /\ conn' = [conn EXCEPT ![c].pc = "publishing"]
      /\ UNCHANGED <<redis, who, blocks, phones, seat, listener, registered, cast, sender, there,
                     due, got, failed, doubled, unsure>>
  BY DEF Notify, facts, manager
<1>2. /\ faults' = faults \/ Fault
      /\ \/ /\ \E gone \in SUBSET called :
                  /\ pushed' = [pushed EXCEPT ![m] = called \ gone]
                  /\ lost' = [lost EXCEPT ![m] = gone]
            /\ excused' = excused
         \/ pushed' = pushed /\ lost' = lost /\ excused' = excused \cup {m}
  BY DEF Notify
<1>3. m \in Messages /\ sender[m] = who[c] /\ who[c] \in Members /\ Before(c)
  <2>1. Before(c) BY <1>1 DEF Before
  <2>2. TypeOK BY DEF IInv
  <2> QED BY <2>1, <2>2, Typed DEF IInv, ConnSound
<1>4. /\ conn' \in [Conns -> [pc : States, msg : 0..MaxMessages]]
      /\ conn'[c].pc = "publishing"
      /\ \A d \in Conns \ {c} : conn'[d] = conn[d]
      /\ \A d \in Conns : conn'[d].msg = conn[d].msg
  BY <1>1 DEF IInv, TypeOK, States
<1>5. called \in SUBSET Members
  BY DEF Reach
<1>6. /\ \A n \in Messages \ {m} : pushed'[n] = pushed[n] /\ lost'[n] = lost[n]
      /\ pushed' \in [Messages -> SUBSET Members] /\ lost' \in [Messages -> SUBSET Members]
      /\ excused' \subseteq Messages /\ excused \subseteq excused'
      /\ \/ pushed'[m] \cup lost'[m] = called
         \/ pushed'[m] = pushed[m] /\ lost'[m] = lost[m] /\ m \in excused'
  <2>1. pushed \in [Messages -> SUBSET Members] /\ lost \in [Messages -> SUBSET Members]
        /\ excused \subseteq Messages
    BY DEF IInv, TypeOK
  <2> HIDE DEF called, m
  <2>2. CASE pushed' = pushed /\ lost' = lost /\ excused' = excused \cup {m}
    BY <1>3, <2>1, <2>2
  <2>3. CASE /\ \E gone \in SUBSET called :
                  /\ pushed' = [pushed EXCEPT ![m] = called \ gone]
                  /\ lost' = [lost EXCEPT ![m] = gone]
             /\ excused' = excused
    <3>1. PICK gone \in SUBSET called :
            /\ pushed' = [pushed EXCEPT ![m] = called \ gone]
            /\ lost' = [lost EXCEPT ![m] = gone]
      BY <2>3
    <3>2. pushed'[m] = called \ gone /\ lost'[m] = gone
      BY <1>3, <2>1, <3>1
    <3>3. /\ \A n \in Messages \ {m} : pushed'[n] = pushed[n] /\ lost'[n] = lost[n]
          /\ pushed' \in [Messages -> SUBSET Members] /\ lost' \in [Messages -> SUBSET Members]
      BY <1>3, <1>5, <2>1, <3>1
    <3> QED BY <2>1, <2>3, <3>2, <3>3
  <2> QED BY <1>2, <2>2, <2>3
<1>7. TypeOK'
  <2>1. \A d \in Conns : conn'[d].pc = "casting" <=> conn[d].pc = "casting"
    BY <1>1, <1>4
  <2>2. faults' \in 0..MaxFaults
    BY <1>2, ChatAssumption DEF Fault, IInv, TypeOK
  <2> QED BY <1>1, <1>4, <1>6, <2>1, <2>2 DEF IInv, TypeOK, States
<1>8. HandlerOnly(c)
  BY <1>1, <1>4, <1>6 DEF HandlerOnly
<1>9. \A d \in Conns : Before(d)' <=> Before(d)
  BY <1>1, <1>4 DEF Before
<1>10. Alone'
  BY <1>4, <1>9 DEF IInv, Alone
<1>11. \A d \in Conns : Before(d) /\ d # c => conn[d].msg # m
  BY <1>3 DEF IInv, Alone
<1>12. \A n \in Messages : n # m => (Notified(n) => Notified(n)')
  BY <1>1, <1>6, StillNotified
<1>13. Notified(m)'
  <2>1. SUFFICES ASSUME m \notin excused', NEW u \in Reach(who[c]) \cap phones
                 PROVE  u \in called \/ \E d \in there[m] : who[d] = u
    BY <1>1, <1>3, <1>4, <1>6 DEF Notified, Reach, Blocked
  <2> QED OBVIOUS
<1>14. ASSUME NEW d \in Conns, conn'[d].pc = "publishing"
       PROVE  Notified(conn[d].msg)'
  <2>1. CASE d = c
    BY <1>4, <1>13, <2>1 DEF Notified
  <2>2. CASE d # c
    <3>1. Before(d) /\ conn'[d] = conn[d]
      BY <1>4, <1>14, <2>2 DEF Before
    <3>2. conn[d].msg \in Messages /\ Notified(conn[d].msg) /\ conn[d].msg # m
      BY <1>11, <1>14, <2>2, <3>1 DEF IInv, ConnSound
    <3>3. PICK n \in Messages : n = conn[d].msg
      BY <3>2
    <3>4. Notified(n)' BY <1>12, <3>2, <3>3
    <3>5. n = conn'[d].msg BY <3>1, <3>3
    <3> QED BY <3>4, <3>5 DEF Notified
  <2> QED BY <2>1, <2>2
<1>15. due[m] = {}
  BY <1>3 DEF IInv, UnpublishedSound, Unpublished
<1>16. ASSUME NEW n \in Messages PROVE Counted(n)'
  <2>1. Counted(n) /\ there[n] \cup due[n] \subseteq Conns
    BY Typed DEF IInv
  <2>2. \A d \in Conns : /\ conn[d].pc # "new" => conn'[d].pc # "new"
                         /\ conn[d].pc = "closed" => conn'[d].pc = "closed"
    BY <1>1, <1>4
  <2>3. CASE n = m
    BY <1>1, <1>15, <2>1, <2>2, <2>3 DEF Counted
  <2>4. CASE n # m
    BY <1>1, <1>12, <2>1, <2>2, <2>4, StillCounted
  <2> QED BY <2>3, <2>4
<1>17. ASSUME NEW n \in Messages PROVE UnpublishedSound(n)'
  <2>1. Unpublished(n)' => Unpublished(n)
    BY <1>1, <1>4, <1>9 DEF Unpublished
  <2>2. \A l \in Conns : Queued(l, n)' => Queued(l, n)
    BY <1>1 DEF Queued
  <2>3. UnpublishedSound(n)
    BY DEF IInv
  <2>4. sender'[n] = Nobody =>
          sender[n] = Nobody /\ pushed'[n] = pushed[n] /\ lost'[n] = lost[n]
    BY <1>1, <1>3, <1>6, ChatAssumption
  <2> QED BY <1>1, <2>1, <2>2, <2>3, <2>4, StillUnpublished
<1>18. BlockedHearNothing'
  <2> SUFFICES ASSUME NEW n \in Messages, NEW u \in Members,
                      sender[n] # Nobody, Blocked(u, sender[n])
               PROVE  /\ u \notin pushed'[n] \cup lost'[n]
                      /\ \A d \in Conns : who[d] = u => got[d][n] = 0
    BY <1>1 DEF BlockedHearNothing, Blocked
  <2>1. /\ u \notin pushed[n] \cup lost[n]
        /\ \A d \in Conns : who[d] = u => got[d][n] = 0
    BY DEF IInv, BlockedHearNothing
  <2>2. n = m => u \notin called
    BY <1>3 DEF Reach
  <2> HIDE DEF m, called
  <2> QED BY <1>6, <2>1, <2>2
<1>19. ListenerWhileNeeded'
  <2>1. Seated' = Seated /\ Tasks' = Tasks
    BY <1>1 DEF Seated, Tasks
  <2> QED BY <1>1, <1>4, <2>1 DEF IInv, ListenerWhileNeeded, Seated
<1>20. ASSUME NEW d \in Conns PROVE ConnSound(d)'
  <2>1. ConnSound(d)
    BY DEF IInv
  <2> QED BY <1>1, <1>4, <1>9, <2>1 DEF ConnSound
<1> QED BY <1>7, <1>8, <1>10, <1>14, <1>16, <1>17, <1>18, <1>19, <1>20, HandlerStep DEF IInv

\* Only the connection that leaves stops waiting; the listener goes with the
\* last of them.
LEMMA LeaveStep ==
    ASSUME IInv, NEW c \in Conns, Leave(c)
    PROVE  IInv'
<1>1. /\ conn[c].pc = "open" /\ conn' = [conn EXCEPT ![c].pc = "closed"]
      /\ seat' = [seat EXCEPT ![c] = Nobody]
      /\ UNCHANGED <<redis, who, blocks, phones, sender, there, due, pushed, lost, got,
                     failed, doubled, unsure, excused, faults>>
  BY DEF Leave, facts, record, past
<1>2. TypeOK
  BY DEF IInv
<1>3. /\ conn' \in [Conns -> [pc : States, msg : 0..MaxMessages]]
      /\ conn'[c].pc = "closed"
      /\ \A d \in Conns \ {c} : conn'[d] = conn[d]
      /\ \A d \in Conns : conn'[d].msg = conn[d].msg
      /\ \A d \in Conns : conn'[d].pc = "casting" <=> conn[d].pc = "casting"
  BY <1>1, <1>2 DEF TypeOK, States
<1>4. /\ seat' \in [Conns -> Conns \cup {Nobody}]
      /\ seat'[c] = Nobody
      /\ \A d \in Conns \ {c} : seat'[d] = seat[d]
  BY <1>1, <1>2 DEF TypeOK
<1>5. Seated' = Seated \ {c}
  BY <1>4 DEF Seated
<1>6. RecordSame
  BY <1>1, <1>3 DEF RecordSame, Before
<1>7. ASSUME NEW d \in Conns,
             listener'[d] = listener[d] \/ listener'[d] = NoTask
      PROVE  ConnSound(d)'
  <2>1. ConnSound(d)
    BY DEF IInv
  <2>2. NoTask.pc = "none" /\ NoTask.inbox = <<>> /\ ~NoTask.on
    BY DEF NoTask
  <2> QED BY <1>1, <1>3, <1>4, <1>6, <1>7, <2>1, <2>2, RecordStep DEF ConnSound, Before
<1>8. ASSUME NEW k \in Carriers, cast'[k] = cast[k] \/ cast'[k] = NoCast
      PROVE  /\ CastSound(k)'
             /\ \A m \in Messages, d \in Conns :
                  cast'[k].msg = m /\ ToCall(d, k)' => cast[k].msg = m /\ ToCall(d, k)
  <2>1. CastSound(k) /\ cast[k] \in {NoCast} \cup Casts
    BY <1>2, Typed DEF IInv
  <2>2. cast[k] # NoCast => Nobody \notin cast[k].left
    BY <2>1, ChatAssumption DEF Casts
  <2>3. CASE cast'[k] = NoCast
    BY <2>3, MessageFacts DEF CastSound, NoCast
  <2>4. CASE cast[k] # NoCast /\ cast'[k] = cast[k]
    <3>1. cast[k].calling # Nobody => cast[k].calling \in Conns
      BY <2>1, <2>4 DEF Casts
    <3>2. CastSound(k)'
      BY <1>1, <1>3, <1>4, <2>1, <2>4, <3>1 DEF CastSound
    <3>3. \A d \in Conns : ToCall(d, k)' => ToCall(d, k)
      BY <1>4, <2>2, <2>4 DEF ToCall
    <3> QED BY <2>4, <3>2, <3>3
  <2> QED BY <1>8, <2>3, <2>4
<1>9. CASE StillUsed(c) \/ registered = Nobody
  <2>1. listener' = listener /\ registered' = registered /\ cast' = cast
    BY <1>9 DEF Leave
  <2>2. TypeOK'
    BY <1>1, <1>2, <1>3, <1>4, <2>1 DEF TypeOK, States
  <2>3. /\ \A m \in Messages, l \in Conns : Queued(l, m)' <=> Queued(l, m)
        /\ \A m \in Messages, l \in Conns : Single(l, m)' <=> Single(l, m)
    BY <2>1 DEF Queued, Single
  <2>4. \A m \in Messages : OneCopy(m)'
    <3> TAKE m \in Messages
    <3>1. OneCopy(m) BY DEF IInv
    <3>2. \A k \in Carriers, d \in Conns :
            cast'[k].msg = m /\ ToCall(d, k)' => ToCall(d, k) \/ got[d][m] = 0
      BY <1>8, <2>1
    <3>3. /\ \A l \in Conns : Queued(l, m)' => Queued(l, m)
          /\ \A l \in Conns : Single(l, m) => Single(l, m)'
      BY <2>3
    <3> QED BY <1>1, <2>1, <3>1, <3>2, <3>3, StillOneCopy
  <2>5. \A m \in Messages, d \in Conns : Reached(d, m)'
    <3> TAKE m \in Messages, d \in Conns
    <3>1. Reached(d, m) /\ got \in [Conns -> [Messages -> Nat]]
      BY <1>2 DEF IInv, TypeOK
    <3>2. d # c => (Waits(d, m)' <=> Waits(d, m))
      BY <1>4, <2>1, SameWaits
    <3>3. /\ got' \in [Conns -> [Messages -> Nat]] /\ got'[d][m] >= got[d][m]
          /\ conn[d].pc = "closed" => conn'[d].pc = "closed"
      BY <1>1, <1>3, <3>1
    <3>4. d \in due[m] /\ Waits(d, m) => Waits(d, m)' \/ conn'[d].pc = "closed"
      BY <1>3, <3>2
    <3> QED BY <1>1, <3>1, <3>3, <3>4, StillReached
  <2>6. /\ \A m \in Messages : UnpublishedSound(m)'
        /\ BlockedHearNothing'
    BY <1>1, <1>6, <2>1, <2>3, NothingCarried
  <2>7. ListenerWhileNeeded'
    <3>1. Tasks' = Tasks
      BY <2>1 DEF Tasks
    <3>2. registered # Nobody => Seated' # {}
      BY <1>5, <1>9 DEF StillUsed
    <3>3. \A d \in Seated' : d \in Seated /\ conn'[d].pc = conn[d].pc
      BY <1>3, <1>5 DEF Seated
    <3> QED BY <1>1, <2>1, <3>1, <3>2, <3>3 DEF IInv, ListenerWhileNeeded
  <2>8. \A k \in Carriers : CastSound(k)'
    BY <1>8, <2>1
  <2>9. \A d \in Conns : ConnSound(d)'
    BY <1>7, <2>1
  <2> QED BY <1>6, <2>2, <2>4, <2>5, <2>6, <2>7, <2>8, <2>9, RecordStep DEF IInv
<1>10. CASE ~StillUsed(c) /\ registered # Nobody
  <2>1. /\ listener' = [listener EXCEPT ![registered] = NoTask]
        /\ cast' = [cast EXCEPT ![<<"listener", registered>>] = NoCast]
        /\ registered' = Nobody
    BY <1>10 DEF Leave, Cancelled
  <2>2. registered \in Conns
    BY <1>2, <1>10 DEF TypeOK
  <2>3. /\ listener' \in [Conns -> Listeners]
        /\ listener'[registered] = NoTask
        /\ \A l \in Conns \ {registered} : listener'[l] = listener[l]
    <3>1. NoTask \in Listeners
      BY DEF NoTask, Listeners
    <3> QED BY <1>2, <2>1, <2>2, <3>1 DEF TypeOK
  <2>4. /\ cast' \in [Carriers -> {NoCast} \cup Casts]
        /\ cast'[<<"listener", registered>>] = NoCast
        /\ \A k \in Carriers : k # <<"listener", registered>> => cast'[k] = cast[k]
    <3>1. <<"listener", registered>> \in Carriers
      BY <2>2, CarrierFacts
    <3>2. cast \in [Carriers -> {NoCast} \cup Casts]
      BY <1>2 DEF TypeOK
    <3> QED BY <2>1, <3>1, <3>2
  <2>5. TypeOK'
    <3>1. \A d \in Conns :
            /\ cast'[<<"sender", d>>] # NoCast <=> conn'[d].pc = "casting"
            /\ cast'[<<"listener", d>>] # NoCast <=> listener'[d].pc = "casting"
      <4> TAKE d \in Conns
      <4>1. /\ cast[<<"sender", d>>] # NoCast <=> conn[d].pc = "casting"
            /\ cast[<<"listener", d>>] # NoCast <=> listener[d].pc = "casting"
        BY <1>2, Typed
      <4>2. cast'[<<"sender", d>>] = cast[<<"sender", d>>]
        BY <2>2, <2>4, CarrierFacts
      <4>3. cast'[<<"listener", d>>] =
              IF d = registered THEN NoCast ELSE cast[<<"listener", d>>]
        BY <2>2, <2>4, CarrierFacts
      <4>4. listener'[d].pc = IF d = registered THEN "none" ELSE listener[d].pc
        BY <2>3 DEF NoTask
      <4> QED BY <1>3, <4>1, <4>2, <4>3, <4>4
    <3> QED BY <1>1, <1>2, <1>3, <1>4, <2>1, <2>3, <2>4, <3>1 DEF TypeOK, States
  <2>6. ASSUME NEW m \in Messages, NEW l \in Conns
        PROVE  /\ Queued(l, m)' => Queued(l, m)
               /\ Single(l, m) => Single(l, m)'
    <3>1. CASE l = registered
      BY <2>3, <3>1, EmptyHolds DEF NoTask, Queued, Single
    <3>2. CASE l # registered
      BY <2>3, <3>2 DEF Queued, Single
    <3> QED BY <3>1, <3>2
  <2>7. \A k \in Carriers : cast'[k] = cast[k] \/ cast'[k] = NoCast
    BY <2>4
  <2>8. \A k \in Carriers, m \in Messages : cast'[k].msg = m => cast[k].msg = m
    BY <2>7, MessageFacts DEF NoCast
  <2>9. \A m \in Messages : OneCopy(m)'
    <3> TAKE m \in Messages
    <3>1. OneCopy(m) BY DEF IInv
    <3>2. \A k \in Carriers, d \in Conns :
            cast'[k].msg = m /\ ToCall(d, k)' => ToCall(d, k) \/ got[d][m] = 0
      BY <1>8, <2>7
    <3> QED BY <1>1, <2>6, <2>8, <3>1, <3>2, StillOneCopy
  <2>10. \A m \in Messages, d \in Conns : Reached(d, m)'
    <3> TAKE m \in Messages, d \in Conns
    <3>1. d \in due[m] => conn'[d].pc = "closed"
      <4>1. d \in due[m] /\ d # c => conn[d].pc # "new" /\ seat[d] = Nobody
        BY <1>10 DEF IInv, Counted, StillUsed, Seated
      <4> QED BY <1>3, <4>1 DEF IInv, ConnSound
    <3> QED BY <1>1, <3>1 DEF Reached
  <2>11. /\ \A m \in Messages : UnpublishedSound(m)'
         /\ BlockedHearNothing'
    BY <1>1, <1>6, <2>6, <2>8, NothingCarried
  <2>12. ListenerWhileNeeded'
    <3>1. Tasks' = Tasks \ {registered}
      BY <2>2, <2>3 DEF Tasks, NoTask
    <3>2. Seated' = {}
      BY <1>5, <1>10 DEF StillUsed
    <3> QED BY <1>1, <2>1, <3>1, <3>2 DEF IInv, ListenerWhileNeeded
  <2>13. \A k \in Carriers : CastSound(k)'
    BY <1>8, <2>7
  <2>14. \A d \in Conns : ConnSound(d)'
    BY <1>7, <2>3
  <2> QED BY <1>6, <2>5, <2>9, <2>10, <2>11, <2>12, <2>13, <2>14, RecordStep DEF IInv
<1> QED BY <1>9, <1>10

\* The message is handed to the listeners, or to the handler's own broadcast,
\* or to both; in the last case the answer of Redis was lost.
LEMMA PublishStep ==
    ASSUME IInv, NEW c \in Conns, Publish(c)
    PROVE  IInv'
<1> DEFINE own == <<"sender", c>>
<1>1. TypeOK /\ conn[c].pc = "publishing" /\ Before(c)
  BY DEF IInv, Publish, Before
<1>2. PICK m \in Messages : m = conn[c].msg
  BY <1>1 DEF IInv, ConnSound
<1>3. PICK end \in IF redis THEN AfterPublish ELSE {<<"failed", TRUE>>} :
        /\ listener' = IF end[1] = "failed" THEN listener ELSE Deliver(m)
        /\ unsure' = IF end[1] = "lost_answer" THEN unsure \cup {m} ELSE unsure
        /\ IF redis /\ end[1] # "done" THEN Fault ELSE UNCHANGED faults
        /\ IF end[2]
           THEN /\ cast' = [cast EXCEPT ![own] = Broadcast(m)]
                /\ conn' = [conn EXCEPT ![c].pc = "casting"]
                /\ UNCHANGED excused
           ELSE /\ conn' = [conn EXCEPT ![c].pc = "open"]
                /\ excused' = IF Listening = {} THEN excused \cup {m} ELSE excused
                /\ UNCHANGED cast
  BY <1>2 DEF Publish
<1> end \in {<<"done", FALSE>>, <<"failed", TRUE>>, <<"lost_answer", TRUE>>}
  BY DEF AfterPublish
<1>4. /\ conn[c].pc = "publishing" /\ due' = [due EXCEPT ![m] = Seated]
      /\ UNCHANGED <<redis, who, blocks, phones, seat, registered, sender, there, pushed, lost,
                     got, failed, doubled>>
  BY <1>2 DEF Publish, facts
<1>5. TypeOK
  BY <1>1
<1>6. sender[m] = who[c] /\ Unpublished(m) /\ who[c] # Nobody /\ Notified(m)
  <2>1. sender[m] = who[c] /\ Notified(m)
    BY <1>1, <1>2 DEF IInv, ConnSound
  <2>2. Unpublished(m)
    BY <1>1, <1>2 DEF Unpublished
  <2>3. who[c] # Nobody
    <3>1. who[c] \in Members
      BY <1>1 DEF TypeOK
    <3> QED BY <3>1, ChatAssumption
  <2> QED BY <2>1, <2>2, <2>3
<1>7. /\ \A l \in Conns : ~Queued(l, m)
      /\ \A k \in Carriers : cast[k].msg # m
      /\ \A d \in Conns : got[d][m] = 0
      /\ due[m] = {}
  BY <1>6 DEF IInv, UnpublishedSound
<1>8. /\ own \in Carriers /\ cast[own] = NoCast
      /\ Broadcast(m) \in Casts /\ Broadcast(m) # NoCast /\ Broadcast(m).msg = m
  <2>1. cast[own] = NoCast
    BY <1>4, <1>5, Typed
  <2> QED BY <1>5, <1>6, <2>1, BroadcastType, CarrierFacts
<1>9. /\ due' \in [Messages -> SUBSET Conns] /\ due'[m] = Seated
      /\ \A n \in Messages \ {m} : due'[n] = due[n]
  <2> QED BY <1>4, <1>5, <1>6 DEF TypeOK, Seated
<1> HIDE DEF own
<1>10. PICK next \in {"open", "casting"} :
         /\ conn' = [conn EXCEPT ![c].pc = next]
         /\ IF next = "casting"
            THEN /\ cast' = [cast EXCEPT ![own] = Broadcast(m)]
                 /\ end[1] # "done" /\ excused' = excused
            ELSE /\ cast' = cast /\ end[1] = "done"
                 /\ excused' = IF Listening = {} THEN excused \cup {m} ELSE excused
  <2>1. CASE end = <<"done", FALSE>>
    <3>1. end[1] = "done" /\ ~end[2] BY <2>1
    <3> QED BY <1>3, <3>1
  <2>2. CASE end = <<"failed", TRUE>>
    <3>1. end[1] # "done" /\ end[2] BY <2>2
    <3> QED BY <1>3, <3>1
  <2>3. CASE end = <<"lost_answer", TRUE>>
    <3>1. end[1] # "done" /\ end[2] BY <2>3
    <3> QED BY <1>3, <3>1
  <2> QED BY <2>1, <2>2, <2>3
<1>11. /\ conn' \in [Conns -> [pc : States, msg : 0..MaxMessages]]
       /\ conn'[c].pc = next
       /\ \A d \in Conns \ {c} : conn'[d] = conn[d]
       /\ \A d \in Conns : conn'[d].msg = conn[d].msg
  BY <1>5, <1>10 DEF TypeOK, States
<1>12. /\ cast' \in [Carriers -> {NoCast} \cup Casts]
       /\ cast'[own] = IF next = "casting" THEN Broadcast(m) ELSE NoCast
       /\ \A k \in Carriers : k # own => cast'[k] = cast[k]
  BY <1>5, <1>8, <1>10 DEF TypeOK
<1>13. \A l \in Conns :
         /\ listener[l] \in Listeners
         /\ listener'[l].pc = listener[l].pc /\ listener'[l].on = listener[l].on
         /\ listener'[l].inbox =
              IF end[1] # "failed" /\ l \in Listening
              THEN Append(listener[l].inbox, m) ELSE listener[l].inbox
  <2> TAKE l \in Conns
  <2>1. listener[l] \in Listeners
    BY <1>5, Typed
  <2>2. CASE end[1] = "failed"
    BY <1>3, <2>1, <2>2
  <2>3. CASE end[1] # "failed"
    <3>1. listener'[l] = IF l \in Listening
                         THEN [listener[l] EXCEPT !.inbox = Append(@, m)] ELSE listener[l]
      BY <1>3, <2>3 DEF Deliver
    <3> QED BY <2>1, <2>3, <3>1 DEF Listeners
  <2> QED BY <2>2, <2>3
<1>14. listener' \in [Conns -> Listeners]
  <2>1. \A l \in Conns : Append(listener[l].inbox, m) \in Seq(Messages)
    BY <1>6, <1>13, AppendHolds DEF Listeners
  <2>2. \A l \in Conns : [listener[l] EXCEPT !.inbox = Append(@, m)] \in Listeners
    BY <1>13, <2>1 DEF Listeners
  <2>3. Deliver(m) \in [Conns -> Listeners]
    BY <1>13, <2>2 DEF Deliver
  <2>4. listener \in [Conns -> Listeners]
    BY <1>5 DEF TypeOK
  <2> QED BY <1>3, <2>3, <2>4
<1>15. /\ unsure \subseteq unsure' /\ unsure' \subseteq Messages
       /\ excused \subseteq excused' /\ excused' \subseteq Messages
       /\ end[1] = "lost_answer" => m \in unsure'
  BY <1>3, <1>5, <1>6, <1>10 DEF TypeOK
<1>16. TypeOK'
  <2>1. \A d \in Conns :
          /\ cast'[<<"sender", d>>] # NoCast <=> conn'[d].pc = "casting"
          /\ cast'[<<"listener", d>>] # NoCast <=> listener'[d].pc = "casting"
    <3> TAKE d \in Conns
    <3>1. /\ cast[<<"sender", d>>] # NoCast <=> conn[d].pc = "casting"
          /\ cast[<<"listener", d>>] # NoCast <=> listener[d].pc = "casting"
      BY <1>5, Typed
    <3>2. /\ cast'[<<"listener", d>>] = cast[<<"listener", d>>]
          /\ d # c => cast'[<<"sender", d>>] = cast[<<"sender", d>>]
      BY <1>12, CarrierFacts DEF own
    <3>3. cast'[<<"sender", c>>] # NoCast <=> conn'[c].pc = "casting"
      BY <1>8, <1>11, <1>12 DEF own
    <3> QED BY <1>11, <1>13, <3>1, <3>2, <3>3
  <2>2. faults' \in 0..MaxFaults
    BY <1>3, <1>5, ChatAssumption DEF Fault, TypeOK
  <2> QED BY <1>4, <1>5, <1>9, <1>11, <1>12, <1>14, <1>15, <2>1, <2>2 DEF TypeOK, States
<1>17. ASSUME NEW n \in Messages, NEW l \in Conns
       PROVE  /\ n # m => (Queued(l, n)' <=> Queued(l, n))
              /\ Single(l, n) => Single(l, n)'
              /\ Queued(l, m)' <=> end[1] # "failed" /\ l \in Listening
  <2>1. /\ listener[l].inbox \in Seq(Messages) /\ ~Holds(listener[l].inbox, m)
        /\ Holds(Append(listener[l].inbox, m), m)
    BY <1>6, <1>7, <1>13, AppendHolds DEF Listeners, Queued
  <2>2. /\ n # m => (Holds(Append(listener[l].inbox, m), n) <=> Holds(listener[l].inbox, n))
        /\ Once(listener[l].inbox, n) => Once(Append(listener[l].inbox, m), n)
    BY <1>6, <2>1, AppendHolds
  <2> QED BY <1>13, <2>1, <2>2 DEF Queued, Single
<1>18. \A d \in Conns : Before(d)' <=> Before(d) /\ d # c
  BY <1>11 DEF Before
<1>19. \A d \in Conns : Before(d)' => conn[d].msg # m
  BY <1>1, <1>2, <1>18 DEF IInv, Alone
<1>20. Alone'
  BY <1>11, <1>18 DEF IInv, Alone
<1>21. \A n \in Messages : Notified(n) => Notified(n)'
  BY <1>4, <1>15, StillNotified
<1>22. ASSUME NEW d \in Conns, conn'[d].pc = "publishing"
       PROVE  Notified(conn[d].msg)'
  <2>1. d # c /\ conn'[d] = conn[d]
    BY <1>11, <1>22
  <2>2. conn[d].msg \in Messages /\ Notified(conn[d].msg)
    BY <1>22, <2>1 DEF IInv, ConnSound, Before
  <2>3. PICK n \in Messages : n = conn[d].msg
    BY <2>2
  <2>4. Notified(n)' BY <1>21, <2>2, <2>3
  <2>5. n = conn'[d].msg BY <2>1, <2>3
  <2> QED BY <2>4, <2>5 DEF Notified
<1>23. \A d \in Conns : /\ conn[d].pc # "new" => conn'[d].pc # "new"
                        /\ conn[d].pc = "closed" => conn'[d].pc = "closed"
  BY <1>4, <1>11
<1>24. \A d \in Seated : d \in Conns /\ conn[d].pc # "new"
  BY DEF Seated, IInv, ConnSound
<1>25. ASSUME NEW n \in Messages PROVE Counted(n)'
  <2>1. Counted(n) /\ there[n] \cup due[n] \subseteq Conns
    BY <1>5, Typed DEF IInv
  <2>2. CASE n = m
    <3>1. \A d \in there[n] : conn[d].pc = "closed" \/ d \in Seated
      BY <2>1 DEF Counted, IInv, ConnSound, Seated
    <3>2. Notified(n)'
      BY <1>6, <1>21, <2>2
    <3> QED BY <1>4, <1>9, <1>23, <1>24, <2>1, <2>2, <3>1, <3>2 DEF Counted
  <2>3. CASE n # m
    BY <1>4, <1>9, <1>21, <1>23, <2>1, <2>3, StillCounted
  <2> QED BY <2>2, <2>3
<1>26. ASSUME NEW n \in Messages PROVE UnpublishedSound(n)'
  <2>1. CASE n = m
    <3>1. ~Unpublished(n)'
      BY <1>4, <1>6, <1>11, <1>19, <2>1 DEF Unpublished
    <3> QED BY <3>1 DEF UnpublishedSound
  <2>2. CASE n # m
    <3>1. Unpublished(n)' => Unpublished(n)
      BY <1>4, <1>11, <1>18 DEF Unpublished
    <3>2. \A l \in Conns : Queued(l, n)' => Queued(l, n)
      BY <1>17, <2>2
    <3>3. \A k \in Carriers : cast'[k].msg = n => cast[k].msg = n
      BY <1>8, <1>12, <2>2
    <3>4. UnpublishedSound(n)
      BY DEF IInv
    <3> QED BY <1>4, <1>9, <2>2, <3>1, <3>2, <3>3, <3>4, StillUnpublished
  <2> QED BY <2>1, <2>2
<1>27. BlockedHearNothing'
  BY <1>4 DEF IInv, BlockedHearNothing, Blocked
<1>28. ListenerWhileNeeded'
  <2>1. Seated' = Seated /\ Tasks' = Tasks
    BY <1>4, <1>13 DEF Seated, Tasks
  <2> QED BY <1>4, <1>11, <2>1 DEF IInv, ListenerWhileNeeded, Seated
<1>29. ASSUME NEW d \in Conns PROVE ConnSound(d)'
  <2>1. ConnSound(d)
    BY DEF IInv
  <2>2. listener[d].pc = "none" => listener'[d].inbox = listener[d].inbox
    BY <1>13, <2>1 DEF ConnSound, Listening
  <2> QED BY <1>4, <1>11, <1>13, <1>18, <2>1, <2>2 DEF ConnSound
<1>30. ASSUME NEW k \in Carriers PROVE CastSound(k)'
  <2>1. CASE k = own /\ cast'[k] # NoCast
    <3>1. cast'[k] = Broadcast(m)
      BY <1>12, <2>1
    <3> QED BY <3>1 DEF CastSound, Broadcast
  <2>2. CASE k # own
    <3>1. CastSound(k) /\ cast'[k] = cast[k] /\ cast[k] \in {NoCast} \cup Casts
      BY <1>5, <1>12, <2>2, Typed DEF IInv
    <3>2. cast[k] # NoCast /\ cast[k].calling # Nobody => cast[k].calling \in Conns
      BY <3>1 DEF Casts
    <3> QED BY <1>4, <1>23, <3>1, <3>2 DEF CastSound
  <2>3. CASE cast'[k] = NoCast
    BY <2>3 DEF CastSound
  <2> QED BY <2>1, <2>2, <2>3
<1>31. ASSUME NEW n \in Messages PROVE OneCopy(n)'
  <2>1. CASE n = m
    <3> SUFFICES ASSUME ~doubled, m \notin unsure'
                 PROVE  /\ \A l, o \in Conns : Queued(l, m)' /\ Queued(o, m)' => l = o
                        /\ \A l \in Conns : Single(l, m)'
                        /\ \A l \in Conns : Queued(l, m)' =>
                             /\ \A k \in Carriers : cast'[k].msg # m
                             /\ \A d \in Conns : got[d][m] = 0
                        /\ \A k, o \in Carriers : cast'[k].msg = m /\ cast'[o].msg = m => k = o
                        /\ \A k \in Carriers, d \in Conns :
                             cast'[k].msg = m /\ ToCall(d, k)' => got[d][m] = 0
                        /\ \A d \in Conns : got[d][m] <= 1
      BY <1>4, <2>1 DEF OneCopy
    <3>1. \A l, o \in Listening : l = o
      <4>1. Tasks \subseteq {registered}
        BY DEF IInv, ListenerWhileNeeded
      <4>2. Listening \subseteq Tasks
        BY DEF Listening, Tasks, IInv, ConnSound
      <4> QED BY <4>1, <4>2
    <3>2. \A l, o \in Conns : Queued(l, m)' /\ Queued(o, m)' => l = o
      BY <1>6, <1>17, <3>1
    <3>3. \A l \in Conns : Single(l, m)'
      <4>1. \A l \in Conns : Single(l, m)
        BY <1>7 DEF Queued, Holds, Single, Once
      <4> QED BY <1>6, <1>17, <4>1
    <3>4. end[1] # "failed" => \A k \in Carriers : cast'[k].msg # m
      <4>1. end[1] # "failed" => end[1] = "done"
        <5>1. CASE end = <<"done", FALSE>>
          BY <5>1
        <5>2. CASE end = <<"failed", TRUE>>
          BY <5>2
        <5>3. CASE end = <<"lost_answer", TRUE>>
          BY <1>15, <5>3
        <5> QED BY <5>1, <5>2, <5>3
      <4>2. end[1] = "done" => cast' = cast
        BY <1>10
      <4> QED BY <1>7, <4>1, <4>2
    <3>5. \A k \in Carriers : cast'[k].msg = m => k = own
      BY <1>7, <1>12
    <3>6. \A d \in Conns : got[d][m] <= 1
      BY <1>7
    <3> QED BY <1>6, <1>7, <1>17, <3>2, <3>3, <3>4, <3>5, <3>6
  <2>2. CASE n # m
    <3>1. OneCopy(n) BY DEF IInv
    <3>2. /\ \A l \in Conns : Queued(l, n)' => Queued(l, n)
          /\ \A l \in Conns : Single(l, n) => Single(l, n)'
      BY <1>17, <2>2
    <3>3. \A k \in Carriers : cast'[k].msg = n => k # own /\ cast'[k] = cast[k]
      BY <1>8, <1>12, <2>2, MessageFacts DEF NoCast
    <3>4. \A k \in Carriers, d \in Conns :
            cast'[k].msg = n /\ ToCall(d, k)' => ToCall(d, k) \/ got[d][n] = 0
      BY <1>4, <3>3 DEF ToCall
    <3> QED BY <1>4, <1>15, <3>1, <3>2, <3>3, <3>4, StillOneCopy
  <2> QED BY <2>1, <2>2
<1>32. ASSUME NEW n \in Messages, NEW d \in Conns PROVE Reached(d, n)'
  <2>1. CASE n = m
    <3> SUFFICES ASSUME d \in Seated, m \notin excused'
                 PROVE  Waits(d, m)'
      BY <1>9, <2>1 DEF Reached
    <3>1. CASE next = "casting"
      <4>1. cast'[own] = Broadcast(m) /\ seat'[d] = seat[d]
        BY <1>4, <1>12, <3>1
      <4>2. seat[d] \in Broadcast(m).left
        BY DEF Broadcast
      <4> QED BY <1>8, <4>1, <4>2 DEF Waits, MustCall
    <3>2. CASE next = "open"
      <4>1. Listening # {} /\ end[1] # "failed"
        BY <1>10, <3>2
      <4>2. PICK l \in Conns : l \in Listening
        BY <4>1 DEF Listening
      <4>3. Queued(l, m)'
        BY <1>6, <1>17, <4>1, <4>2
      <4> QED BY <4>3 DEF Waits
    <3> QED BY <3>1, <3>2
  <2>2. CASE n # m
    <3>1. Reached(d, n) /\ got \in [Conns -> [Messages -> Nat]]
      BY <1>5 DEF IInv, TypeOK
    <3>2. \A k \in Carriers : cast[k].msg = n => cast'[k] = cast[k]
      BY <1>8, <1>12, MessageFacts DEF NoCast
    <3>3. \A k \in Carriers : cast[k].msg = n /\ MustCall(d, k) => MustCall(d, k)'
      BY <1>4, <3>2 DEF MustCall
    <3>4. Waits(d, n) => Waits(d, n)'
      BY <1>17, <2>2, <3>2, <3>3 DEF Waits
    <3>5. got' \in [Conns -> [Messages -> Nat]] /\ got'[d][n] >= got[d][n]
      BY <1>4, <3>1
    <3> QED BY <1>4, <1>9, <1>15, <1>23, <2>2, <3>1, <3>4, <3>5, StillReached
  <2> QED BY <2>1, <2>2
<1> QED BY <1>16, <1>20, <1>22, <1>25, <1>26, <1>27, <1>28, <1>29, <1>30, <1>31, <1>32 DEF IInv

-----------------------------------------------------------------------------
(* The steps of a listener.                                                *)

\* The message leaves the inbox for the listener's broadcast, which has all
\* registered connections before it.
LEMMA ListenStep ==
    ASSUME IInv, NEW l \in Conns, Listen(l)
    PROVE  IInv'
<1> DEFINE own == <<"listener", l>>
<1>1. TypeOK /\ listener[l].pc = "listening" /\ listener[l].inbox # <<>>
  BY DEF IInv, Listen
<1>2. /\ listener[l] \in Listeners /\ listener[l].inbox \in Seq(Messages)
      /\ Tail(listener[l].inbox) \in Seq(Messages)
  <2>1. listener[l] \in Listeners
    BY <1>1, Typed
  <2>2. listener[l].inbox \in Seq(Messages)
    BY <2>1 DEF Listeners
  <2> QED BY <1>1, <2>1, <2>2, TailHolds
<1>3. PICK m \in Messages : m = Head(listener[l].inbox)
  BY <1>1, <1>2, TailHolds
<1>4. /\ cast' = [cast EXCEPT ![own] = Broadcast(m)]
      /\ listener' = [listener EXCEPT ![l].pc = "casting", ![l].inbox = Tail(@)]
      /\ UNCHANGED <<redis, who, blocks, phones, conn, seat, registered, sender, there, due,
                     pushed, lost, got, failed, doubled, unsure, excused, faults>>
  BY <1>3 DEF Listen, facts, record, past
<1>5. /\ own \in Carriers /\ cast[own] = NoCast
      /\ Broadcast(m) \in Casts /\ Broadcast(m) # NoCast /\ Broadcast(m).msg = m
  <2>1. cast[own] = NoCast
    BY <1>1, Typed
  <2> QED BY <1>1, <2>1, BroadcastType, CarrierFacts
<1>6. /\ cast' \in [Carriers -> {NoCast} \cup Casts]
      /\ cast'[own] = Broadcast(m)
      /\ \A k \in Carriers : k # own => cast'[k] = cast[k]
  <2> HIDE DEF own
  <2> QED BY <1>1, <1>4, <1>5 DEF TypeOK
<1>7. /\ listener' \in [Conns -> Listeners]
      /\ listener'[l].pc = "casting" /\ listener'[l].inbox = Tail(listener[l].inbox)
      /\ listener'[l].on = listener[l].on
      /\ \A d \in Conns \ {l} : listener'[d] = listener[d]
  BY <1>1, <1>2, <1>4 DEF TypeOK, Listeners
<1>8. TypeOK'
  <2>1. \A d \in Conns :
          /\ cast'[<<"sender", d>>] # NoCast <=> conn'[d].pc = "casting"
          /\ cast'[<<"listener", d>>] # NoCast <=> listener'[d].pc = "casting"
    <3> TAKE d \in Conns
    <3>1. /\ cast[<<"sender", d>>] # NoCast <=> conn[d].pc = "casting"
          /\ cast[<<"listener", d>>] # NoCast <=> listener[d].pc = "casting"
      BY <1>1, Typed
    <3>2. /\ cast'[<<"sender", d>>] = cast[<<"sender", d>>]
          /\ d # l => cast'[<<"listener", d>>] = cast[<<"listener", d>>]
      BY <1>6, CarrierFacts
    <3> QED BY <1>4, <1>5, <1>6, <1>7, <3>1, <3>2
  <2> QED BY <1>1, <1>4, <1>6, <1>7, <2>1 DEF TypeOK
<1> HIDE DEF own
<1>9. RecordSame
  BY <1>4 DEF RecordSame, Before
<1>10. /\ Queued(l, m)
       /\ \A n \in Messages : Queued(l, n) <=> Queued(l, n)' \/ n = m
       /\ \A n \in Messages : Single(l, n) => Single(l, n)'
       /\ Single(l, m) => ~Queued(l, m)'
  BY <1>1, <1>2, <1>3, <1>7, TailHolds DEF Queued, Single
<1>11. \A n \in Messages, d \in Conns :
         d # l => /\ Queued(d, n)' <=> Queued(d, n)
                  /\ Single(d, n)' <=> Single(d, n)
  BY <1>7, SameQueued
<1>12. \A n \in Messages, d \in Conns : Queued(d, n)' => Queued(d, n)
  BY <1>10, <1>11
<1>13. \A n \in Messages, k \in Carriers :
         cast'[k].msg = n => cast[k].msg = n \/ (n = m /\ k = own)
  BY <1>5, <1>6
<1>14. /\ \A n \in Messages : UnpublishedSound(n)'
       /\ BlockedHearNothing'
  BY <1>4, <1>9, <1>10, <1>12, <1>13, NothingCarried
<1>15. ListenerWhileNeeded'
  <2>1. Seated' = Seated /\ Tasks' = Tasks
    BY <1>1, <1>4, <1>7 DEF Seated, Tasks
  <2> QED BY <1>4, <2>1 DEF IInv, ListenerWhileNeeded, Seated
<1>16. ASSUME NEW d \in Conns PROVE ConnSound(d)'
  <2>1. ConnSound(d)
    BY DEF IInv
  <2> QED BY <1>1, <1>4, <1>7, <1>9, <2>1, RecordStep DEF ConnSound, Before
<1>17. ASSUME NEW k \in Carriers PROVE CastSound(k)'
  <2>1. CASE k = own
    BY <1>6, <2>1 DEF CastSound, Broadcast
  <2>2. CASE k # own
    BY <1>4, <1>6, <2>2 DEF IInv, CastSound
  <2> QED BY <2>1, <2>2
<1>18. ASSUME NEW n \in Messages PROVE OneCopy(n)'
  <2>1. OneCopy(n) BY DEF IInv
  <2>2. CASE n = m
    <3> SUFFICES ASSUME ~doubled, m \notin unsure
                 PROVE  /\ \A d \in Conns : ~Queued(d, m)'
                        /\ \A d \in Conns : Single(d, m)'
                        /\ \A k \in Carriers : cast'[k].msg = m => k = own
                        /\ \A d \in Conns : got[d][m] = 0
      BY <1>4, <2>2 DEF OneCopy
    <3>1. /\ \A d \in Conns : Queued(d, m) => d = l
          /\ \A d \in Conns : Single(d, m)
          /\ \A k \in Carriers : cast[k].msg # m
          /\ \A d \in Conns : got[d][m] = 0
      BY <1>10, <2>1, <2>2 DEF OneCopy
    <3> QED BY <1>10, <1>11, <1>13, <3>1
  <2>3. CASE n # m
    <3>1. /\ \A d \in Conns : Queued(d, n)' => Queued(d, n)
          /\ \A d \in Conns : Single(d, n) => Single(d, n)'
      BY <1>10, <1>11, <1>12
    <3>2. \A k \in Carriers : cast'[k].msg = n => cast[k].msg = n /\ cast'[k] = cast[k]
      BY <1>5, <1>6, <2>3
    <3>3. \A k \in Carriers, d \in Conns :
            cast'[k].msg = n /\ ToCall(d, k)' => ToCall(d, k) \/ got[d][n] = 0
      BY <1>4, <3>2 DEF ToCall
    <3> QED BY <1>4, <2>1, <3>1, <3>2, <3>3, StillOneCopy
  <2> QED BY <2>2, <2>3
<1>19. ASSUME NEW n \in Messages, NEW d \in Conns PROVE Reached(d, n)'
  <2>1. Reached(d, n) /\ got \in [Conns -> [Messages -> Nat]]
    BY <1>1 DEF IInv, TypeOK
  <2>2. got' \in [Conns -> [Messages -> Nat]] /\ got'[d][n] >= got[d][n]
    BY <1>4, <2>1
  <2>3. d \in due[n] /\ Waits(d, n) => Waits(d, n)' \/ conn'[d].pc = "closed"
    <3>1. CASE n = m /\ d \in due[n] /\ conn[d].pc # "closed"
      <4>1. d \in Seated
        BY <3>1 DEF IInv, Counted, ConnSound, Seated
      <4>2. seat'[d] \in Broadcast(m).left
        BY <1>4, <4>1 DEF Broadcast
      <4> QED BY <1>5, <1>6, <3>1, <4>2 DEF Waits, MustCall
    <3>2. CASE n # m
      <4>1. \A e \in Conns : Queued(e, n) => Queued(e, n)'
        BY <1>10, <1>11, <3>2
      <4>2. \A k \in Carriers : cast[k].msg = n => cast'[k] = cast[k]
        BY <1>5, <1>6, MessageFacts DEF NoCast
      <4>3. \A k \in Carriers : cast[k].msg = n /\ MustCall(d, k) => MustCall(d, k)'
        BY <1>4, <4>2 DEF MustCall
      <4> QED BY <4>1, <4>2, <4>3 DEF Waits
    <3> QED BY <1>4, <3>1, <3>2
  <2> QED BY <1>4, <2>1, <2>2, <2>3, StillReached
<1> QED BY <1>8, <1>9, <1>14, <1>15, <1>16, <1>17, <1>18, <1>19, RecordStep DEF IInv

\* A listener that neither takes a message nor is given one.
LEMMA IdleListener ==
    ASSUME IInv, NEW l \in Conns, TypeOK',
           UNCHANGED <<redis, who, blocks, phones, conn, seat, registered, cast, sender, there,
                       due, pushed, lost, got, failed, doubled, unsure>>,
           excused \subseteq excused',
           listener[l].pc # "none" /\ listener'[l].pc # "none",
           listener'[l].inbox = listener[l].inbox \/ listener'[l].inbox = <<>>,
           \A n \in Messages : Queued(l, n) => Queued(l, n)' \/ n \in excused',
           \A d \in Conns \ {l} : listener'[d] = listener[d]
    PROVE  IInv'
<1>1. TypeOK
  BY DEF IInv
<1>2. RecordSame
  BY DEF RecordSame, Before
<1>3. ASSUME NEW n \in Messages, NEW d \in Conns
      PROVE  /\ Queued(d, n)' => Queued(d, n)
             /\ Single(d, n) => Single(d, n)'
             /\ Queued(d, n) => Queued(d, n)' \/ n \in excused'
  <2>1. CASE listener'[d].inbox = listener[d].inbox
    BY <2>1, SameQueued
  <2>2. CASE d = l /\ listener'[d].inbox = <<>>
    BY <2>2, EmptyHolds DEF Queued, Single
  <2> QED BY <2>1, <2>2
<1>4. /\ \A n \in Messages : UnpublishedSound(n)'
      /\ BlockedHearNothing'
  BY <1>2, <1>3, NothingCarried
<1>5. ListenerWhileNeeded'
  <2>1. Seated' = Seated /\ Tasks' = Tasks
    BY DEF Seated, Tasks
  <2> QED BY <2>1 DEF IInv, ListenerWhileNeeded, Seated
<1>6. ASSUME NEW d \in Conns PROVE ConnSound(d)'
  <2>1. ConnSound(d)
    BY DEF IInv
  <2> QED BY <1>2, <2>1, RecordStep DEF ConnSound, Before
<1>7. \A k \in Carriers : CastSound(k)'
  BY DEF IInv, CastSound
<1>8. ASSUME NEW n \in Messages PROVE OneCopy(n)'
  <2>1. OneCopy(n) BY DEF IInv
  <2>2. \A k \in Carriers, d \in Conns :
          cast'[k].msg = n /\ ToCall(d, k)' => ToCall(d, k) \/ got[d][n] = 0
    BY DEF ToCall
  <2>3. /\ \A d \in Conns : Queued(d, n)' => Queued(d, n)
        /\ \A d \in Conns : Single(d, n) => Single(d, n)'
    BY <1>3
  <2> QED BY <2>1, <2>2, <2>3, StillOneCopy
<1>9. ASSUME NEW n \in Messages, NEW d \in Conns PROVE Reached(d, n)'
  <2>1. Reached(d, n) /\ got \in [Conns -> [Messages -> Nat]]
    BY <1>1 DEF IInv, TypeOK
  <2>2. got' \in [Conns -> [Messages -> Nat]] /\ got'[d][n] >= got[d][n]
    BY <2>1
  <2>3. \A k \in Carriers : MustCall(d, k) => MustCall(d, k)'
    BY DEF MustCall
  <2>4. Waits(d, n) => Waits(d, n)' \/ n \in excused'
    BY <1>3, <2>3 DEF Waits
  <2> QED BY <2>1, <2>2, <2>4, StillReached
<1> QED BY <1>2, <1>4, <1>5, <1>6, <1>7, <1>8, <1>9, RecordStep DEF IInv

LEMMA BreakStep ==
    ASSUME IInv, NEW l \in Conns, Break(l)
    PROVE  IInv'
<1> DEFINE task == [pc |-> "sleeping", inbox |-> <<>>, on |-> FALSE]
           dropped == {listener[l].inbox[i] : i \in DOMAIN listener[l].inbox}
<1>1. /\ listener[l].pc = "listening" /\ Fault
      /\ listener' = [listener EXCEPT ![l] = task]
      /\ excused' = excused \cup dropped
      /\ UNCHANGED <<redis, who, blocks, phones, conn, seat, registered, cast, sender, there, due,
                     pushed, lost, got, failed, doubled, unsure>>
  BY DEF Break, facts, record
<1>2. TypeOK
  BY DEF IInv
<1>3. /\ listener' \in [Conns -> Listeners] /\ listener'[l] = task
      /\ \A d \in Conns \ {l} : listener'[d] = listener[d]
  <2>1. task \in Listeners
    BY DEF Listeners
  <2> QED BY <1>1, <1>2, <2>1 DEF TypeOK
<1>4. dropped \subseteq Messages
  <2>1. listener[l].inbox \in Seq(Messages)
    BY <1>2, Typed DEF Listeners
  <2> QED BY <2>1
<1>5. TypeOK'
  <2>1. \A d \in Conns : listener'[d].pc = "casting" <=> listener[d].pc = "casting"
    BY <1>1, <1>3
  <2>2. faults' \in 0..MaxFaults
    BY <1>1, <1>2, ChatAssumption DEF Fault, TypeOK
  <2> QED BY <1>1, <1>2, <1>3, <1>4, <2>1, <2>2 DEF TypeOK
<1>6. \A n \in Messages : Queued(l, n) => n \in excused'
  BY <1>1 DEF Queued, Holds
<1> QED BY <1>1, <1>3, <1>5, <1>6, IdleListener

LEMMA WakeStep ==
    ASSUME IInv, NEW l \in Conns, Wake(l)
    PROVE  IInv'
<1>1. /\ listener[l].pc = "sleeping"
      /\ listener' = [listener EXCEPT ![l].pc = "listening", ![l].on = TRUE]
      /\ UNCHANGED <<redis, who, blocks, phones, conn, seat, registered, cast, sender, there, due,
                     pushed, lost, got, failed, doubled, unsure, excused, faults>>
  BY DEF Wake, facts, record, past
<1>2. TypeOK
  BY DEF IInv
<1>3. /\ listener' \in [Conns -> Listeners]
      /\ listener'[l].pc = "listening" /\ listener'[l].inbox = listener[l].inbox
      /\ \A d \in Conns \ {l} : listener'[d] = listener[d]
  <2>1. listener[l] \in Listeners /\ listener \in [Conns -> Listeners]
    BY <1>2 DEF TypeOK
  <2> DEFINE read == [listener[l] EXCEPT !.pc = "listening"]
             task == [read EXCEPT !.on = TRUE]
  <2>2. read \in Listeners /\ read.pc = "listening" /\ read.inbox = listener[l].inbox
    BY <2>1 DEF Listeners
  <2>3. listener' = [listener EXCEPT ![l] = task]
    BY <1>1, <2>1
  <2> HIDE DEF read
  <2>4. task \in Listeners /\ task.pc = "listening" /\ task.inbox = listener[l].inbox
    BY <2>2 DEF Listeners
  <2> HIDE DEF task
  <2>5. /\ listener' \in [Conns -> Listeners] /\ listener'[l] = task
        /\ \A d \in Conns \ {l} : listener'[d] = listener[d]
    BY <2>1, <2>3, <2>4
  <2> QED BY <2>4, <2>5
<1>4. TypeOK'
  <2>1. \A d \in Conns : listener'[d].pc = "casting" <=> listener[d].pc = "casting"
    BY <1>1, <1>3
  <2> QED BY <1>1, <1>2, <1>3, <2>1 DEF TypeOK
<1>5. \A n \in Messages : Queued(l, n) => Queued(l, n)'
  BY <1>3, SameQueued
<1> QED BY <1>1, <1>3, <1>4, <1>5, IdleListener

-----------------------------------------------------------------------------
(* The turns of a broadcast.                                               *)

TurnOnly(k) ==
    /\ cast[k] # NoCast
    /\ Turn(k)
    /\ UNCHANGED <<redis, who, blocks, phones, seat, registered, sender, there, due, pushed, lost,
                   failed, doubled, unsure, faults>>
    /\ excused \subseteq excused' /\ excused' \subseteq Messages
    /\ got' \in [Conns -> [Messages -> Nat]]
    /\ \A d \in Conns : conn[d].pc = "new" => got'[d] = got[d]

\* A turn calls whom it may and whom it must, and whom it has called it does not
\* call again.
LEMMA TurnCalls ==
    ASSUME IInv, NEW k \in Carriers, TurnOnly(k)
    PROVE  /\ \A j \in Carriers : cast'[j] # NoCast => cast[j] # NoCast /\ cast'[j].msg = cast[j].msg
           /\ \A j \in Carriers, d \in Conns : cast'[j] # NoCast /\ ToCall(d, j)' => ToCall(d, j)
           /\ \A d \in Conns : d = cast[k].calling /\ cast'[k] # NoCast => ~ToCall(d, k)'
           /\ ~SetChanged(cast[k]) =>
                \A d \in Conns :
                  seat[d] # Nobody /\ MustCall(d, k) /\ d # cast[k].calling =>
                    cast'[k] # NoCast /\ MustCall(d, k)'
           /\ \A j \in Carriers : CastSound(j)'
<1>1. TypeOK /\ cast[k] \in Casts /\ cast[k] # NoCast /\ seat' = seat
  <2>1. TypeOK BY DEF IInv
  <2> QED BY <2>1, Typed, CastKinds DEF TurnOnly
<1>2. \A j \in Carriers \ {k} : cast'[j] = cast[j]
  BY DEF TurnOnly, Turn
<1>3. /\ cast[k].left \subseteq Conns /\ cast[k].calling \in Conns \cup {Nobody}
      /\ Nobody \notin cast[k].left /\ Nobody \notin Conns
  BY <1>1, ChatAssumption DEF Casts
<1>4. cast[k].calling # Nobody =>
        /\ cast[k].calling \in cast[k].done
        /\ seat[cast[k].calling] \in {cast[k].at, Nobody}
        /\ cast[k].at \notin cast[k].left
  BY <1>1 DEF IInv, CastSound
<1>5. ASSUME cast'[k] # NoCast
      PROVE  /\ cast'[k].msg = cast[k].msg
             /\ cast'[k].calling \in Seated \ {Nobody} /\ cast'[k].calling \in cast'[k].done
             /\ seat[cast'[k].calling] = cast'[k].at
             /\ \/ /\ cast'[k].at = cast[k].at /\ cast'[k].left = cast[k].left
                   /\ cast'[k].seen = cast[k].seen
                   /\ cast'[k].done = cast[k].done \cup {cast'[k].calling}
                   /\ cast'[k].calling \notin cast[k].done
                \/ /\ SetDone(cast[k]) /\ cast'[k].at \in cast[k].left
                   /\ cast'[k].left = cast[k].left \ {cast'[k].at}
                   /\ cast'[k].seen = Live(cast'[k].at)
                   /\ cast'[k].done = {cast'[k].calling}
  <2>1. PICK next \in Calls(cast[k]) : next = cast'[k]
    BY <1>5 DEF TurnOnly, Turn
  <2> QED BY <1>1, <2>1, CallsAre
<1>6. \A j \in Carriers : cast'[j] # NoCast => cast[j] # NoCast /\ cast'[j].msg = cast[j].msg
  BY <1>1, <1>2, <1>5
<1>7. ASSUME cast'[k] # NoCast, NEW d \in Conns, ToCall(d, k)'
      PROVE  ToCall(d, k) /\ (cast[k].calling # Nobody => d # cast[k].calling)
  <2>1. \/ seat[d] \in cast'[k].left
        \/ seat[d] = cast'[k].at /\ seat[d] # Nobody /\ d \notin cast'[k].done
        \/ cast'[k].calling = d
    BY <1>1, <1>7 DEF ToCall
  <2>2. cast'[k].calling = d => seat[d] = cast'[k].at /\ seat[d] # Nobody
    BY <1>5, <1>7 DEF Seated
  <2>3. CASE /\ cast'[k].at = cast[k].at /\ cast'[k].left = cast[k].left
             /\ cast'[k].done = cast[k].done \cup {cast'[k].calling}
             /\ cast'[k].calling \notin cast[k].done
    BY <1>3, <1>4, <2>1, <2>2, <2>3 DEF ToCall
  <2>4. CASE /\ cast'[k].at \in cast[k].left
             /\ cast'[k].left = cast[k].left \ {cast'[k].at}
    <3>1. seat[d] \in cast[k].left
      BY <2>1, <2>2, <2>4
    <3> QED BY <1>3, <1>4, <3>1 DEF ToCall
  <2> QED BY <1>5, <1>7, <2>3, <2>4
<1>8. \A j \in Carriers, d \in Conns : cast'[j] # NoCast /\ ToCall(d, j)' => ToCall(d, j)
  <2> SUFFICES ASSUME NEW j \in Carriers, NEW d \in Conns, cast'[j] # NoCast, ToCall(d, j)'
               PROVE  ToCall(d, j)
    OBVIOUS
  <2>1. CASE j = k BY <1>7, <2>1
  <2>2. CASE j # k BY <1>1, <1>2, <2>2, SameCalls
  <2> QED BY <2>1, <2>2
<1>9. \A d \in Conns : d = cast[k].calling /\ cast'[k] # NoCast => ~ToCall(d, k)'
  BY <1>3, <1>7
<1>10. ASSUME ~SetChanged(cast[k]), NEW d \in Conns, seat[d] # Nobody, MustCall(d, k),
              d # cast[k].calling
       PROVE  cast'[k] # NoCast /\ MustCall(d, k)'
  <2>1. d \in Live(seat[d])
    BY <1>10 DEF Live, Seated
  <2>2. seat[d] \in cast[k].left \/ (seat[d] = cast[k].at /\ d \in cast[k].seen \ cast[k].done)
    BY <1>10 DEF MustCall
  <2>3. SetDone(cast[k]) => seat[d] \in cast[k].left
    BY <1>10, <2>1, <2>2 DEF SetDone
  <2>4. cast'[k] # NoCast
    BY <1>10, <2>1, <2>3 DEF TurnOnly, Turn
  <2>5. CASE /\ cast'[k].at = cast[k].at /\ cast'[k].left = cast[k].left
             /\ cast'[k].seen = cast[k].seen
             /\ cast'[k].done = cast[k].done \cup {cast'[k].calling}
    BY <1>1, <2>2, <2>4, <2>5 DEF MustCall
  <2>6. CASE /\ SetDone(cast[k])
             /\ cast'[k].left = cast[k].left \ {cast'[k].at}
             /\ cast'[k].seen = Live(cast'[k].at)
             /\ cast'[k].done = {cast'[k].calling}
    BY <1>1, <2>1, <2>3, <2>4, <2>6 DEF MustCall
  <2> QED BY <1>5, <2>4, <2>5, <2>6
<1>11. ASSUME NEW j \in Carriers PROVE CastSound(j)'
  <2>1. CASE j = k /\ cast'[k] # NoCast
    <3>1. /\ cast'[k].calling # Nobody
          /\ cast'[k].calling \in Conns /\ conn[cast'[k].calling].pc # "new"
      BY <1>5, <2>1 DEF Seated, IInv, ConnSound
    <3>2. conn'[cast'[k].calling].pc # "new"
      BY <3>1 DEF TurnOnly, Turn
    <3>3. cast'[k].at \notin cast'[k].left
      BY <1>3, <1>4, <1>5, <2>1, <1>1 DEF IInv, CastSound
    <3> QED BY <1>1, <1>5, <2>1, <3>1, <3>2, <3>3 DEF CastSound
  <2>2. CASE j # k
    <3>1. CastSound(j) /\ cast'[j] = cast[j] /\ cast[j] \in {NoCast} \cup Casts
      BY <1>1, <1>2, <2>2, Typed DEF IInv
    <3>2. cast[j] # NoCast /\ cast[j].calling # Nobody => cast[j].calling \in Conns
      BY <3>1 DEF Casts
    <3>3. \A d \in Conns : conn[d].pc # "new" => conn'[d].pc # "new"
      BY DEF TurnOnly, Turn
    <3> QED BY <1>1, <3>1, <3>2, <3>3 DEF CastSound
  <2>3. CASE cast'[j] = NoCast
    BY <2>3 DEF CastSound
  <2> QED BY <2>1, <2>2, <2>3
<1> QED BY <1>6, <1>8, <1>9, <1>10, <1>11

\* What does not depend on who has got the message.
LEMMA TurnKeeps ==
    ASSUME IInv, NEW k \in Carriers, TurnOnly(k)
    PROVE  /\ TypeOK' /\ ListenerWhileNeeded' /\ RecordSame
           /\ \A d \in Conns : ConnSound(d)'
           /\ \A m \in Messages, l \in Conns : /\ Queued(l, m)' <=> Queued(l, m)
                                               /\ Single(l, m)' <=> Single(l, m)
<1>1. TypeOK
  BY DEF IInv
<1>2. /\ \A d \in Conns :
           /\ conn'[d].msg = conn[d].msg
           /\ conn'[d].pc = conn[d].pc \/ (conn[d].pc = "casting" /\ conn'[d].pc = "open")
      /\ \A l \in Conns :
           /\ listener'[l].inbox = listener[l].inbox /\ listener'[l].on = listener[l].on
           /\ \/ listener'[l].pc = listener[l].pc
              \/ listener[l].pc = "casting" /\ listener'[l].pc \in {"listening", "sleeping"}
  BY DEF TurnOnly, Turn
<1>3. TypeOK'
  BY <1>1 DEF TurnOnly, Turn, TypeOK, States
<1>4. RecordSame
  BY <1>2 DEF RecordSame, Before, TurnOnly
<1>5. ListenerWhileNeeded'
  <2>1. Seated' = Seated /\ Tasks' = Tasks
    BY <1>2 DEF Seated, Tasks, TurnOnly
  <2>2. registered' = registered /\ redis' = redis /\ failed' = failed /\ doubled' = doubled
    BY DEF TurnOnly
  <2>3. \A d \in Seated : conn[d].pc = "subscribing" => conn'[d].pc = "subscribing"
    BY <1>2 DEF Seated
  <2> QED BY <2>1, <2>2, <2>3 DEF IInv, ListenerWhileNeeded
<1>6. ASSUME NEW d \in Conns PROVE ConnSound(d)'
  <2>1. ConnSound(d)
    BY DEF IInv
  <2>2. /\ conn'[d].pc = "new" <=> conn[d].pc = "new"
        /\ conn'[d].pc = "closed" <=> conn[d].pc = "closed"
        /\ conn'[d].pc = "subscribing" <=> conn[d].pc = "subscribing"
        /\ listener'[d].pc = "none" <=> listener[d].pc = "none"
    BY <1>2
  <2>3. seat' = seat /\ (conn[d].pc = "new" => got'[d] = got[d])
    BY DEF TurnOnly
  <2> QED BY <1>2, <1>4, <2>1, <2>2, <2>3, RecordStep DEF ConnSound
<1>7. \A m \in Messages, l \in Conns : /\ Queued(l, m)' <=> Queued(l, m)
                                       /\ Single(l, m)' <=> Single(l, m)
  BY <1>2, SameQueued
<1> QED BY <1>3, <1>4, <1>5, <1>6, <1>7

\* A broadcast that has not begun cannot find that its set has changed.
LEMMA StartBroadcastStep ==
    ASSUME IInv, NEW k \in Carriers, StartBroadcast(k)
    PROVE  IInv'
<1>1. /\ TypeOK /\ cast[k] # NoCast /\ cast[k].calling = Nobody /\ GoOn(k, cast[k])
      /\ UNCHANGED <<redis, who, blocks, phones, seat, registered, sender, there, due, pushed,
                     lost, got, failed, doubled, unsure, excused, faults>>
  BY DEF IInv, StartBroadcast, facts, record, past
<1>2. TurnOnly(k)
  <2>1. Turn(k) BY <1>1, GoesOn
  <2> QED BY <1>1, <2>1 DEF TurnOnly, TypeOK
<1>3. ~SetChanged(cast[k])
  BY <1>1 DEF SetChanged, IInv, CastSound
<1>4. \A m \in Messages, j \in Carriers :
        cast'[j].msg = m => cast[j].msg = m /\ cast'[j] # NoCast
  <2>1. \A j \in Carriers : cast'[j] # NoCast => cast'[j].msg = cast[j].msg
    BY <1>2, TurnCalls
  <2>2. NoCast.msg \notin Messages
    BY MessageFacts DEF NoCast
  <2> QED BY <2>1, <2>2
<1>5. /\ \A m \in Messages : UnpublishedSound(m)'
      /\ BlockedHearNothing'
  BY <1>1, <1>2, <1>4, TurnKeeps, NothingCarried
<1>6. ASSUME NEW m \in Messages PROVE OneCopy(m)'
  <2>1. OneCopy(m) BY DEF IInv
  <2>2. /\ \A l \in Conns : Queued(l, m)' => Queued(l, m)
        /\ \A l \in Conns : Single(l, m) => Single(l, m)'
    BY <1>2, TurnKeeps
  <2>3. \A j \in Carriers, d \in Conns :
          cast'[j].msg = m /\ ToCall(d, j)' => ToCall(d, j) \/ got[d][m] = 0
    BY <1>2, <1>4, TurnCalls
  <2> QED BY <1>1, <1>4, <2>1, <2>2, <2>3, StillOneCopy
<1>7. ASSUME NEW m \in Messages, NEW d \in Conns PROVE Reached(d, m)'
  <2>1. Reached(d, m) /\ got \in [Conns -> [Messages -> Nat]]
    BY <1>1 DEF IInv, TypeOK
  <2>2. d \in due[m] /\ Waits(d, m) => Waits(d, m)' \/ conn'[d].pc = "closed"
    <3> SUFFICES ASSUME d \in due[m], Waits(d, m), conn[d].pc # "closed"
                 PROVE  Waits(d, m)'
      BY <1>2, TurnKeeps DEF RecordSame
    <3>1. seat[d] # Nobody /\ d # Nobody
      BY ChatAssumption DEF IInv, Counted, ConnSound
    <3>2. CASE \E l \in Conns : Queued(l, m)
      BY <1>2, <3>2, TurnKeeps DEF Waits
    <3>3. CASE \E j \in Carriers : cast[j].msg = m /\ MustCall(d, j)
      <4>1. PICK j \in Carriers : cast[j].msg = m /\ MustCall(d, j)
        BY <3>3
      <4>2. CASE j = k
        <5>1. cast'[k] # NoCast /\ MustCall(d, k)'
          BY <1>1, <1>2, <1>3, <3>1, <4>1, <4>2, TurnCalls
        <5>2. cast'[k].msg = m
          BY <1>2, <4>1, <4>2, <5>1, TurnCalls
        <5> QED BY <5>1, <5>2 DEF Waits
      <4>3. CASE j # k
        <5>1. cast'[j] = cast[j] /\ seat' = seat
          BY <1>1, <1>2, <4>3 DEF TurnOnly, Turn
        <5>2. MustCall(d, j)'
          BY <4>1, <5>1, SameCalls
        <5> QED BY <4>1, <5>1, <5>2 DEF Waits
      <4> QED BY <4>2, <4>3
    <3> QED BY <3>2, <3>3 DEF Waits
  <2>3. /\ got' \in [Conns -> [Messages -> Nat]] /\ got'[d][m] >= got[d][m]
        /\ conn[d].pc = "closed" => conn'[d].pc = "closed"
    BY <1>1, <1>2, <2>1, TurnKeeps DEF RecordSame
  <2> QED BY <1>1, <2>1, <2>2, <2>3, StillReached
<1> QED BY <1>2, <1>5, <1>6, <1>7, TurnKeeps, TurnCalls, RecordStep DEF IInv

\* The call that ends shows the message, or a block or the closing of the
\* connection keeps it back, or the session's misuse excuses it.
LEMMA CallbackStep ==
    ASSUME IInv, NEW k \in Carriers, Callback(k)
    PROVE  IInv'
<1>1. /\ TypeOK /\ cast[k] # NoCast /\ cast[k].calling # Nobody /\ GoOn(k, cast[k])
      /\ UNCHANGED <<redis, who, blocks, phones, seat, registered, sender, there, due, pushed,
                     lost, failed, doubled, unsure, faults>>
  BY DEF IInv, Callback, facts
<1>2. cast[k] \in Casts
  BY <1>1, Typed, CastKinds
<1>3. PICK c \in Conns, m \in Messages : c = cast[k].calling /\ m = cast[k].msg
  BY <1>1, <1>2 DEF Casts
<1>4. PICK ok \in BOOLEAN :
        /\ got' = IF ok /\ Shown(c, m) /\ conn[c].pc # "closed"
                  THEN [got EXCEPT ![c][m] = @ + 1] ELSE got
        /\ excused' = IF SetChanged(cast[k]) \/ ~ok THEN excused \cup {m} ELSE excused
  <2>1. CASE Overlap(c, k)
    BY <1>3, <2>1 DEF Callback
  <2>2. CASE ~Overlap(c, k)
    BY <1>3, <2>2 DEF Callback
  <2> QED BY <2>1, <2>2
<1>5. /\ got \in [Conns -> [Messages -> Nat]] /\ got' \in [Conns -> [Messages -> Nat]]
      /\ \A d \in Conns, n \in Messages : d # c \/ n # m => got'[d][n] = got[d][n]
      /\ \/ got'[c][m] = got[c][m]
         \/ got'[c][m] = got[c][m] + 1 /\ Shown(c, m)
      /\ got'[c][m] > 0 \/ Blocked(who[c], sender[m]) \/ conn[c].pc = "closed" \/ m \in excused'
  <2>1. got \in [Conns -> [Messages -> Nat]]
    BY <1>1 DEF TypeOK
  <2>2. CASE ok /\ Shown(c, m) /\ conn[c].pc # "closed"
    <3>1. got' = [got EXCEPT ![c][m] = @ + 1]
      BY <1>4, <2>2
    <3> QED BY <2>1, <2>2, <3>1
  <2>3. CASE ~(ok /\ Shown(c, m) /\ conn[c].pc # "closed")
    <3>1. got' = got
      BY <1>4, <2>3
    <3>2. Blocked(who[c], sender[m]) \/ conn[c].pc = "closed" \/ m \in excused'
      BY <1>4, <2>3 DEF Shown
    <3> QED BY <2>1, <3>1, <3>2
  <2> QED BY <2>2, <2>3
<1>6. \A d \in Conns, n \in Messages : got'[d][n] >= got[d][n]
  <2> TAKE d \in Conns, n \in Messages
  <2>1. got[d][n] \in Nat /\ got'[d][n] \in Nat
    BY <1>5
  <2> QED BY <1>5, <2>1
<1>7. /\ excused \subseteq excused' /\ excused' \subseteq Messages
      /\ SetChanged(cast[k]) => m \in excused'
  BY <1>1, <1>4 DEF TypeOK
<1>8. conn[c].pc # "new"
  BY <1>1, <1>3 DEF IInv, CastSound
<1>9. TurnOnly(k)
  <2>1. Turn(k) BY <1>1, GoesOn
  <2>2. \A d \in Conns : conn[d].pc = "new" => got'[d] = got[d]
    <3> SUFFICES ASSUME NEW d \in Conns, d # c PROVE got'[d] = got[d]
      BY <1>8
    <3> QED BY <1>4, <1>5
  <2> QED BY <1>1, <1>5, <1>7, <2>1, <2>2 DEF TurnOnly
<1>10. \A n \in Messages, j \in Carriers :
         cast'[j].msg = n => cast[j].msg = n /\ cast'[j] # NoCast
  <2>1. \A j \in Carriers : cast'[j] # NoCast => cast'[j].msg = cast[j].msg
    BY <1>9, TurnCalls
  <2>2. NoCast.msg \notin Messages
    BY MessageFacts DEF NoCast
  <2> QED BY <2>1, <2>2
<1>11. ~Unpublished(m)
  BY <1>3 DEF IInv, UnpublishedSound
<1>12. ASSUME NEW n \in Messages PROVE UnpublishedSound(n)'
  <2>1. Unpublished(n)' => Unpublished(n)
    BY <1>9, TurnKeeps, RecordStep
  <2>2. CASE n = m
    BY <1>11, <2>1, <2>2 DEF UnpublishedSound
  <2>3. CASE n # m
    <3>1. UnpublishedSound(n) BY DEF IInv
    <3>2. \A l \in Conns : Queued(l, n)' => Queued(l, n)
      BY <1>9, TurnKeeps
    <3>3. \A d \in Conns : got'[d][n] = got[d][n]
      BY <1>5, <2>3
    <3> QED BY <1>1, <1>10, <2>1, <3>1, <3>2, <3>3, StillUnpublished
  <2> QED BY <2>2, <2>3
<1>13. BlockedHearNothing'
  <2> SUFFICES ASSUME NEW n \in Messages, NEW u \in Members,
                      sender[n] # Nobody, Blocked(u, sender[n])
               PROVE  /\ u \notin pushed[n] \cup lost[n]
                      /\ \A d \in Conns : who[d] = u => got'[d][n] = 0
    BY <1>1 DEF BlockedHearNothing, Blocked
  <2>1. /\ u \notin pushed[n] \cup lost[n]
        /\ \A d \in Conns : who[d] = u => got[d][n] = 0
    BY DEF IInv, BlockedHearNothing
  <2>2. n = m /\ who[c] = u => ~Shown(c, m)
    BY DEF Shown
  <2> QED BY <1>5, <2>1, <2>2
<1>14. ASSUME NEW n \in Messages PROVE OneCopy(n)'
  <2>1. OneCopy(n) BY DEF IInv
  <2>2. /\ \A l \in Conns : Queued(l, n)' => Queued(l, n)
        /\ \A l \in Conns : Single(l, n) => Single(l, n)'
    BY <1>9, TurnKeeps
  <2>3. \A j \in Carriers, d \in Conns : cast'[j].msg = n /\ ToCall(d, j)' => ToCall(d, j)
    BY <1>9, <1>10, TurnCalls
  <2>4. CASE n = m
    <3> SUFFICES ASSUME ~doubled, m \notin unsure
                 PROVE  /\ \A l \in Conns : ~Queued(l, m)'
                        /\ \A l \in Conns : Single(l, m)'
                        /\ \A j \in Carriers : cast'[j].msg = m => j = k
                        /\ \A d \in Conns : cast'[k].msg = m /\ ToCall(d, k)' => got'[d][m] = 0
                        /\ \A d \in Conns : got'[d][m] <= 1
      BY <1>1, <2>4 DEF OneCopy
    <3>1. /\ \A l \in Conns : ~Queued(l, m)
          /\ \A l \in Conns : Single(l, m)
          /\ \A j \in Carriers : cast[j].msg = m => j = k
          /\ \A d \in Conns : ToCall(d, k) => got[d][m] = 0
          /\ \A d \in Conns : got[d][m] <= 1
      BY <1>3, <2>1, <2>4 DEF OneCopy
    <3>2. got[c][m] = 0
      BY <1>3, <3>1 DEF ToCall
    <3>3. \A d \in Conns : got'[d][m] <= 1
      BY <1>5, <3>1, <3>2
    <3>4. \A d \in Conns : cast'[k].msg = m /\ ToCall(d, k)' => got'[d][m] = 0
      <4> SUFFICES ASSUME NEW d \in Conns, cast'[k].msg = m, ToCall(d, k)'
                   PROVE  got'[d][m] = 0
        OBVIOUS
      <4>1. d # c
        BY <1>3, <1>9, <1>10, TurnCalls
      <4>2. ToCall(d, k)
        BY <2>3, <2>4
      <4> QED BY <1>5, <3>1, <4>1, <4>2
    <3> QED BY <1>10, <2>2, <2>4, <3>1, <3>3, <3>4
  <2>5. CASE n # m
    <3>1. \A d \in Conns : got'[d][n] = got[d][n]
      BY <1>5, <2>5
    <3>2. \A j \in Carriers, d \in Conns :
            cast'[j].msg = n /\ ToCall(d, j)' => ToCall(d, j) \/ got[d][n] = 0
      BY <2>3
    <3> QED BY <1>1, <1>10, <2>1, <2>2, <3>1, <3>2, StillOneCopy
  <2> QED BY <2>4, <2>5
<1>15. ASSUME NEW n \in Messages, NEW d \in Conns PROVE Reached(d, n)'
  <2>1. Reached(d, n)
    BY DEF IInv
  <2>2. d \in due[n] /\ Waits(d, n) =>
          \/ Waits(d, n)' \/ got'[d][n] > 0 \/ conn'[d].pc = "closed"
          \/ Blocked(who[d], sender[n]) \/ n \in excused'
    <3> SUFFICES ASSUME d \in due[n], Waits(d, n), conn[d].pc # "closed", n \notin excused'
                 PROVE  Waits(d, n)' \/ got'[d][n] > 0 \/ Blocked(who[d], sender[n])
      BY <1>9, TurnKeeps DEF RecordSame
    <3>1. seat[d] # Nobody
      BY DEF IInv, Counted, ConnSound
    <3>2. CASE \E l \in Conns : Queued(l, n)
      BY <1>9, <3>2, TurnKeeps DEF Waits
    <3>3. CASE \E j \in Carriers : cast[j].msg = n /\ MustCall(d, j)
      <4>1. PICK j \in Carriers : cast[j].msg = n /\ MustCall(d, j)
        BY <3>3
      <4>2. CASE j = k /\ d = c
        BY <1>3, <1>5, <4>1, <4>2
      <4>3. CASE j = k /\ d # c
        <5>1. ~SetChanged(cast[k])
          BY <1>3, <1>7, <4>1, <4>3
        <5>2. cast'[k] # NoCast /\ MustCall(d, k)'
          BY <1>3, <1>9, <3>1, <4>1, <4>3, <5>1, TurnCalls
        <5>3. cast'[k].msg = n
          BY <1>9, <4>1, <4>3, <5>2, TurnCalls
        <5> QED BY <5>2, <5>3 DEF Waits
      <4>4. CASE j # k
        <5>1. cast'[j] = cast[j] /\ seat' = seat
          BY <1>1, <1>9, <4>4 DEF TurnOnly, Turn
        <5>2. MustCall(d, j)'
          BY <4>1, <5>1, SameCalls
        <5> QED BY <4>1, <5>1, <5>2 DEF Waits
      <4> QED BY <4>2, <4>3, <4>4
    <3> QED BY <3>2, <3>3 DEF Waits
  <2>3. conn[d].pc = "closed" => conn'[d].pc = "closed"
    BY <1>9, TurnKeeps DEF RecordSame
  <2> QED BY <1>1, <1>5, <1>6, <1>7, <2>1, <2>2, <2>3, StillReached
<1> QED BY <1>9, <1>12, <1>13, <1>14, <1>15, TurnKeeps, TurnCalls, RecordStep DEF IInv

-----------------------------------------------------------------------------
(* The theorems.                                                           *)

LEMMA InitInv == Init => IInv
<1> SUFFICES ASSUME Init PROVE IInv
  OBVIOUS
<1>1. /\ \A c \in Conns : /\ conn[c] = [pc |-> "new", msg |-> 0] /\ seat[c] = Nobody
                          /\ listener[c] = NoTask
                          /\ \A m \in Messages : got[c][m] = 0
      /\ \A k \in Carriers : cast[k] = NoCast
      /\ \A m \in Messages : /\ sender[m] = Nobody /\ there[m] = {}
                             /\ due[m] = {} /\ pushed[m] = {} /\ lost[m] = {}
      /\ registered = Nobody
  BY DEF Init
<1>2. NoTask.pc = "none" /\ NoTask.inbox = <<>> /\ ~NoTask.on
  BY DEF NoTask
<1>3. TypeOK
  <2>1. NoTask \in Listeners
    BY DEF NoTask, Listeners
  <2>2. [pc |-> "new", msg |-> 0] \in [pc : States, msg : 0..MaxMessages]
    BY ChatAssumption DEF States
  <2>3. /\ who \in [Conns -> Members] /\ blocks \subseteq Members \X Members
        /\ phones \subseteq Members
    BY ChatAssumption DEF Init
  <2>4. 0 \in 0..MaxFaults
    BY ChatAssumption
  <2>5. \A c \in Conns :
          /\ cast[<<"sender", c>>] # NoCast <=> conn[c].pc = "casting"
          /\ cast[<<"listener", c>>] # NoCast <=> listener[c].pc = "casting"
    <3> TAKE c \in Conns
    <3>1. cast[<<"sender", c>>] = NoCast /\ cast[<<"listener", c>>] = NoCast
      BY <1>1, CarrierFacts
    <3>2. conn[c].pc # "casting" /\ listener[c].pc # "casting"
      BY <1>1, <1>2
    <3> QED BY <3>1, <3>2
  <2> QED BY <2>1, <2>2, <2>3, <2>4, <2>5 DEF Init, TypeOK, States
<1>4. Seated = {} /\ Tasks = {}
  BY <1>1, <1>2 DEF Seated, Tasks
<1>5. ListenerWhileNeeded
  BY <1>1, <1>4 DEF ListenerWhileNeeded
<1>6. \A c \in Conns : ConnSound(c) /\ conn[c].pc # "publishing" /\ ~Before(c)
  BY <1>1, <1>2 DEF ConnSound, Before
<1>7. \A m \in Messages, l \in Conns : ~Queued(l, m) /\ Single(l, m)
  BY <1>1, <1>2, EmptyHolds DEF Queued, Single
<1>8. \A k \in Carriers : cast[k].msg \notin Messages
  BY <1>1, MessageFacts DEF NoCast
<1>9. \A m \in Messages : UnpublishedSound(m)
  BY <1>1, <1>7, <1>8 DEF UnpublishedSound
<1>10. \A m \in Messages : OneCopy(m)
  BY <1>1, <1>7, <1>8 DEF OneCopy
<1>11. \A m \in Messages : Counted(m) /\ \A c \in Conns : Reached(c, m)
  BY <1>1 DEF Counted, Reached
<1>12. Alone /\ \A k \in Carriers : CastSound(k)
  BY <1>1, <1>6 DEF Alone, CastSound
<1>13. BlockedHearNothing
  BY <1>1 DEF BlockedHearNothing
<1> QED BY <1>3, <1>5, <1>6, <1>9, <1>10, <1>11, <1>12, <1>13 DEF IInv

LEMMA StepInv == IInv /\ [Next]_vars => IInv'
<1> SUFFICES ASSUME IInv, [Next]_vars PROVE IInv'
  OBVIOUS
<1>1. CASE UNCHANGED vars
  <2>1. UNCHANGED <<redis, who, blocks, phones, conn, seat, listener, registered, cast, sender,
                    there, due, pushed, lost, got, failed, doubled, unsure, excused, faults>>
    BY <1>1 DEF vars, facts, manager, record, past
  <2>2. TypeOK' /\ ListenerWhileNeeded' /\ Alone'
    BY <2>1 DEF IInv, TypeOK, ListenerWhileNeeded, Seated, Tasks, Alone, Before
  <2>3. \A c \in Conns : ConnSound(c)' /\ (conn'[c].pc = "publishing" => Notified(conn[c].msg)')
    BY <2>1 DEF IInv, ConnSound, Before, Notified, Reach, Blocked
  <2>4. \A k \in Carriers : CastSound(k)'
    BY <2>1 DEF IInv, CastSound
  <2>5. \A m \in Messages, l \in Conns : /\ Queued(l, m)' <=> Queued(l, m)
                                         /\ Single(l, m)' <=> Single(l, m)
    BY <2>1 DEF Queued, Single
  <2>6. \A k \in Carriers, c \in Conns : /\ ToCall(c, k)' <=> ToCall(c, k)
                                         /\ MustCall(c, k)' <=> MustCall(c, k)
    BY <2>1 DEF ToCall, MustCall
  <2>7. \A m \in Messages : UnpublishedSound(m)'
    BY <2>1, <2>5 DEF IInv, UnpublishedSound, Unpublished, Before
  <2>8. \A m \in Messages : OneCopy(m)'
    BY <2>1, <2>5, <2>6 DEF IInv, OneCopy
  <2>9. \A m \in Messages : Counted(m)'
    BY <2>1 DEF IInv, Counted, Notified, Reach, Blocked
  <2>10. \A m \in Messages, c \in Conns : Reached(c, m)'
    BY <2>1, <2>5, <2>6 DEF IInv, Reached, Waits, Blocked
  <2>11. BlockedHearNothing'
    BY <2>1 DEF IInv, BlockedHearNothing, Blocked
  <2> QED BY <2>2, <2>3, <2>4, <2>7, <2>8, <2>9, <2>10, <2>11 DEF IInv
<1>2. ASSUME NEW c \in Conns, Arrive(c) PROVE IInv'
  BY <1>2, ArriveStep
<1>3. ASSUME NEW c \in Conns, Subscribed(c) PROVE IInv'
  BY <1>3, SubscribedStep
<1>4. ASSUME NEW c \in Conns, NotSubscribed(c) PROVE IInv'
  BY <1>4, NotSubscribedStep
<1>5. ASSUME NEW c \in Conns, Leave(c) PROVE IInv'
  BY <1>5, LeaveStep
<1>6. ASSUME NEW c \in Conns, Send(c) PROVE IInv'
  BY <1>6, SendStep
<1>7. ASSUME NEW c \in Conns, Save(c) PROVE IInv'
  BY <1>7, SaveStep
<1>8. ASSUME NEW c \in Conns, Notify(c) PROVE IInv'
  BY <1>8, NotifyStep
<1>9. ASSUME NEW c \in Conns, Publish(c) PROVE IInv'
  BY <1>9, PublishStep
<1>10. ASSUME NEW c \in Conns, Listen(c) PROVE IInv'
  BY <1>10, ListenStep
<1>11. ASSUME NEW c \in Conns, Break(c) PROVE IInv'
  BY <1>11, BreakStep
<1>12. ASSUME NEW c \in Conns, Wake(c) PROVE IInv'
  BY <1>12, WakeStep
<1>13. ASSUME NEW k \in Carriers, StartBroadcast(k) PROVE IInv'
  BY <1>13, StartBroadcastStep
<1>14. ASSUME NEW k \in Carriers, Callback(k) PROVE IInv'
  BY <1>14, CallbackStep
<1> QED BY <1>1, <1>2, <1>3, <1>4, <1>5, <1>6, <1>7, <1>8, <1>9, <1>10, <1>11, <1>12, <1>13,
           <1>14 DEF Next

\* The invariant: a message is followed from its handler to the inboxes and the
\* broadcasts that carry it, and to the connections that it is for.
THEOREM Invariance == Spec => []IInv
BY InitInv, StepInv, PTL DEF Spec

\* Handlers, listeners and broadcasts are only ever in the states the code
\* gives them, and a handler or a task says that it broadcasts when it does.
THEOREM TypeCorrect == Spec => []TypeOK
<1>1. IInv => TypeOK
  BY DEF IInv
<1> QED BY <1>1, Invariance, PTL

\* subscribe and unsubscribe keep one listener while anybody is connected, none
\* when nobody is, and a second one only after two SUBSCRIBEs crossed.
THEOREM ListenerKept == Spec => []ListenerWhileNeeded
<1>1. IInv => ListenerWhileNeeded
  BY DEF IInv
<1> QED BY <1>1, Invariance, PTL

\* Nobody is sent a message twice, unless the club has had two listeners or the
\* message was published by a call that failed after it got through.
THEOREM SentOnce == Spec => []DeliveredOnce
<1>1. IInv => DeliveredOnce
  <2> SUFFICES ASSUME IInv, NEW c \in Conns, NEW m \in Messages, ~doubled, m \notin unsure
               PROVE  ~(got[c][m] > 1)
    BY DEF DeliveredOnce
  <2>1. got[c][m] <= 1
    BY DEF IInv, OneCopy
  <2>2. got[c][m] \in Nat
    BY Typed DEF IInv
  <2> QED BY <2>1, <2>2
<1> QED BY <1>1, Invariance, PTL

\* Nobody waits for a message that nobody carries.
LEMMA SettledReach ==
    ASSUME IInv, NEW m \in Messages, Settled(m), m \notin excused, NEW c \in due[m]
    PROVE  got[c][m] > 0 \/ conn[c].pc = "closed" \/ Blocked(who[c], sender[m])
<1>1. c \in Conns
  BY Typed DEF IInv
<1>2. Reached(c, m)
  BY <1>1 DEF IInv
<1>3. ~Waits(c, m)
  BY DEF Waits, Queued, Holds, Settled
<1> QED BY <1>2, <1>3 DEF Reached

\* Every connection that was registered when a message was published gets it,
\* has closed, is kept from it by a block, or an error that the code logs and
\* goes on from excuses it.
THEOREM ConnectionsReached == Spec => []ReachesConnections
<1>1. IInv => ReachesConnections
  BY SettledReach DEF ReachesConnections
<1> QED BY <1>1, Invariance, PTL

\* Between the push for whoever was offline and the broadcast for whoever was
\* connected no member is lost: a connection that was counted gets the message
\* or has closed, and whoever had none is sent a push if they have a token,
\* which only the push service can lose.
THEOREM MembersReached == Spec => []ReachesMembers
<1>1. ASSUME IInv, NEW m \in Messages, Settled(m), due[m] # {}, m \notin excused,
             NEW u \in Reach(sender[m])
      PROVE  IF u \in {who[c] : c \in there[m]}
             THEN \E c \in Conns :
                     /\ who[c] = u
                     /\ got[c][m] > 0 \/ (c \in there[m] /\ conn[c].pc = "closed")
             ELSE u \in phones => u \in pushed[m] \cup lost[m]
  <2>1. Counted(m) /\ there[m] \subseteq Conns
    BY <1>1, Typed DEF IInv
  <2>2. u \in phones => u \in pushed[m] \cup lost[m] \/ \E c \in there[m] : who[c] = u
    BY <1>1, <2>1 DEF Counted, Notified
  <2>3. ASSUME NEW c \in there[m], who[c] = u
        PROVE  got[c][m] > 0 \/ conn[c].pc = "closed"
    <3>1. CASE c \in due[m]
      BY <1>1, <2>3, <3>1, SettledReach DEF Reach
    <3>2. CASE c \notin due[m]
      BY <1>1, <2>1, <3>2 DEF Counted
    <3> QED BY <3>1, <3>2
  <2>4. CASE u \in {who[c] : c \in there[m]}
    BY <2>1, <2>3, <2>4
  <2>5. CASE u \notin {who[c] : c \in there[m]}
    BY <2>2, <2>5
  <2> QED BY <2>4, <2>5
<1>2. IInv => ReachesMembers
  BY <1>1 DEF ReachesMembers
<1> QED BY <1>2, Invariance, PTL

\* A block in either direction keeps a member from the message and from its
\* push, however it travels.
THEOREM BlockedSpared == Spec => []BlockedHearNothing
<1>1. IInv => BlockedHearNothing
  BY DEF IInv
<1> QED BY <1>1, Invariance, PTL

-----------------------------------------------------------------------------
(* The authentication cache: types.                                        *)

LEMMA LessType ==
    ASSUME NEW n \in Nat, NEW m \in 0..n
    PROVE  Less(m) \in 0..n
BY DEF Less

\* A request that is answered, or goes to a step its operation has, keeps the
\* type of job.
LEMMA JobType ==
    ASSUME job \in [Workers -> Jobs], NEW w \in Workers
    PROVE  /\ Answer(w) => job' \in [Workers -> Jobs]
           /\ job[w].pc \in {"lookup", "load", "store"} =>
                \A pc \in {"lookup", "load", "store"} :
                    Goto(w, pc) => job' \in [Workers -> Jobs]
           /\ job[w].pc \in {"commit", "drop"} =>
                \A pc \in {"commit", "drop"} :
                    Goto(w, pc) => job' \in [Workers -> Jobs]
<1>1. Answer(w) => job' \in [Workers -> Jobs]
  BY DEF Answer, Jobs, Idle
<1>2. ASSUME job[w].pc \in {"lookup", "load", "store"},
             NEW pc \in {"lookup", "load", "store"}, Goto(w, pc)
      PROVE  job' \in [Workers -> Jobs]
  <2>1. job[w] \in [pc : {"lookup", "load", "store"}, op : {"auth"}]
    BY <1>2 DEF Jobs, Idle
  <2>2. [job[w] EXCEPT !.pc = pc] \in [pc : {"lookup", "load", "store"}, op : {"auth"}]
    BY <1>2, <2>1
  <2>3. [job[w] EXCEPT !.pc = pc] \in Jobs
    BY <2>2 DEF Jobs
  <2> QED BY <1>2, <2>3 DEF Goto
<1>3. ASSUME job[w].pc \in {"commit", "drop"},
             NEW pc \in {"commit", "drop"}, Goto(w, pc)
      PROVE  job' \in [Workers -> Jobs]
  <2>1. job[w] \in [pc : {"commit", "drop"}, op : AllOps \ {"auth"}, seen : BOOLEAN]
    BY <1>3 DEF Jobs, Idle
  <2>2. [job[w] EXCEPT !.pc = pc] \in [pc : {"commit", "drop"}, op : AllOps \ {"auth"}, seen : BOOLEAN]
    BY <1>3, <2>1
  <2>3. [job[w] EXCEPT !.pc = pc] \in Jobs
    BY <2>2 DEF Jobs
  <2> QED BY <1>3, <2>3 DEF Goto
<1> QED BY <1>1, <1>2, <1>3

\* A Redis call leaves the entry and the cooldown within their bounds.
LEMMA RedisType ==
    ASSUME entry \in 0..TTL, retry \in 0..Cooldown, NEW e \in 0..TTL,
           Called(e) \/ Lost(e)
    PROVE  entry' \in 0..TTL /\ retry' \in 0..Cooldown
BY AuthCacheAssumption DEF Called, Lost

\* Type correctness: whatever fails and however requests interleave, the entry
\* never outlasts its TTL, the client never stays away longer than its cooldown,
\* and a request is only ever at a step of its own operation.
THEOREM CacheTypeCorrect == CacheSpec => []CacheTypeOK
<1>1. CacheInit => CacheTypeOK
  <2>1. Idle \in Jobs
    BY DEF Jobs
  <2>2. CacheInit => entry \in 0..TTL /\ retry \in 0..Cooldown
    BY AuthCacheAssumption DEF CacheInit
  <2>3. CacheInit => job \in [Workers -> Jobs]
    BY <2>1 DEF CacheInit
  <2> QED BY <2>2, <2>3, Zenon DEF CacheInit, CacheTypeOK
<1>2. CacheTypeOK /\ [CacheNext]_cacheVars => CacheTypeOK'
  <2> SUFFICES ASSUME CacheTypeOK, [CacheNext]_cacheVars PROVE CacheTypeOK'
    OBVIOUS
  <2> USE DEF CacheTypeOK
  <2>1. CASE Tick
    <3>1. entry' \in 0..TTL /\ retry' \in 0..Cooldown
      BY <2>1, LessType, AuthCacheAssumption DEF Tick
    <3>2. leaked' \in BOOLEAN
      BY <2>1 DEF Tick, Leak
    <3> QED BY <2>1, <3>1, <3>2 DEF Tick
  <2>2. ASSUME NEW w \in Workers, Begin(w) PROVE CacheTypeOK'
    <3>1. [pc |-> "lookup", op |-> "auth"] \in Jobs
      BY DEF Jobs
    <3>2. \A op \in Ops \ {"auth"} : [pc |-> FirstStep(op), op |-> op, seen |-> active] \in Jobs
      BY AuthCacheAssumption DEF FirstStep, Jobs
    <3>3. job' \in [Workers -> Jobs]
      BY <2>2, <3>1, <3>2 DEF Begin
    <3> QED BY <2>2, <3>3 DEF Begin
  <2>3. ASSUME NEW w \in Workers, Lookup(w) PROVE CacheTypeOK'
    <3>1. job' \in [Workers -> Jobs]
      BY <2>3, JobType DEF Lookup, At
    <3>2. retry' \in 0..Cooldown
      BY <2>3, AuthCacheAssumption DEF Lookup
    <3> QED BY <2>3, <3>1, <3>2 DEF Lookup
  <2>4. ASSUME NEW w \in Workers, Load(w) PROVE CacheTypeOK'
    <3>1. job' \in [Workers -> Jobs]
      BY <2>4, JobType DEF Load, At
    <3> QED BY <2>4, <3>1 DEF Load
  <2>5. ASSUME NEW w \in Workers, Store(w) PROVE CacheTypeOK'
    <3>1. TTL \in 0..TTL
      BY AuthCacheAssumption
    <3>2. Answer(w) /\ entry' \in 0..TTL /\ retry' \in 0..Cooldown
      BY <2>5, <3>1, RedisType DEF Store, UseRedis
    <3>3. job' \in [Workers -> Jobs]
      BY <3>2, JobType
    <3>4. leaked' \in BOOLEAN
      BY <2>5 DEF Store, Leak
    <3> QED BY <2>5, <3>2, <3>3, <3>4 DEF Store
  <2>6. ASSUME NEW w \in Workers, Commit(w) PROVE CacheTypeOK'
    <3>1. job' \in [Workers -> Jobs]
      BY <2>6, JobType DEF Commit, At
    <3>2. active' \in BOOLEAN
      BY <2>6 DEF Commit, Written, IsActiveAfter
    <3>3. shut' \in BOOLEAN /\ leaked' \in BOOLEAN
      BY <2>6 DEF Commit, Promise, Leak
    <3> QED BY <2>6, <3>1, <3>2, <3>3 DEF Commit
  <2>7. ASSUME NEW w \in Workers, Drop(w) PROVE CacheTypeOK'
    <3>1. 0 \in 0..TTL
      BY AuthCacheAssumption
    <3>2. entry' \in 0..TTL /\ retry' \in 0..Cooldown
      BY <2>7, <3>1, RedisType DEF Drop
    <3>3. Answer(w) \/ Goto(w, "commit")
      BY <2>7 DEF Drop
    <3>4. job' \in [Workers -> Jobs]
      BY <2>7, <3>3, JobType DEF Drop, At
    <3>5. shut' \in BOOLEAN /\ leaked' \in BOOLEAN
      BY <2>7 DEF Drop, Promise, Leak
    <3> QED BY <2>7, <3>2, <3>4, <3>5 DEF Drop
  <2>8. CASE UNCHANGED cacheVars
    BY <2>8 DEF cacheVars
  <2> QED BY <2>1, <2>2, <2>3, <2>4, <2>5, <2>6, <2>7, <2>8 DEF CacheNext, Step
<1> QED BY <1>1, <1>2, PTL DEF CacheSpec

-----------------------------------------------------------------------------
(* The authentication cache: what outlives a suspension.                   *)

\* An answered suspension still stands in the database: whoever switches the
\* account on again withdraws the promise in the same COMMIT.
ShutIsSuspended == shut => ~active

LEMMA SuspendedInvariant == CacheSpec => []ShutIsSuspended
<1>1. CacheInit => ShutIsSuspended
  BY DEF CacheInit, ShutIsSuspended
<1>2. CacheTypeOK /\ ShutIsSuspended /\ [CacheNext]_cacheVars => ShutIsSuspended'
  <2> SUFFICES ASSUME CacheTypeOK, ShutIsSuspended, [CacheNext]_cacheVars PROVE ShutIsSuspended'
    OBVIOUS
  <2> USE DEF ShutIsSuspended
  <2>1. CASE Tick
    BY <2>1 DEF Tick
  <2>2. ASSUME NEW w \in Workers, Begin(w) \/ Lookup(w) \/ Load(w) \/ Store(w)
        PROVE  ShutIsSuspended'
    BY <2>2 DEF Begin, Lookup, Load, Store
  <2>3. ASSUME NEW w \in Workers, Commit(w) PROVE ShutIsSuspended'
    BY <2>3 DEF Commit, Promise
  <2>4. ASSUME NEW w \in Workers, Drop(w) PROVE ShutIsSuspended'
    BY <2>4 DEF Drop, Promise
  <2>5. CASE UNCHANGED cacheVars
    BY <2>5 DEF cacheVars
  <2> QED BY <2>1, <2>2, <2>3, <2>4, <2>5 DEF CacheNext, Step
<1> QED BY <1>1, <1>2, CacheTypeCorrect, PTL DEF CacheSpec

\* An entry that still admits an account whose suspension was answered was stored
\* from a row read before the suspension, survived a lost or skipped deletion, or
\* was stored after a moderation's early deletion; nothing else in
\* get_current_user, CacheService or the handlers that suspend can cause it.
THEOREM KnownLeaksOnly == CacheSpec => []OnlyKnownLeaks
<1>1. CacheInit => OnlyKnownLeaks
  BY DEF CacheInit, OnlyKnownLeaks
<1>2. CacheTypeOK /\ ShutIsSuspended /\ OnlyKnownLeaks /\ [CacheNext]_cacheVars => OnlyKnownLeaks'
  <2> SUFFICES ASSUME CacheTypeOK, ShutIsSuspended, OnlyKnownLeaks, [CacheNext]_cacheVars,
                      shut', entry' > 0
               PROVE  leaked'
    BY DEF OnlyKnownLeaks
  <2>1. shut /\ entry > 0 => leaked
    BY DEF OnlyKnownLeaks
  <2>2. CASE Tick
    <3>1. entry > 0
      BY <2>2, AuthCacheAssumption DEF Tick, Less, CacheTypeOK
    <3> QED BY <2>1, <2>2, <3>1 DEF Tick, Leak
  <2>3. ASSUME NEW w \in Workers, Begin(w) \/ Lookup(w) \/ Load(w) PROVE leaked'
    BY <2>1, <2>3 DEF Begin, Lookup, Load
  \* The row is suspended already, so storing it is a leak.
  <2>4. ASSUME NEW w \in Workers, Store(w) PROVE leaked'
    <3>1. shut
      BY <2>4 DEF Store
    <3>2. ~active
      BY <3>1 DEF ShutIsSuspended
    <3> QED BY <2>4, <3>2 DEF Store, Leak
  <2>5. ASSUME NEW w \in Workers, Commit(w) PROVE leaked'
    <3>1. CASE job[w].op = "moderate"
      BY <2>5, <3>1 DEF Commit, Leak
    \* Its own promise is not given before Drop; an older one had its leak marked.
    <3>2. CASE job[w].op # "moderate"
      <4>1. shut /\ entry > 0
        BY <2>5, <3>2 DEF Commit
      <4> QED BY <2>1, <2>5, <3>2, <4>1 DEF Commit, Leak
    <3> QED BY <3>1, <3>2
  \* A deletion that was carried out leaves no entry to ask about.
  <2>6. ASSUME NEW w \in Workers, Drop(w) PROVE leaked'
    <3>1. CASE Called(0)
      BY <3>1 DEF Called
    <3>2. CASE Lost(0) /\ Leak(TRUE)
      BY <3>2 DEF Leak
    <3> QED BY <2>6, <3>1, <3>2 DEF Drop
  <2>7. CASE UNCHANGED cacheVars
    BY <2>1, <2>7 DEF cacheVars
  <2> QED BY <2>2, <2>3, <2>4, <2>5, <2>6, <2>7 DEF CacheNext, Step
<1> QED BY <1>1, <1>2, CacheTypeCorrect, SuspendedInvariant, PTL DEF CacheSpec
=============================================================================
