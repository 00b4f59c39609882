------------------------------ MODULE ClubChat ------------------------------
(***************************************************************************)
(* The chat of one club in one process of the API: RedisChatManager, the   *)
(* WebSocket handler club_chat and the push notifications of a message.    *)
(*                                                                         *)
(* A connection registers a callback in the set of its user, and the first *)
(* of a club also opens a subscription to the club's channel with a task   *)
(* that listens to it.  A message is saved, its sender's club members that *)
(* were not connected get a push, and it is published; what the listener   *)
(* reads is broadcast to the callbacks, one after another, with an await   *)
(* in each.  Without Redis, or when publishing fails, the sender's own     *)
(* handler broadcasts.  Everything but the queries runs on the event loop: *)
(* a step here is what runs from one await to the next.                    *)
(*                                                                         *)
(* Two carriers per connection can broadcast: <<"sender", c>>, its handler, *)
(* and <<"listener", c>>, the task that c's subscription started.          *)
(***************************************************************************)
EXTENDS Integers, Sequences, FiniteSets

CONSTANTS
    Members,     \* the club's members, its leader among them
    Nobody,
    Conns,       \* connections, each opened once
    Owners,      \* the assignments of users to connections to start from
    Feuds,       \* the sets of pairs <<blocker, blocked>> to start from
    Phones,      \* the sets of members to start from whose session has a push token
    MaxCrossing, \* bound: SUBSCRIBEs under way at a time
    MaxMessages, \* bound: messages sent
    MaxFaults    \* bound: calls to Redis that fail, connections to it that break,
                 \* messages for which the push service fails

ASSUME ChatAssumption ==
    /\ Nobody \notin Members \cup Conns
    /\ Owners \subseteq [Conns -> Members]
    /\ Feuds \subseteq SUBSET {p \in Members \X Members : p[1] # p[2]}
    /\ Phones \subseteq SUBSET Members
    /\ {MaxMessages, MaxCrossing, MaxFaults} \subseteq Nat

Messages == 1..MaxMessages
Carriers == {"sender", "listener"} \X Conns

VARIABLES
    redis,      \* Redis answered when the process started
    who,        \* who[c]: the user of connection c
    blocks,     \* pairs <<blocker, blocked>>
    phones,     \* the members with a session row that holds a valid push token
    conn,       \* conn[c]: where c's handler is, and the message it handles
    seat,       \* seat[c]: the set c's callback is in, named by the connection it was made for
    listener,   \* listener[c]: the task c's subscription started
    registered, \* the connection whose listener _pubsubs and _listener_tasks name
    cast,       \* cast[k]: the broadcast that carrier k is in the middle of
    sender,     \* sender[m]: who sent message m
    there,      \* there[m]: the connections counted as connected when m was sent
    due,        \* due[m]: the connections registered when m was published
    pushed,     \* pushed[m]: the users whose push the service took
    lost,       \* lost[m]: the users whose push failed, which is logged only
    got,        \* got[c][m]: how often c was sent m
    failed,     \* history: connections whose SUBSCRIBE failed
    doubled,    \* history: a second listener was started
    unsure,     \* history: messages whose publishing failed after they got through
    excused,    \* history: messages that an error kept from someone
    faults      \* how many such faults there were

manager == <<seat, listener, registered>>
facts == <<redis, who, blocks, phones>>
record == <<sender, there, due, pushed, lost, got>>
past == <<failed, doubled, unsure, excused, faults>>
vars == <<facts, conn, manager, cast, record, past>>

NoCast == [msg |-> 0]
NoTask == [pc |-> "none", inbox |-> <<>>, on |-> FALSE]

Init ==
    /\ redis \in BOOLEAN
    /\ who \in Owners
    /\ blocks \in Feuds
    /\ phones \in Phones
    /\ conn = [c \in Conns |-> [pc |-> "new", msg |-> 0]]
    /\ seat = [c \in Conns |-> Nobody]
    /\ listener = [c \in Conns |-> NoTask]
    /\ registered = Nobody
    /\ cast = [k \in Carriers |-> NoCast]
    /\ sender = [m \in Messages |-> Nobody]
    /\ there = [m \in Messages |-> {}]
    /\ due = [m \in Messages |-> {}]
    /\ pushed = [m \in Messages |-> {}]
    /\ lost = [m \in Messages |-> {}]
    /\ got = [c \in Conns |-> [m \in Messages |-> 0]]
    /\ failed = {} /\ doubled = FALSE /\ unsure = {} /\ excused = {}
    /\ faults = 0

-----------------------------------------------------------------------------
(* Connections and listeners.                                              *)

Seated == {c \in Conns : seat[c] # Nobody}
Live(f) == {c \in Seated : seat[c] = f}
Tasks == {c \in Conns : listener[c].pc # "none"}

\* Faulty variant: one callback per user, the last one to come.
Seat_Last(c) == [d \in Conns |-> IF d = c THEN c ELSE IF who[d] = who[c] THEN Nobody ELSE seat[d]]

\* The callback joins the set of its user, or starts one.
Seat(c) ==
    LET mates == {seat[d] : d \in {x \in Seated : who[x] = who[c]}} IN
    [seat EXCEPT ![c] = IF mates = {} THEN c ELSE CHOOSE f \in mates : TRUE]

\* Token and membership were checked, once; then the callback is registered,
\* and only a club without a subscription awaits one.
Arrive(c) ==
    /\ conn[c].pc = "new"
    /\ Cardinality({d \in Conns : conn[d].pc = "subscribing"}) < MaxCrossing
    /\ seat' = Seat(c)
    /\ conn' = [conn EXCEPT ![c].pc =
                  IF redis /\ registered = Nobody THEN "subscribing" ELSE "open"]
    /\ UNCHANGED <<facts, listener, registered, cast, record, past>>

\* What the dictionaries named before is overwritten.
Subscribed(c) ==
    /\ conn[c].pc = "subscribing"
    /\ conn' = [conn EXCEPT ![c].pc = "open"]
    /\ listener' = [listener EXCEPT ![c] = [pc |-> "listening", inbox |-> <<>>, on |-> TRUE]]
    /\ registered' = c
    /\ doubled' = (doubled \/ Tasks # {})
    /\ UNCHANGED <<facts, seat, cast, record, failed, unsure, excused, faults>>

Fault == faults < MaxFaults /\ faults' = faults + 1

NotSubscribed(c) ==
    /\ conn[c].pc = "subscribing"
    /\ conn' = [conn EXCEPT ![c].pc = "open"]
    /\ Fault
    /\ failed' = failed \cup {c}
    /\ UNCHANGED <<facts, manager, cast, record, doubled, unsure, excused>>

\* Faulty variant: only the connections of the same user are looked for.
StillUsed_Own(c) == \E d \in Seated \ {c} : who[d] = who[c]

\* has_local_subscribers
StillUsed(c) == Seated \ {c} # {}

Cancelled(l) == [cast EXCEPT ![<<"listener", l>>] = NoCast]

Leave(c) ==
    /\ conn[c].pc = "open"
    /\ conn' = [conn EXCEPT ![c].pc = "closed"]
    /\ seat' = [seat EXCEPT ![c] = Nobody]
    /\ IF StillUsed(c) \/ registered = Nobody
       THEN UNCHANGED <<listener, registered, cast>>
       ELSE /\ listener' = [listener EXCEPT ![registered] = NoTask]
            /\ cast' = Cancelled(registered)
            /\ registered' = Nobody
    /\ UNCHANGED <<facts, record, past>>

-----------------------------------------------------------------------------
(* Sending.                                                                *)

Blocked(u, v) == <<u, v>> \in blocks \/ <<v, u>> \in blocks

\* users_are_disconnected raises when it finds both rows.
Mutual(u, v) == {<<u, v>>, <<v, u>>} \subseteq blocks

\* The connection's database session is in use by another thread of the pool:
\* SQLAlchemy may refuse, or not.
Overlap(c, k) ==
    \/ conn[c].pc \in {"saving", "notifying"} /\ k # <<"sender", c>>
    \/ \E j \in Carriers \ {k} : cast[j] # NoCast /\ cast[j].calling = c

\* Who is connected is read first.
Send(c) ==
    \E m \in Messages :
        /\ conn[c].pc = "open"
        /\ \A n \in Messages : sender[n] = Nobody <=> n >= m
        /\ conn' = [conn EXCEPT ![c] = [pc |-> "saving", msg |-> m]]
        /\ sender' = [sender EXCEPT ![m] = who[c]]
        /\ there' = [there EXCEPT ![m] = Seated]
        /\ UNCHANGED <<facts, manager, cast, due, pushed, lost, got, past>>

\* Membership is not asked again; the INSERT fails when the club is gone.
Save(c) ==
    /\ conn[c].pc = "saving"
    /\ \E next \in {"notifying", "open"} : conn' = [conn EXCEPT ![c].pc = next]
    /\ UNCHANGED <<facts, manager, cast, record, past>>

\* Whom a message of u may be shown to.
Reach(u) == {v \in Members \ {u} : ~Blocked(v, u)}

\* Whoever was not connected when the message came, and has a push token, is
\* sent a push, one after another; a call that fails is logged, and the others
\* are made.  An outage counts as one fault, whomever it takes.  An error in
\* the queries is logged as well, and nobody is sent a push.
Notify(c) ==
    LET m == conn[c].msg
        mutual == \E u \in Members \ {who[c]} : Mutual(u, who[c])
        called == (Reach(who[c]) \ {who[d] : d \in there[m]}) \cap phones
    IN
    /\ conn[c].pc = "notifying"
    /\ \/ /\ ~mutual
          /\ \E gone \in SUBSET called :
               /\ pushed' = [pushed EXCEPT ![m] = called \ gone]
               /\ lost' = [lost EXCEPT ![m] = gone]
               /\ IF gone = {} THEN UNCHANGED faults ELSE Fault
          /\ UNCHANGED excused
       \/ /\ Overlap(c, <<"sender", c>>) \/ mutual
          /\ excused' = excused \cup {m}
          /\ UNCHANGED <<pushed, lost, faults>>
    /\ conn' = [conn EXCEPT ![c].pc = "publishing"]
    /\ UNCHANGED <<facts, manager, cast, sender, there, due, got, failed, doubled, unsure>>

\* A broadcast of m that has all sets of callbacks before it.
Broadcast(m) ==
    [msg |-> m, left |-> {seat[c] : c \in Seated}, at |-> Nobody, seen |-> {},
     done |-> {}, calling |-> Nobody]

Listening == {l \in Conns : listener[l].on}

\* Redis hands the message to every subscription that is up.
Deliver(m) ==
    [l \in Conns |-> IF l \in Listening
                     THEN [listener[l] EXCEPT !.inbox = Append(@, m)] ELSE listener[l]]

\* Faulty variant: the handler broadcasts after publishing as well.
AfterPublish_Both == {"done", "failed", "lost_answer"} \X {TRUE}

\* How publish ends, and whether the handler then broadcasts itself.
AfterPublish == {<<"done", FALSE>>, <<"failed", TRUE>>, <<"lost_answer", TRUE>>}

Publish(c) ==
    LET m == conn[c].msg IN
    \E end \in IF redis THEN AfterPublish ELSE {<<"failed", TRUE>>} :
        /\ conn[c].pc = "publishing"
        /\ IF redis /\ end[1] # "done" THEN Fault ELSE UNCHANGED faults
        /\ listener' = IF end[1] = "failed" THEN listener ELSE Deliver(m)
        /\ unsure' = IF end[1] = "lost_answer" THEN unsure \cup {m} ELSE unsure
        /\ due' = [due EXCEPT ![m] = Seated]
        /\ IF end[2]
           THEN /\ cast' = [cast EXCEPT ![<<"sender", c>>] = Broadcast(m)]
                /\ conn' = [conn EXCEPT ![c].pc = "casting"]
                /\ UNCHANGED excused
           ELSE /\ conn' = [conn EXCEPT ![c].pc = "open"]
                /\ excused' = IF Listening = {} THEN excused \cup {m} ELSE excused
                /\ UNCHANGED cast
        /\ UNCHANGED <<facts, seat, registered, sender, there, pushed, lost, got, failed, doubled>>

-----------------------------------------------------------------------------
(* Listening.                                                              *)

Listen(l) ==
    /\ listener[l].pc = "listening"
    /\ listener[l].inbox # <<>>
    /\ cast' = [cast EXCEPT ![<<"listener", l>>] = Broadcast(Head(listener[l].inbox))]
    /\ listener' = [listener EXCEPT ![l].pc = "casting", ![l].inbox = Tail(@)]
    /\ UNCHANGED <<facts, conn, seat, registered, record, past>>

\* The connection to Redis breaks; what was on its way is gone.
Break(l) ==
    /\ listener[l].pc = "listening"
    /\ Fault
    /\ listener' = [listener EXCEPT ![l] = [pc |-> "sleeping", inbox |-> <<>>, on |-> FALSE]]
    /\ excused' = excused \cup {listener[l].inbox[i] : i \in DOMAIN listener[l].inbox}
    /\ UNCHANGED <<facts, conn, seat, registered, cast, record, failed, doubled, unsure>>

\* After the backoff the task reads on, and the subscription is made again.
Wake(l) ==
    /\ listener[l].pc = "sleeping"
    /\ listener' = [listener EXCEPT ![l].pc = "listening", ![l].on = TRUE]
    /\ UNCHANGED <<facts, conn, seat, registered, cast, record, past>>

-----------------------------------------------------------------------------
(* _broadcast_local.                                                       *)

\* Where a carrier goes when its broadcast ends, well or with an error.
Finish(k, well) ==
    /\ cast' = [cast EXCEPT ![k] = NoCast]
    /\ IF k[1] = "sender"
       THEN conn' = [conn EXCEPT ![k[2]].pc = "open"] /\ UNCHANGED listener
       ELSE /\ listener' = [listener EXCEPT ![k[2]].pc =
                              IF well THEN "listening" ELSE "sleeping"]
            /\ UNCHANGED conn

\* Nothing of the set that is being iterated is left to call.
SetDone(b) == b.at = Nobody \/ (Live(b.at) \cap b.seen) \ b.done = {}

\* "Set changed size during iteration"
SetChanged(b) == b.at # Nobody /\ Cardinality(Live(b.at)) # Cardinality(b.seen)

\* The calls that can come next: in this set, or the first in another.
Calls(b) ==
    {[b EXCEPT !.done = @ \cup {c}, !.calling = c] : c \in Live(b.at) \ b.done}
    \cup {[b EXCEPT !.left = @ \ {seat[c]}, !.at = seat[c], !.seen = Live(seat[c]),
                   !.done = {c}, !.calling = c] :
             c \in {d \in Seated : SetDone(b) /\ seat[d] \in b.left}}

\* Carrier k, in broadcast b, goes on to its next call or ends: whoever was
\* still to come when the set has changed gets nothing.
GoOn(k, b) ==
    \/ SetChanged(b) /\ Finish(k, FALSE)
    \/ /\ ~SetChanged(b)
       /\ \E next \in Calls(b) : cast' = [cast EXCEPT ![k] = next]
       /\ UNCHANGED <<conn, listener>>
    \/ /\ ~SetChanged(b) /\ SetDone(b)
       /\ \A f \in b.left : Live(f) = {}
       /\ Finish(k, TRUE)

StartBroadcast(k) ==
    /\ cast[k] # NoCast
    /\ cast[k].calling = Nobody
    /\ GoOn(k, cast[k])
    /\ UNCHANGED <<facts, seat, registered, record, past>>

\* Faulty variant: only the receiver's own blocks are looked at.
Shown_OneWay(c, m) == <<who[c], sender[m]>> \notin blocks

\* A callback that raises is logged, so two blocks are as good as one.
Shown(c, m) == ~Blocked(who[c], sender[m])

\* The callback that is running ends, and the broadcast goes on.
Callback(k) ==
    LET b == cast[k]
        c == b.calling
        shown == Shown(c, b.msg) /\ conn[c].pc # "closed"
    IN
    /\ b # NoCast
    /\ c # Nobody
    /\ GoOn(k, b)
    /\ \E ok \in IF Overlap(c, k) THEN BOOLEAN ELSE {TRUE} :
         /\ got' = IF ok /\ shown THEN [got EXCEPT ![c][b.msg] = @ + 1] ELSE got
         /\ excused' = IF SetChanged(b) \/ ~ok THEN excused \cup {b.msg} ELSE excused
    /\ UNCHANGED <<facts, seat, registered, sender, there, due, pushed, lost, failed, doubled,
                   unsure, faults>>

-----------------------------------------------------------------------------
Next ==
    \/ \E c \in Conns :
         \/ Arrive(c) \/ Subscribed(c) \/ NotSubscribed(c) \/ Leave(c)
         \/ Send(c) \/ Save(c) \/ Notify(c) \/ Publish(c)
         \/ Listen(c) \/ Break(c) \/ Wake(c)
    \/ \E k \in Carriers :
         StartBroadcast(k) \/ Callback(k)

Spec == Init /\ [][Next]_vars

-----------------------------------------------------------------------------
(* Properties.                                                             *)

\* A broadcast that is under way.
Casts ==
    [msg : Messages, left : SUBSET Conns, at : Conns \cup {Nobody}, seen : SUBSET Conns,
     done : SUBSET Conns, calling : Conns \cup {Nobody}]

Listeners ==
    [pc : {"none", "listening", "casting", "sleeping"}, inbox : Seq(Messages), on : BOOLEAN]

\* Type invariant: the states, and that exactly those broadcast who say so.
TypeOK ==
    /\ redis \in BOOLEAN /\ who \in [Conns -> Members]
    /\ blocks \subseteq Members \X Members /\ phones \subseteq Members
    /\ conn \in [Conns -> [pc : {"new", "subscribing", "open", "saving", "notifying",
                                 "publishing", "casting", "closed"}, msg : 0..MaxMessages]]
    /\ seat \in [Conns -> Conns \cup {Nobody}]
    /\ listener \in [Conns -> Listeners]
    /\ registered \in Conns \cup {Nobody}
    /\ cast \in [Carriers -> {NoCast} \cup Casts]
    /\ \A c \in Conns :
         /\ cast[<<"sender", c>>] # NoCast <=> conn[c].pc = "casting"
         /\ cast[<<"listener", c>>] # NoCast <=> listener[c].pc = "casting"
    /\ sender \in [Messages -> Members \cup {Nobody}]
    /\ there \in [Messages -> SUBSET Conns] /\ due \in [Messages -> SUBSET Conns]
    /\ pushed \in [Messages -> SUBSET Members] /\ lost \in [Messages -> SUBSET Members]
    /\ got \in [Conns -> [Messages -> Nat]]
    /\ failed \subseteq Conns /\ doubled \in BOOLEAN
    /\ unsure \subseteq Messages /\ excused \subseteq Messages
    /\ faults \in 0..MaxFaults

\* A club has a registered listener as long as anybody is connected, unless
\* their SUBSCRIBE failed or is under way; it has none when nobody is; and
\* others only after two SUBSCRIBEs crossed.
ListenerWhileNeeded ==
    /\ registered = Nobody /\ redis =>
         \A c \in Seated : conn[c].pc = "subscribing" \/ c \in failed
    /\ registered # Nobody => Seated # {} /\ registered \in Tasks
    /\ Tasks \subseteq {registered} \/ doubled

\* "Evitar múltiples suscripciones al mismo canal" (redis_service.py:115): a
\* club never has two listeners.
OneListener == Cardinality(Tasks) <= 1

\* A connection is sent a message once, unless the club has had two listeners
\* or the message was published by a call that failed.
DeliveredOnce ==
    \A c \in Conns, m \in Messages : got[c][m] > 1 => doubled \/ m \in unsure

\* Nobody carries m any more.
Settled(m) ==
    /\ sender[m] # Nobody
    /\ \A c \in Conns : conn[c].msg = m => conn[c].pc \in {"open", "closed"}
    /\ \A l \in Conns : \A i \in DOMAIN listener[l].inbox : listener[l].inbox[i] # m
    /\ \A k \in Carriers : cast[k].msg # m

\* Whoever was registered when a message was published has got it in the end,
\* unless they left, a block keeps it from them, or an error excuses it: a
\* broadcast that was aborted, a broken subscription, nobody subscribed, or a
\* session used twice.
ReachesConnections ==
    \A m \in Messages :
        Settled(m) /\ m \notin excused =>
            \A c \in due[m] : \/ got[c][m] > 0
                              \/ conn[c].pc = "closed"
                              \/ Blocked(who[c], sender[m])

\* A member who was counted as connected when a message was sent gets it,
\* unless such a connection has closed since; any other member is sent a push,
\* unless they have no push token or the push service failed.  A block between
\* them and the sender, or an error that is recorded, excuses both.
ReachesMembers ==
    \A m \in Messages :
        Settled(m) /\ due[m] # {} /\ m \notin excused =>
            \A u \in Reach(sender[m]) :
                IF u \in {who[c] : c \in there[m]}
                THEN \E c \in Conns :
                        /\ who[c] = u
                        /\ got[c][m] > 0 \/ (c \in there[m] /\ conn[c].pc = "closed")
                ELSE u \in phones => u \in pushed[m] \cup lost[m]

\* A block in either direction keeps messages and pushes away.
BlockedHearNothing ==
    \A m \in Messages, u \in Members :
        sender[m] # Nobody /\ Blocked(u, sender[m]) =>
            /\ u \notin pushed[m] \cup lost[m]
            /\ \A c \in Conns : who[c] = u => got[c][m] = 0
=============================================================================
