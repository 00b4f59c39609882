---------------------------- MODULE ClubContent ----------------------------
(***************************************************************************)
(* What members put into a club, the pictures kept in the object store for *)
(* it, and what closing an account does to both.                           *)
(*                                                                         *)
(* A row of content is a post, a comment, a like or an event of one club.  *)
(* Posts, accounts and the club name objects in the store by their keys.   *)
(* Rows and objects are written by different systems, so each handler      *)
(* fixes an order: a photo is uploaded, committed and only then is the old *)
(* one removed; the picture of a club and everything of a closed account   *)
(* are removed from the store first.                                       *)
(*                                                                         *)
(* create_club_post, update_my_profile, update_club, delete_club and       *)
(* delete_my_account are async and interleave where they await the store;  *)
(* the other handlers run in the thread pool, anywhere.                    *)
(***************************************************************************)
EXTENDS Integers, FiniteSets

CONSTANTS
    Users, Nobody,
    Rows,     \* identifiers of content rows, never used twice
    Kinds,    \* the kinds of content in use, "post" among them
    Workers,
    Ops,      \* the operations in use
    MaxKeys   \* bound: uploads; keys are uuids and never used twice

ASSUME ContentAssumption ==
    /\ Nobody \notin Users \cup Rows
    /\ Kinds \subseteq {"post", "comment", "like", "event"}
    /\ MaxKeys \in Nat

VARIABLES
    club,     \* the club's row: status, leader and picture
    row,      \* row[r]: a row of content, NoRow before, Gone after
    photo,    \* photo[u]: the key in u's row, 0 when there is none
    closed,   \* the accounts anonymised by DELETE /users/me
    stored,   \* the keys of the objects in the store
    owner,    \* owner[k]: the account that uploaded object k
    lastKey,  \* the last key handed out
    job,      \* job[w]: the request worker w is serving
    raced,    \* history: accounts that wrote while they were being closed
    loose,    \* history: keys whose row went without them
    broken    \* history: a removal of objects ended before its COMMIT

vars == <<club, row, photo, closed, stored, owner, lastKey, job, raced, loose, broken>>
past == <<raced, loose, broken>>

NoRow == [kind |-> "no_row"]
Gone == [kind |-> "gone"]
Exists(r) == row[r] \notin {NoRow, Gone}
Live(r, kind) == Exists(r) /\ row[r].kind = kind

Idle == [pc |-> "idle"]
AllOps == {"add", "delete", "photo", "picture", "delete_club", "close"}

Init ==
    /\ \E u \in Users : club = [status |-> "live", leader |-> u, picture |-> 0]
    /\ row = [r \in Rows |-> NoRow]
    /\ photo = [u \in Users |-> 0]
    /\ closed = {}
    /\ stored = {}
    /\ owner = [k \in 1..MaxKeys |-> Nobody]
    /\ lastKey = 0
    /\ job = [w \in Workers |-> Idle]
    /\ raced = {}
    /\ loose = {}
    /\ broken = FALSE

-----------------------------------------------------------------------------
(* Scheduling.                                                             *)

Async(j) == IF j.op = "add" THEN j.kind = "post" ELSE j.op # "delete"

\* An async handler keeps the event loop until it awaits the store.  One that
\* has nothing to upload or to remove does not await at all, and closing an
\* account does not from its first DELETE to its COMMIT.
InSection(w) ==
    \/ job[w].pc \in {"own", "close"}
    \/ job[w].pc = "insert" /\ Async(job[w]) /\ job[w].key = 0
    \/ job[w].pc = "drop_club" /\ job[w].old = 0

OnLoop(w, j) == Async(j) => \A v \in Workers \ {w} : ~InSection(v)

At(w, pc) == job[w].pc = pc /\ OnLoop(w, job[w])

Reply(w) == job' = [job EXCEPT ![w] = Idle]

\* A request of an account that is not closed passes authentication.
Begin(w, j) ==
    /\ job[w].pc = "idle"
    /\ j.op \in Ops
    /\ j.user \notin closed
    /\ job' = [job EXCEPT ![w] = j]
    /\ OnLoop(w, j)
    /\ UNCHANGED <<club, row, photo, closed, stored, owner, lastKey, past>>

\* A request that closes the account has read these rows already: posts and
\* the photo before the first await, the rest when it deletes them.
ReadAt(kind) == IF kind \in {"post", "photo"} THEN {"wipe", "own", "close"} ELSE {"close"}

BeingClosed(u, kind) ==
    u \in closed \/ \E v \in Workers : job[v].pc \in ReadAt(kind) /\ job[v].user = u

RacedBy(u, kind) == raced' = IF BeingClosed(u, kind) THEN raced \cup {u} ELSE raced

\* storage_service.upload_file: the object is stored under a new key, or the
\* handler answers an error and its transaction is dropped.  What it stored
\* before the error stays: the answer of the store was lost, or this was one of
\* several images and a later one failed.
Upload(w, next) ==
    \/ /\ lastKey < MaxKeys
       /\ lastKey' = lastKey + 1
       /\ stored' = stored \cup {lastKey + 1}
       /\ owner' = [owner EXCEPT ![lastKey + 1] = job[w].user]
       /\ \/ /\ job' = [job EXCEPT ![w].pc = next, ![w].key = lastKey + 1]
             /\ UNCHANGED loose
          \/ Reply(w) /\ loose' = loose \cup {lastKey + 1}
    \/ Reply(w) /\ UNCHANGED <<lastKey, stored, owner, loose>>

-----------------------------------------------------------------------------
(* Content.                                                                *)

\* Bound: an identifier is left for every request in flight.
RoomForRow ==
    Cardinality({r \in Rows : row[r] = NoRow}) >
        Cardinality({v \in Workers : job[v] # Idle /\ job[v].op = "add"})

\* Two functions check the membership, and only the one that posts do not use
\* refuses an archived club.
Open(kind) == club.status = "live" \/ (kind = "post" /\ club.status = "archived")

\* The membership is checked against the club row just read; every account is
\* taken to be a member.
Add(w, u, kind, post, pc) ==
    /\ kind \in Kinds
    /\ RoomForRow
    /\ Open(kind)
    /\ Begin(w, [pc |-> pc, op |-> "add", user |-> u, kind |-> kind, post |-> post, key |-> 0])

\* With or without an image.
AddPost(w) ==
    \E u \in Users, pc \in {"upload", "insert"} : Add(w, u, "post", Nobody, pc)

AddComment(w) ==
    \E u \in Users, p \in Rows : Live(p, "post") /\ Add(w, u, "comment", p, "insert")

Liked(u, p) == \E r \in Rows : Live(r, "like") /\ row[r].author = u /\ row[r].post = p

AddLike(w) ==
    \E u \in Users, p \in Rows :
        /\ Live(p, "post")
        /\ ~Liked(u, p)
        /\ Add(w, u, "like", p, "insert")

\* Events are for the leader.
AddEvent(w) == Add(w, club.leader, "event", Nobody, "insert")

\* The post's INSERT is flushed before; the image row comes with the COMMIT.
UploadImage(w) ==
    /\ At(w, "upload")
    /\ job[w].op = "add"
    /\ Upload(w, "insert")
    /\ UNCHANGED <<club, row, photo, closed, raced, broken>>

\* What the tables ask of a row: the foreign keys, and one like per account.
PostFits(j) == club.status # "deleted"
EventFits(j) == club.status # "deleted"
CommentFits(j) == Live(j.post, "post")
LikeFits(j) == Live(j.post, "post") /\ ~Liked(j.user, j.post)

Fits(j) ==
    CASE j.kind = "post"    -> PostFits(j)
      [] j.kind = "event"   -> EventFits(j)
      [] j.kind = "comment" -> CommentFits(j)
      [] j.kind = "like"    -> LikeFits(j)

Insert(w) ==
    LET j == job[w] IN
    /\ At(w, "insert")
    /\ j.op = "add"
    /\ \/ /\ Fits(j)
          /\ \E r \in Rows :
               /\ row[r] = NoRow
               /\ row' = [row EXCEPT ![r] =
                    [kind |-> j.kind, author |-> j.user, post |-> j.post, key |-> j.key]]
          /\ RacedBy(j.user, j.kind)
          /\ UNCHANGED loose
       \/ /\ ~Fits(j)
          /\ loose' = loose \cup ({j.key} \ {0})
          /\ UNCHANGED <<row, raced>>
    /\ Reply(w)
    /\ UNCHANGED <<club, photo, closed, stored, owner, lastKey, broken>>

Delete(w, u, r) ==
    /\ club.status = "live"
    /\ Begin(w, [pc |-> "drop", op |-> "delete", user |-> u, row |-> r])

\* By its author or the leader.
DeletePost(w) ==
    \E r \in Rows : Live(r, "post") /\ \E u \in {row[r].author, club.leader} : Delete(w, u, r)

DeleteComment(w) ==
    \E r \in Rows : Live(r, "comment") /\ \E u \in {row[r].author, club.leader} : Delete(w, u, r)

Unlike(w) == \E r \in Rows : Live(r, "like") /\ Delete(w, row[r].author, r)

DeleteEvent(w) == \E r \in Rows : Live(r, "event") /\ Delete(w, club.leader, r)

\* Rows and what hangs on them: the cascade of a post's foreign keys.
WithReplies(rs) == rs \cup {r \in Rows : Exists(r) /\ row[r].post \in rs}

KeysOf(rs) == {row[r].key : r \in {x \in rs : Exists(x)}} \ {0}

Without(rs) == [r \in Rows |-> IF r \in rs /\ Exists(r) THEN Gone ELSE row[r]]

\* The image of a deleted post stays in the store.
DropRow(w) ==
    LET rs == WithReplies({job[w].row}) IN
    /\ At(w, "drop")
    /\ row' = Without(rs)
    /\ loose' = loose \cup KeysOf(rs)
    /\ Reply(w)
    /\ UNCHANGED <<club, photo, closed, stored, owner, lastKey, raced, broken>>

-----------------------------------------------------------------------------
(* update_my_profile.                                                      *)

LoadProfile(w) ==
    \E u \in Users :
        Begin(w, [pc |-> "upload", op |-> "photo", user |-> u, key |-> 0, old |-> photo[u]])

UploadPhoto(w) ==
    /\ At(w, "upload")
    /\ job[w].op = "photo"
    /\ Upload(w, "insert")
    /\ UNCHANGED <<club, row, photo, closed, raced, broken>>

\* The row of an account is never deleted, so the UPDATE finds it, closed or
\* not.
CommitPhoto(w) ==
    LET j == job[w] IN
    /\ At(w, "insert")
    /\ j.op = "photo"
    /\ photo' = [photo EXCEPT ![j.user] = j.key]
    /\ RacedBy(j.user, "photo")
    /\ IF j.old = 0 THEN Reply(w) ELSE job' = [job EXCEPT ![w].pc = "tidy"]
    /\ loose' = loose \cup ({photo[j.user]} \ {0})
    /\ UNCHANGED <<club, row, closed, stored, owner, lastKey, broken>>

\* Faulty variant: the photo that is current by now is removed.
DropOldPhoto_Current(w) ==
    /\ At(w, "tidy")
    /\ \/ stored' = stored \ {photo[job[w].user]}
       \/ UNCHANGED stored
    /\ Reply(w)
    /\ UNCHANGED <<club, row, photo, closed, owner, lastKey, past>>

\* The object named before is removed, or stays when the store refuses.
DropOldPhoto(w) ==
    /\ At(w, "tidy")
    /\ \/ stored' = stored \ {job[w].old}
       \/ UNCHANGED stored
    /\ Reply(w)
    /\ UNCHANGED <<club, row, photo, closed, owner, lastKey, past>>

-----------------------------------------------------------------------------
(* update_club, delete_club.                                               *)

\* What follows when there is no old picture, or no longer.
Cleared(op) == IF op = "picture" THEN "upload" ELSE "drop_club"

LoadClub(w) ==
    \E op \in {"picture", "delete_club"} :
        /\ club.status # "deleted"
        /\ Begin(w, [pc |-> IF club.picture = 0 THEN Cleared(op) ELSE "clear", op |-> op,
                     user |-> club.leader, key |-> 0, old |-> club.picture])

\* storage_service.delete_file, when it ends in an error: the call may have
\* reached the store, and a call before it may have succeeded.
RemovalFails(w, k) ==
    /\ stored' \in {stored, stored \ {k}}
    /\ broken' = TRUE
    /\ Reply(w)

\* The old picture is removed before anything is written.  A club has two, one
\* after the other: the failure of the second leaves what the first has done.
ClearPicture(w) ==
    /\ At(w, "clear")
    /\ \/ /\ stored' = stored \ {job[w].old}
          /\ job' = [job EXCEPT ![w].pc = Cleared(job[w].op)]
          /\ UNCHANGED broken
       \/ RemovalFails(w, job[w].old)
    /\ UNCHANGED <<club, row, photo, closed, owner, lastKey, raced, loose>>

UploadPicture(w) ==
    /\ At(w, "upload")
    /\ job[w].op = "picture"
    /\ Upload(w, "insert")
    /\ broken' = (broken \/ (job'[w] = Idle /\ job[w].old # 0))
    /\ UNCHANGED <<club, row, photo, closed, raced>>

\* The ORM raises when the club was deleted meanwhile.
CommitPicture(w) ==
    /\ At(w, "insert")
    /\ job[w].op = "picture"
    /\ IF club.status = "deleted"
       THEN loose' = loose \cup {job[w].key} /\ UNCHANGED club
       ELSE /\ club' = [club EXCEPT !.picture = job[w].key]
            /\ loose' = loose \cup ({club.picture} \ {0})
    /\ Reply(w)
    /\ UNCHANGED <<row, photo, closed, stored, owner, lastKey, raced, broken>>

\* A post that is being uploaded holds its INSERT's lock on the club's row
\* (module EventLoop says what becomes of those who want to delete it).
PostInFlight(w) == job[w].pc \in {"upload", "insert"} /\ job[w].op = "add" /\ job[w].kind = "post"

DropClub(w) ==
    /\ At(w, "drop_club")
    /\ \A v \in Workers : ~PostInFlight(v)
    /\ row' = Without(Rows)
    /\ loose' = loose \cup KeysOf(Rows) \cup ({club.picture} \ {0})
    /\ club' = [club EXCEPT !.status = "deleted", !.picture = 0]
    /\ Reply(w)
    /\ UNCHANGED <<photo, closed, stored, owner, lastKey, raced, broken>>

-----------------------------------------------------------------------------
(* delete_my_account.                                                      *)

Posts(u) == {r \in Rows : Live(r, "post") /\ row[r].author = u}

\* The posts, their images and the photo are read before the first await.
LoadOwn(w) ==
    \E u \in Users :
        LET keys == (KeysOf(Posts(u)) \cup {photo[u]}) \ {0} IN
        Begin(w, [pc |-> IF keys = {} THEN "own" ELSE "wipe", op |-> "close", user |-> u,
                  posts |-> Posts(u), keys |-> keys, photo |-> photo[u]])

\* The objects go one by one; the first that does not ends the request.
WipeObject(w) ==
    /\ At(w, "wipe")
    /\ \E k \in job[w].keys :
         \/ /\ stored' = stored \ {k}
            /\ job' = [job EXCEPT ![w].keys = @ \ {k}]
            /\ broken' = broken
         \/ RemovalFails(w, k)
    /\ UNCHANGED <<club, row, photo, closed, owner, lastKey, raced, loose>>

\* Faulty variant: of the content only the posts are deleted.
Own_Posts(j) == WithReplies(j.posts)

\* The rows the DELETEs find: the posts read before, and everything else the
\* account wrote so far.
Own(j) ==
    WithReplies(j.posts \cup {r \in Rows : Exists(r) /\ row[r].author = j.user
                                                     /\ row[r].kind # "post"})

DeleteOwn(w) ==
    /\ \/ At(w, "own")
       \/ At(w, "wipe") /\ job[w].keys = {}
    /\ job' = [job EXCEPT ![w] = [pc |-> "close", op |-> "close", user |-> @.user,
                                 rows |-> Own(@), photo |-> @.photo]]
    /\ UNCHANGED <<club, row, photo, closed, stored, owner, lastKey, past>>

\* Another account inherits the club, or it is archived.
Inherited(u) ==
    LET heirs == Users \ (closed \cup {u}) IN
    IF club.leader # u \/ club.status = "deleted" THEN {club}
    ELSE IF heirs = {} THEN {[club EXCEPT !.status = "archived"]}
    ELSE {[club EXCEPT !.leader = v] : v \in heirs}

\* The ORM writes a column that differs from what was loaded: without a photo
\* then, it leaves one that was committed since.
CommitClose(w) ==
    LET u == job[w].user IN
    /\ At(w, "close")
    /\ \A v \in Workers : PostInFlight(v) => job[v].user # u
    /\ row' = Without(job[w].rows)
    /\ photo' = IF job[w].photo = 0 THEN photo ELSE [photo EXCEPT ![u] = 0]
    /\ closed' = closed \cup {u}
    /\ club' \in Inherited(u)
    /\ Reply(w)
    /\ UNCHANGED <<stored, owner, lastKey, past>>

-----------------------------------------------------------------------------
Next ==
    \E w \in Workers :
       \/ AddPost(w) \/ AddComment(w) \/ AddLike(w) \/ AddEvent(w)
       \/ UploadImage(w) \/ Insert(w)
       \/ DeletePost(w) \/ DeleteComment(w) \/ Unlike(w) \/ DeleteEvent(w) \/ DropRow(w)
       \/ LoadProfile(w) \/ UploadPhoto(w) \/ CommitPhoto(w) \/ DropOldPhoto(w)
       \/ LoadClub(w) \/ ClearPicture(w) \/ UploadPicture(w) \/ CommitPicture(w) \/ DropClub(w)
       \/ LoadOwn(w) \/ WipeObject(w) \/ DeleteOwn(w) \/ CommitClose(w)

Spec == Init /\ [][Next]_vars

-----------------------------------------------------------------------------
(* Properties.                                                             *)

Kept == 0..MaxKeys

\* The requests in flight, by operation.
Jobs ==
    {Idle}
    \cup [pc : {"upload", "insert"}, op : {"add"}, user : Users,
           kind : Kinds, post : Rows \cup {Nobody}, key : Kept]
    \cup [pc : {"drop"}, op : {"delete"}, user : Users, row : Rows]
    \cup [pc : {"upload", "insert", "tidy"}, op : {"photo"}, user : Users, key : Kept, old : Kept]
    \cup [pc : {"clear", "upload", "insert"}, op : {"picture"}, user : Users, key : Kept, old : Kept]
    \cup [pc : {"clear", "drop_club"}, op : {"delete_club"}, user : Users, key : Kept, old : Kept]
    \cup [pc : {"own", "wipe"}, op : {"close"}, user : Users,
           posts : SUBSET Rows, keys : SUBSET (Kept \ {0}), photo : Kept]
    \cup [pc : {"close"}, op : {"close"}, user : Users, rows : SUBSET Rows, photo : Kept]

\* Type invariant.
TypeOK ==
    /\ club \in [status : {"live", "archived", "deleted"}, leader : Users, picture : Kept]
    /\ row \in [Rows -> {NoRow, Gone} \cup
         [kind : Kinds, author : Users, post : Rows \cup {Nobody}, key : Kept]]
    /\ photo \in [Users -> Kept]
    /\ closed \subseteq Users /\ raced \subseteq Users
    /\ stored \subseteq 1..lastKey /\ loose \subseteq 1..lastKey
    /\ lastKey \in Kept
    /\ owner \in [1..MaxKeys -> Users \cup {Nobody}]
    /\ job \in [Workers -> Jobs]
    /\ broken \in BOOLEAN

\* Nothing of a closed account is left, no content, no photo and no object that
\* a row of it still named, unless its owner wrote while it was being closed.
OnlyRacesLeave ==
    \A u \in closed \ raced :
        /\ photo[u] = 0
        /\ \A r \in Rows : Exists(r) => row[r].author # u
        /\ \A k \in stored : owner[k] = u => \/ k \in loose \/ club.picture = k
                                       \/ \E w \in Workers : job[w].pc = "insert" /\ job[w].key = k

\* The account is being closed or the picture replaced.
BeingWiped(k) ==
    \E w \in Workers :
        \/ job[w].pc \in {"wipe", "own", "close"} /\ owner[k] = job[w].user
        \/ /\ job[w].pc \in {"upload", "insert", "drop_club"}
           /\ job[w].op \in {"picture", "delete_club"}
           /\ job[w].old = k

\* Every key that a row holds names an object of the store, except while an
\* account is closed or a club's picture replaced, and after a failure there.
KeysNameObjects ==
    \A k \in (KeysOf(Rows) \cup {photo[u] : u \in Users} \cup {club.picture}) \ {0} :
        k \in stored \/ broken \/ BeingWiped(k)
=============================================================================
