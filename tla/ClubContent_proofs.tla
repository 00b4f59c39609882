------------------------- MODULE ClubContent_proofs -------------------------
(***************************************************************************)
(* For any accounts, rows, keys and requests in flight, and a store that   *)
(* refuses at any call: what a closed account leaves behind is a request   *)
(* that raced its closing, and a key in a row names an object of the store *)
(* except while somebody is at work on it or after they broke off.         *)
(*                                                                         *)
(* Both rest on what a key is.  It is handed out once, belongs to one      *)
(* account, and is at any time in at most one kind of place: in flight, in *)
(* a row of content, a photo, the club's picture, or nowhere any more.     *)
(***************************************************************************)
EXTENDS ClubContent, TLAPS

Adding ==
    [pc : {"upload", "insert"}, op : {"add"}, user : Users,
     kind : Kinds, post : Rows \cup {Nobody}, key : Kept]
Dropping == [pc : {"drop"}, op : {"delete"}, user : Users, row : Rows]
Photographing ==
    [pc : {"upload", "insert", "tidy"}, op : {"photo"}, user : Users, key : Kept, old : Kept]
Picturing ==
    [pc : {"clear", "upload", "insert"}, op : {"picture"}, user : Users, key : Kept, old : Kept]
Removing == [pc : {"clear", "drop_club"}, op : {"delete_club"}, user : Users, key : Kept, old : Kept]
Wiping ==
    [pc : {"own", "wipe"}, op : {"close"}, user : Users,
     posts : SUBSET Rows, keys : SUBSET (Kept \ {0}), photo : Kept]
Ending ==
    [pc : {"close"}, op : {"close"}, user : Users, rows : SUBSET Rows, photo : Kept]

Contents == [kind : Kinds, author : Users, post : Rows \cup {Nobody}, key : Kept]

\* The step a request is at tells which record it is.
LEMMA JobKinds ==
    ASSUME NEW j \in Jobs
    PROVE  /\ j.pc \in {"upload", "insert"} /\ j.op = "add" => j \in Adding
           /\ j.pc = "drop" => j \in Dropping
           /\ j.pc \in {"upload", "insert"} /\ j.op = "photo" => j \in Photographing
           /\ j.pc = "tidy" => j \in Photographing
           /\ j.pc \in {"upload", "insert"} /\ j.op = "picture" => j \in Picturing
           /\ j.pc \in {"upload", "insert"} => j \in Adding \cup Photographing \cup Picturing
           /\ j.pc = "clear" => j \in Picturing \cup Removing
           /\ j.pc = "drop_club" => j \in Removing
           /\ j.pc \in {"own", "wipe"} => j \in Wiping
           /\ j.pc = "close" => j \in Ending
BY DEF Jobs, Idle, Adding, Dropping, Photographing, Picturing, Removing, Wiping, Ending

LEMMA JobsAre ==
    Jobs = {Idle} \cup Adding \cup Dropping \cup Photographing \cup Picturing
               \cup Removing \cup Wiping \cup Ending
BY DEF Jobs, Adding, Dropping, Photographing, Picturing, Removing, Wiping, Ending

-----------------------------------------------------------------------------
(* The invariant.                                                          *)

\* Request w has uploaded an object that no row names yet.
Fresh(w) == job[w].pc = "insert" /\ job[w].key # 0

Closing(w) == job[w].pc \in {"wipe", "own", "close"}
Renewing(w) == job[w].pc \in {"upload", "insert", "tidy"} /\ job[w].op = "photo"
Updating(w) ==
    /\ job[w].pc \in {"clear", "upload", "insert", "drop_club"}
    /\ job[w].op \in {"picture", "delete_club"}

\* The rows that a request that closes an account is going to delete.
Doomed(w) == IF job[w].pc = "close" THEN job[w].rows ELSE job[w].posts

\* The keys of the objects a request is going to remove, or has removed.
Named(w) ==
    IF job[w].pc \in {"wipe", "own"} THEN job[w].keys
    ELSE IF Updating(w) \/ Renewing(w) THEN {job[w].old} \ {0} ELSE {}

\* A row of content names its author's object, if any; only comments and likes
\* hang on a post.
RowSound(r) ==
    Exists(r) =>
        /\ row[r].kind # "post" => row[r].key = 0
        /\ row[r].kind \in {"post", "event"} => row[r].post = Nobody
        /\ row[r].key # 0 =>
             /\ row[r].key \in 1..lastKey
             /\ owner[row[r].key] = row[r].author
             /\ row[r].key # club.picture
             /\ \A u \in Users : row[r].key # photo[u]

PhotoSound(u) ==
    photo[u] # 0 =>
        /\ photo[u] \in 1..lastKey
        /\ owner[photo[u]] = u
        /\ photo[u] # club.picture

PictureSound ==
    /\ club.picture # 0 => club.picture \in 1..lastKey
    /\ club.status = "deleted" => club.picture = 0

\* An object that no row names yet is in the store and nowhere else.
FreshSound(w) ==
    Fresh(w) =>
        /\ job[w].key \in stored
        /\ owner[job[w].key] = job[w].user
        /\ club.picture # job[w].key
        /\ \A u \in Users : photo[u] # job[w].key
        /\ \A r \in Rows : Exists(r) => row[r].key # job[w].key
        /\ job[w].key \notin Named(w)

\* What a request carries that may upload an object: of the content only a post
\* does, a photo or a picture is there when it is written.
AddSound(w) ==
    /\ job[w].pc \in {"upload", "insert"} /\ job[w].op = "add" =>
         /\ job[w].pc = "upload" => job[w].kind = "post"
         /\ job[w].kind # "post" => job[w].key = 0
         /\ job[w].kind \in {"post", "event"} => job[w].post = Nobody
    /\ job[w].pc = "insert" /\ job[w].op \in {"photo", "picture"} => job[w].key # 0

\* A photo that is replaced is the account's, or nobody's any more.
RenewSound(w) ==
    Renewing(w) /\ job[w].old # 0 =>
        /\ job[w].old \in 1..lastKey
        /\ owner[job[w].old] = job[w].user
        /\ club.picture # job[w].old
        /\ \A r \in Rows : Exists(r) => row[r].key # job[w].old
        /\ job[w].pc = "tidy" => photo[job[w].user] # job[w].old

\* A picture that is removed is the club's, or nobody's any more.
UpdateSound(w) ==
    Updating(w) /\ job[w].old # 0 =>
        /\ job[w].old \in 1..lastKey
        /\ \A u \in Users : photo[u] # job[w].old
        /\ \A r \in Rows : Exists(r) => row[r].key # job[w].old

\* A request that closes an account removes objects of that account only, and
\* deletes the rows that name them.
DoomedSound(w) ==
    Closing(w) =>
        \A r \in Doomed(w) :
            /\ row[r] # NoRow
            /\ Exists(r) /\ row[r].key # 0 =>
                 /\ row[r].author = job[w].user
                 /\ row[r].key \notin stored \/ (job[w].pc = "wipe" /\ row[r].key \in job[w].keys)

WipeSound(w) ==
    /\ job[w].pc = "own" => job[w].keys = {}
    /\ job[w].pc = "wipe" =>
         \A k \in job[w].keys :
             /\ k \in 1..lastKey
             /\ owner[k] = job[w].user
             /\ club.picture # k
             /\ \A r \in Rows : Exists(r) /\ row[r].key = k => r \in job[w].posts
             /\ job[w].photo = 0 => \A u \in Users : photo[u] # k

\* Unless it raced its closing, the account leaves nothing: its rows are going
\* to be deleted, and the object of its photo, if any, is gone or going.
CloseComplete(w) ==
    Closing(w) /\ job[w].user \notin raced =>
        /\ \A r \in Rows :
             Exists(r) /\ row[r].author = job[w].user
                       /\ (job[w].pc = "close" \/ row[r].kind = "post") => r \in Doomed(w)
        /\ photo[job[w].user] # 0 =>
             \/ photo[job[w].user] \notin stored
             \/ job[w].pc = "wipe" /\ photo[job[w].user] \in job[w].keys
        /\ job[w].photo = 0 => photo[job[w].user] = 0

JobSound(w) ==
    /\ FreshSound(w) /\ AddSound(w) /\ RenewSound(w) /\ UpdateSound(w)
    /\ DoomedSound(w) /\ WipeSound(w) /\ CloseComplete(w)

\* A new object is one request's, and no other removes it.
Apart(v, w) == Fresh(v) => job[v].key \notin Named(w) /\ (Fresh(w) => job[v].key # job[w].key)

\* Where a key names no object, somebody is at work who ends that.
RowCovered(r) ==
    Exists(r) /\ row[r].key # 0 =>
        \/ row[r].key \in stored \/ broken
        \/ \E w \in Workers : Closing(w) /\ r \in Doomed(w)

PhotoCovered(u) ==
    photo[u] # 0 =>
        \/ photo[u] \in stored \/ broken
        \/ \E w \in Workers : Closing(w) /\ job[w].user = u /\ job[w].photo # 0

PictureCovered ==
    club.picture # 0 =>
        \/ club.picture \in stored \/ broken
        \/ \E w \in Workers :
              Updating(w) /\ job[w].pc # "clear" /\ job[w].old = club.picture

\* An object is named by a row or about to be, or known to be loose, unless its
\* owner raced.
Accounted(k) ==
    owner[k] \notin raced =>
        \/ k \in loose
        \/ club.picture = k
        \/ photo[owner[k]] = k
        \/ \E r \in Rows : Exists(r) /\ row[r].key = k
        \/ \E w \in Workers : Fresh(w) /\ job[w].key = k

\* A closed account that did not race has no row and no photo.
Cleaned(u) ==
    u \notin raced =>
        /\ photo[u] = 0
        /\ \A r \in Rows : Exists(r) => row[r].author # u

Placed == (\A r \in Rows : RowSound(r)) /\ (\A u \in Users : PhotoSound(u)) /\ PictureSound
Covered == (\A r \in Rows : RowCovered(r)) /\ (\A u \in Users : PhotoCovered(u)) /\ PictureCovered
AllApart == \A v, w \in Workers : v # w => Apart(v, w)

IInv ==
    /\ TypeOK
    /\ Placed
    /\ Covered
    /\ \A w \in Workers : JobSound(w)
    /\ AllApart
    /\ \A k \in stored : Accounted(k)
    /\ \A u \in closed : Cleaned(u)

LEMMA InitInv == Init => IInv
<1> SUFFICES ASSUME Init PROVE IInv
  OBVIOUS
<1>0. \A w \in Workers : job[w] = Idle
  BY DEF Init
<1>1. TypeOK
  <2>1. 0 \in Kept
    BY ContentAssumption DEF Kept
  <2>2. club \in [status : {"live", "archived", "deleted"}, leader : Users, picture : Kept]
    BY <2>1 DEF Init
  <2>3. /\ job \in [Workers -> Jobs]
        /\ row \in [Rows -> {NoRow, Gone} \cup Contents]
        /\ photo \in [Users -> Kept]
        /\ owner \in [1..MaxKeys -> Users \cup {Nobody}]
    BY <2>1 DEF Init, Jobs
  <2> QED BY <2>1, <2>2, <2>3 DEF Init, TypeOK, Contents
<1>2. Placed
  BY <1>1 DEF Init, Placed, RowSound, PhotoSound, PictureSound, Exists
<1>3. Covered
  BY <1>1 DEF Init, Covered, RowCovered, PhotoCovered, PictureCovered, Exists
<1>4. \A w \in Workers : JobSound(w)
  BY <1>0 DEF Idle, JobSound, FreshSound, AddSound, RenewSound, UpdateSound, DoomedSound,
       WipeSound, CloseComplete, Fresh, Closing, Renewing, Updating
<1>5. AllApart
  BY <1>0 DEF Idle, AllApart, Apart, Fresh
<1> QED BY <1>1, <1>2, <1>3, <1>4, <1>5 DEF IInv, Init

-----------------------------------------------------------------------------
(* Requests that did not move.                                             *)

LEMMA Same ==
    ASSUME NEW w \in Workers, job'[w] = job[w]
    PROVE  /\ Fresh(w)' = Fresh(w) /\ Closing(w)' = Closing(w)
           /\ Renewing(w)' = Renewing(w) /\ Updating(w)' = Updating(w)
           /\ Doomed(w)' = Doomed(w) /\ Named(w)' = Named(w)
<1>1. /\ Fresh(w)' = Fresh(w) /\ Closing(w)' = Closing(w)
      /\ Renewing(w)' = Renewing(w) /\ Updating(w)' = Updating(w)
  BY DEF Fresh, Closing, Renewing, Updating
<1>2. Doomed(w)' = Doomed(w)
  BY DEF Doomed
<1>3. Named(w)' = Named(w)
  BY <1>1 DEF Named
<1> QED BY <1>1, <1>2, <1>3

\* Only worker w's request moves; it is answered.
Moves(w, j) == job' = [job EXCEPT ![w] = j]

LEMMA Others ==
    ASSUME job \in [Workers -> Jobs], NEW w \in Workers, NEW j, Moves(w, j)
    PROVE  job'[w] = j /\ \A v \in Workers \ {w} : job'[v] = job[v]
BY DEF Moves

\* What an idle worker has: nothing.
LEMMA Nothing ==
    ASSUME NEW w \in Workers, job[w] = Idle
    PROVE  /\ ~Fresh(w) /\ ~Closing(w) /\ ~Updating(w) /\ ~Renewing(w)
           /\ Named(w) = {} /\ JobSound(w)
<1>1. ~Fresh(w) /\ ~Closing(w) /\ ~Updating(w) /\ ~Renewing(w)
  BY DEF Idle, Fresh, Closing, Updating, Renewing
<1>2. Named(w) = {}
  BY <1>1 DEF Idle, Named
<1> QED BY <1>1, <1>2 DEF JobSound, FreshSound, AddSound, RenewSound, UpdateSound, DoomedSound,
           WipeSound, CloseComplete, Idle

-----------------------------------------------------------------------------
(* Steps that only take away: rows, photos, the picture and objects go, the *)
(* rest stays, and an account may turn out to have raced.                  *)

Shrinks ==
    /\ \A r \in Rows : row'[r] = row[r] \/ (Exists(r) /\ row'[r] = Gone)
    /\ \A u \in Users : photo'[u] = photo[u] \/ photo'[u] = 0
    /\ club'.picture = club.picture \/ club'.picture = 0
    /\ stored' \subseteq stored
    /\ owner' = owner /\ lastKey' = lastKey
    /\ raced \subseteq raced'

LEMMA ShrunkRows ==
    ASSUME Shrinks, NEW r \in Rows
    PROVE  /\ Exists(r)' => Exists(r) /\ row'[r] = row[r]
           /\ row[r] # NoRow => row'[r] # NoRow
BY DEF Shrinks, Exists, NoRow, Gone

LEMMA ShrinkPlaces ==
    ASSUME Placed, Shrinks, club'.status = "deleted" => club'.picture = 0
    PROVE  Placed'
<1> USE DEF Placed, Shrinks
<1>1. ASSUME NEW r \in Rows PROVE RowSound(r)'
  <2> SUFFICES ASSUME Exists(r)' PROVE RowSound(r)'
    BY DEF RowSound
  <2>1. Exists(r) /\ row'[r] = row[r]
    BY ShrunkRows
  <2>2. row[r].key # 0 =>
          /\ row[r].key \in 1..lastKey
          /\ owner[row[r].key] = row[r].author
          /\ row[r].key # club.picture
          /\ \A u \in Users : row[r].key # photo[u]
    BY <2>1 DEF RowSound
  <2>3. row[r].key # 0 =>
          /\ row[r].key \in 1..lastKey'
          /\ owner'[row[r].key] = row[r].author
          /\ row[r].key # club'.picture
          /\ \A u \in Users : row[r].key # photo'[u]
    BY <2>2
  <2> QED BY <2>1, <2>3 DEF RowSound
<1>2. ASSUME NEW u \in Users PROVE PhotoSound(u)'
  BY DEF PhotoSound
<1>3. PictureSound'
  BY DEF PictureSound
<1> QED BY <1>1, <1>2, <1>3

\* A request that does not move stays sound, if the object it has just uploaded
\* stays.
LEMMA ShrinkJob ==
    ASSUME TypeOK, Shrinks, NEW w \in Workers, job'[w] = job[w], JobSound(w),
           Fresh(w) => job[w].key \in stored'
    PROVE  JobSound(w)'
<1> USE DEF JobSound
<1>0. job[w] \in Jobs
  BY DEF TypeOK
<1>1. FreshSound(w)'
  <2> SUFFICES ASSUME Fresh(w)' PROVE FreshSound(w)'
    BY DEF FreshSound
  <2>0. Fresh(w) /\ Named(w)' = Named(w)
    BY Same
  <2>1. /\ job'[w].key \in stored'
        /\ owner'[job'[w].key] = job'[w].user
        /\ club'.picture # job'[w].key
        /\ \A u \in Users : photo'[u] # job'[w].key
        /\ job'[w].key \notin Named(w)'
    BY <2>0 DEF FreshSound, Shrinks, Fresh
  <2>2. ASSUME NEW r \in Rows, Exists(r)' PROVE row'[r].key # job'[w].key
    BY <2>0, <2>2, ShrunkRows DEF FreshSound
  <2> QED BY <2>1, <2>2 DEF FreshSound
<1>2. AddSound(w)'
  BY DEF AddSound
<1>3. RenewSound(w)'
  <2> SUFFICES ASSUME Renewing(w)', job'[w].old # 0 PROVE RenewSound(w)'
    BY DEF RenewSound
  <2>0. Renewing(w)
    BY Same
  <2>1. ASSUME NEW r \in Rows, Exists(r)' PROVE row'[r].key # job'[w].old
    BY <2>0, <2>1, ShrunkRows DEF RenewSound
  <2>2. job[w].user \in Users
    BY <1>0, <2>0, JobKinds DEF Renewing, Photographing
  <2> QED BY <2>0, <2>1, <2>2 DEF RenewSound, Shrinks
<1>4. UpdateSound(w)'
  <2> SUFFICES ASSUME Updating(w)', job'[w].old # 0 PROVE UpdateSound(w)'
    BY DEF UpdateSound
  <2>0. Updating(w)
    BY Same
  <2>1. ASSUME NEW r \in Rows, Exists(r)' PROVE row'[r].key # job'[w].old
    BY <2>0, <2>1, ShrunkRows DEF UpdateSound
  <2> QED BY <2>0, <2>1 DEF UpdateSound, Shrinks
<1>5. ASSUME Closing(w)
      PROVE  job[w].user \in Users /\ Doomed(w) \subseteq Rows
  BY <1>0, <1>5, JobKinds DEF Closing, Doomed, Wiping, Ending
<1>6. DoomedSound(w)'
  <2> SUFFICES ASSUME Closing(w)', NEW r \in Doomed(w)'
               PROVE  /\ row'[r] # NoRow
                      /\ Exists(r)' /\ row'[r].key # 0 =>
                           /\ row'[r].author = job'[w].user
                           /\ \/ row'[r].key \notin stored'
                              \/ job'[w].pc = "wipe" /\ row'[r].key \in job'[w].keys
    BY DEF DoomedSound
  <2>1. Closing(w) /\ r \in Doomed(w)
    BY Same
  <2>2. r \in Rows
    BY <1>5, <2>1
  <2>3. /\ row[r] # NoRow
        /\ Exists(r) /\ row[r].key # 0 =>
             /\ row[r].author = job[w].user
             /\ row[r].key \notin stored \/ (job[w].pc = "wipe" /\ row[r].key \in job[w].keys)
    BY <2>1 DEF DoomedSound
  <2> QED BY <2>2, <2>3, ShrunkRows DEF Shrinks
<1>7. WipeSound(w)'
  <2>1. job'[w].pc = "own" => job'[w].keys = {}
    BY DEF WipeSound
  <2>2. ASSUME job'[w].pc = "wipe", NEW k \in job'[w].keys
        PROVE  /\ k \in 1..lastKey'
               /\ owner'[k] = job'[w].user
               /\ club'.picture # k
               /\ \A r \in Rows : Exists(r)' /\ row'[r].key = k => r \in job'[w].posts
               /\ job'[w].photo = 0 => \A u \in Users : photo'[u] # k
    <3>1. /\ k \in 1..lastKey
          /\ owner[k] = job[w].user
          /\ club.picture # k
          /\ \A r \in Rows : Exists(r) /\ row[r].key = k => r \in job[w].posts
          /\ job[w].photo = 0 => \A u \in Users : photo[u] # k
      BY <2>2 DEF WipeSound
    <3>2. k # 0
      BY <3>1 DEF TypeOK, Kept
    <3> QED BY <3>1, <3>2, ShrunkRows DEF Shrinks
  <2> QED BY <2>1, <2>2 DEF WipeSound
<1>8. CloseComplete(w)'
  <2> SUFFICES ASSUME Closing(w)', job'[w].user \notin raced' PROVE CloseComplete(w)'
    BY DEF CloseComplete
  <2>0. Closing(w) /\ job[w].user \notin raced /\ Doomed(w)' = Doomed(w)
    BY Same DEF Shrinks
  <2>1. ASSUME NEW r \in Rows, Exists(r)', row'[r].author = job'[w].user,
               job'[w].pc = "close" \/ row'[r].kind = "post"
        PROVE  r \in Doomed(w)'
    BY <2>0, <2>1, ShrunkRows DEF CloseComplete
  <2>2. photo'[job'[w].user] # 0 =>
             \/ photo'[job'[w].user] \notin stored'
             \/ job'[w].pc = "wipe" /\ photo'[job'[w].user] \in job'[w].keys
    BY <2>0, <1>5 DEF CloseComplete, Shrinks
  <2>3. job'[w].photo = 0 => photo'[job'[w].user] = 0
    BY <2>0, <1>5 DEF CloseComplete, Shrinks
  <2> QED BY <2>1, <2>2, <2>3 DEF CloseComplete
<1> QED BY <1>1, <1>2, <1>3, <1>4, <1>6, <1>7, <1>8

LEMMA ShrinkCleaned ==
    ASSUME Shrinks, NEW u \in Users, Cleaned(u)
    PROVE  Cleaned(u)'
<1> SUFFICES ASSUME u \notin raced' PROVE Cleaned(u)'
  BY DEF Cleaned
<1>1. photo'[u] = 0
  BY DEF Cleaned, Shrinks
<1>2. ASSUME NEW r \in Rows, Exists(r)' PROVE row'[r].author # u
  BY <1>2, ShrunkRows DEF Cleaned, Shrinks
<1> QED BY <1>1, <1>2 DEF Cleaned

-----------------------------------------------------------------------------
(* What a step of worker w leaves of the rest of the invariant.            *)

LEMMA ApartShrinks ==
    ASSUME TypeOK, AllApart, NEW w \in Workers, NEW j, Moves(w, j),
           ~Fresh(w)', \A v \in Workers \ {w} : Fresh(v) => job[v].key \notin Named(w)'
    PROVE  AllApart'
<1> SUFFICES ASSUME NEW u \in Workers, NEW v \in Workers, u # v PROVE Apart(u, v)'
  BY DEF AllApart
<1>1. job'[w] = j /\ \A x \in Workers \ {w} : job'[x] = job[x]
  BY Others DEF TypeOK
<1>2. CASE u = w
  BY <1>2 DEF Apart
<1>3. CASE u # w /\ v = w
  <2>1. Fresh(u)' = Fresh(u) /\ job'[u].key = job[u].key
    BY <1>1, <1>3, Same
  <2> QED BY <1>3, <2>1 DEF Apart
<1>4. CASE u # w /\ v # w
  <2>1. job'[u] = job[u] /\ job'[v] = job[v]
    BY <1>1, <1>4
  <2>2. /\ Fresh(u)' = Fresh(u) /\ Fresh(v)' = Fresh(v)
        /\ Named(v)' = Named(v)
    BY <2>1, Same
  <2>3. Apart(u, v)
    BY DEF AllApart
  <2> QED BY <2>1, <2>2, <2>3 DEF Apart
<1> QED BY <1>2, <1>3, <1>4

\* The object of key gone leaves the store; worker w stops covering for the
\* places that the conclusions exclude.
LEMMA StaysCovered ==
    ASSUME TypeOK, Covered, NEW w \in Workers, NEW j, Moves(w, j), NEW gone,
           \A k \in stored : k \in stored' \/ k = gone, broken => broken'
    PROVE  /\ \A r \in Rows :
                /\ row'[r] = row[r]
                /\ row[r].key # gone \/ broken'
                /\ Closing(w) /\ r \in Doomed(w) => broken' \/ (Closing(w)' /\ r \in Doomed(w)')
                => RowCovered(r)'
           /\ \A u \in Users :
                /\ photo'[u] = photo[u]
                /\ photo[u] # gone \/ broken'
                /\ Closing(w) /\ job[w].user = u /\ job[w].photo # 0 =>
                     broken' \/ (Closing(w)' /\ j.user = u /\ j.photo # 0)
                => PhotoCovered(u)'
           /\ /\ club'.picture = club.picture
              /\ club.picture # gone \/ broken'
              /\ Updating(w) /\ job[w].pc # "clear" /\ job[w].old = club.picture /\ club.picture # 0 =>
                   broken' \/ (Updating(w)' /\ j.pc # "clear" /\ j.old = club.picture)
              => PictureCovered'
<1>0. job'[w] = j /\ \A x \in Workers \ {w} : job'[x] = job[x]
  BY Others DEF TypeOK
<1>1. ASSUME NEW r \in Rows, row'[r] = row[r], row[r].key # gone \/ broken',
             Closing(w) /\ r \in Doomed(w) => broken' \/ (Closing(w)' /\ r \in Doomed(w)')
      PROVE  RowCovered(r)'
  <2> SUFFICES ASSUME Exists(r)', row'[r].key # 0, ~broken', row[r].key \notin stored'
               PROVE  \E x \in Workers : Closing(x)' /\ r \in Doomed(x)'
    BY <1>1 DEF RowCovered
  <2>1. Exists(r) /\ row[r].key # 0 /\ row[r].key \notin stored
    BY <1>1 DEF Exists
  <2>2. PICK x \in Workers : Closing(x) /\ r \in Doomed(x)
    BY <2>1 DEF Covered, RowCovered
  <2>3. CASE x = w
    BY <1>1, <2>2, <2>3
  <2>4. CASE x # w
    BY <1>0, <2>2, <2>4, Same
  <2> QED BY <2>3, <2>4
<1>2. ASSUME NEW u \in Users, photo'[u] = photo[u], photo[u] # gone \/ broken',
             Closing(w) /\ job[w].user = u /\ job[w].photo # 0 =>
               broken' \/ (Closing(w)' /\ j.user = u /\ j.photo # 0)
      PROVE  PhotoCovered(u)'
  <2> SUFFICES ASSUME photo[u] # 0, ~broken', photo[u] \notin stored'
               PROVE  \E x \in Workers : Closing(x)' /\ job'[x].user = u /\ job'[x].photo # 0
    BY <1>2 DEF PhotoCovered
  <2>1. photo[u] \notin stored
    BY <1>2
  <2>2. PICK x \in Workers : Closing(x) /\ job[x].user = u /\ job[x].photo # 0
    BY <2>1 DEF Covered, PhotoCovered
  <2>3. CASE x = w
    BY <1>0, <1>2, <2>2, <2>3
  <2>4. CASE x # w
    BY <1>0, <2>2, <2>4, Same
  <2> QED BY <2>3, <2>4
<1>3. ASSUME club'.picture = club.picture, club.picture # gone \/ broken',
             Updating(w) /\ job[w].pc # "clear" /\ job[w].old = club.picture /\ club.picture # 0 =>
               broken' \/ (Updating(w)' /\ j.pc # "clear" /\ j.old = club.picture)
      PROVE  PictureCovered'
  <2> SUFFICES ASSUME club.picture # 0, ~broken', club.picture \notin stored'
               PROVE  \E x \in Workers :
                        Updating(x)' /\ job'[x].pc # "clear" /\ job'[x].old = club.picture
    BY <1>3 DEF PictureCovered
  <2>1. club.picture \notin stored
    BY <1>3
  <2>2. PICK x \in Workers : Updating(x) /\ job[x].pc # "clear" /\ job[x].old = club.picture
    BY <2>1 DEF Covered, PictureCovered
  <2>3. CASE x = w
    BY <1>0, <1>3, <2>2, <2>3
  <2>4. CASE x # w
    BY <1>0, <2>2, <2>4, Same
  <2> QED BY <2>3, <2>4
<1> QED BY <1>1, <1>2, <1>3

\* An object stays accounted for where each place that named it still does, or
\* lets go of it as a loose one.
LEMMA StaysAccounted ==
    ASSUME TypeOK, NEW w \in Workers, NEW j, Moves(w, j), NEW k, Accounted(k),
           owner'[k] = owner[k], raced \subseteq raced', loose \subseteq loose',
           club.picture = k => club'.picture = k \/ k \in loose',
           photo[owner[k]] = k => photo'[owner[k]] = k \/ k \in loose',
           \A r \in Rows : Exists(r) /\ row[r].key = k => row'[r] = row[r] \/ k \in loose',
           Fresh(w) /\ job[w].key = k => Accounted(k)'
    PROVE  Accounted(k)'
<1>0. job'[w] = j /\ \A x \in Workers \ {w} : job'[x] = job[x]
  BY Others DEF TypeOK
<1> SUFFICES ASSUME owner[k] \notin raced', k \notin loose' PROVE Accounted(k)'
  BY DEF Accounted
<1>1. CASE club.picture = k \/ photo[owner[k]] = k
  BY <1>1 DEF Accounted
<1>2. ASSUME NEW r \in Rows, Exists(r), row[r].key = k PROVE Accounted(k)'
  BY <1>2 DEF Accounted, Exists
<1>3. ASSUME NEW x \in Workers, Fresh(x), job[x].key = k PROVE Accounted(k)'
  <2>1. CASE x = w
    BY <1>3, <2>1
  <2>2. CASE x # w
    BY <1>0, <1>3, <2>2, Same DEF Accounted
  <2> QED BY <2>1, <2>2
<1> QED BY <1>1, <1>2, <1>3 DEF Accounted

-----------------------------------------------------------------------------
(* Steps that read, and the last one before an account is closed.          *)

Reads == UNCHANGED <<club, row, photo, closed, stored, owner, lastKey, past>>

LEMMA ReadStep ==
    ASSUME IInv, NEW w \in Workers, NEW j \in Jobs, Moves(w, j), Reads,
           ~Fresh(w), ~Fresh(w)', ~Updating(w),
           Closing(w) => /\ Closing(w)' /\ Doomed(w) \subseteq Doomed(w)'
                         /\ j.user = job[w].user /\ j.photo = job[w].photo,
           \A v \in Workers \ {w} : Fresh(v) => job[v].key \notin Named(w)',
           JobSound(w)'
    PROVE  IInv'
<1> USE DEF Reads, past
<1>0. /\ TypeOK /\ Placed /\ Covered /\ AllApart
      /\ \A v \in Workers : JobSound(v)
      /\ \A k \in stored : Accounted(k)
      /\ \A u \in closed : Cleaned(u)
  BY DEF IInv
<1>1. job'[w] = j /\ \A x \in Workers \ {w} : job'[x] = job[x]
  BY <1>0, Others DEF TypeOK
<1>2. TypeOK'
  <2>1. job' \in [Workers -> Jobs]
    BY <1>0 DEF TypeOK, Moves
  <2> QED BY <1>0, <2>1 DEF TypeOK
<1>3. Shrinks
  BY DEF Shrinks
<1>4. Placed'
  BY <1>0, <1>3, ShrinkPlaces DEF Placed, PictureSound
<1>5. \A v \in Workers : JobSound(v)'
  <2>1. ASSUME NEW v \in Workers \ {w} PROVE JobSound(v)'
    BY <1>0, <1>1, <1>3, ShrinkJob DEF JobSound, FreshSound
  <2> QED BY <2>1
<1>6. AllApart'
  BY <1>0, ApartShrinks
<1>7. Covered'
  <2>1. \A k \in stored : k \in stored' \/ k = 0
    OBVIOUS
  <2>2. \A r \in Rows : row[r].key # 0 => RowCovered(r)'
    BY <1>0, <1>1, <2>1, StaysCovered
  <2>3. \A r \in Rows : RowCovered(r)'
    BY <2>2 DEF RowCovered
  <2>4. \A u \in Users : photo[u] # 0 => PhotoCovered(u)'
    BY <1>0, <1>1, <2>1, StaysCovered
  <2>5. \A u \in Users : PhotoCovered(u)'
    BY <2>4 DEF PhotoCovered
  <2>6. club.picture # 0 => PictureCovered'
    BY <1>0, <1>1, <2>1, StaysCovered
  <2>7. PictureCovered'
    BY <2>6 DEF PictureCovered
  <2> QED BY <2>3, <2>5, <2>7 DEF Covered
<1>8. \A k \in stored' : Accounted(k)'
  <2> SUFFICES ASSUME NEW k \in stored PROVE Accounted(k)'
    OBVIOUS
  <2> QED BY <1>0, StaysAccounted
<1>9. \A u \in closed' : Cleaned(u)'
  BY <1>0, <1>3, ShrinkCleaned DEF TypeOK
<1> QED BY <1>2, <1>4, <1>5, <1>6, <1>7, <1>8, <1>9 DEF IInv

LEMMA Begins ==
    ASSUME IInv, NEW w \in Workers, NEW j \in Jobs, Begin(w, j),
           j.pc = "insert" => j.key = 0,
           \A v \in Workers \ {w} : Fresh(v) => job[v].key \notin Named(w)',
           AddSound(w)' /\ RenewSound(w)' /\ UpdateSound(w)',
           DoomedSound(w)' /\ WipeSound(w)' /\ CloseComplete(w)'
    PROVE  IInv'
<1>1. job[w] = Idle
  <2>1. job[w] \in Jobs /\ job[w].pc = "idle"
    BY DEF IInv, TypeOK, Begin
  <2> QED BY <2>1 DEF Jobs, Idle
<1>2. Moves(w, j) /\ Reads
  BY DEF Begin, Moves, Reads
<1>3. job'[w] = j
  BY <1>2, Others DEF IInv, TypeOK
<1>4. ~Fresh(w)' /\ FreshSound(w)'
  BY <1>3 DEF Fresh, FreshSound
<1>5. JobSound(w)'
  BY <1>4 DEF JobSound
<1> QED BY <1>1, <1>2, <1>4, <1>5, Nothing, ReadStep

LEMMA AddStep ==
    ASSUME IInv, NEW w \in Workers, NEW u \in Users, NEW kind \in Kinds,
           NEW post \in Rows \cup {Nobody}, NEW pc \in {"upload", "insert"},
           Add(w, u, kind, post, pc), kind \in {"post", "event"} => post = Nobody,
           pc = "upload" => kind = "post"
    PROVE  IInv'
<1> DEFINE j == [pc |-> pc, op |-> "add", user |-> u, kind |-> kind, post |-> post, key |-> 0]
<1>1. Begin(w, j)
  BY DEF Add
<1>2. j \in Jobs
  BY ContentAssumption DEF Jobs, Kept
<1>3. job'[w] = j
  BY <1>1 DEF Begin, IInv, TypeOK
<1>4. ~Closing(w)' /\ ~Renewing(w)' /\ ~Updating(w)' /\ Named(w)' = {}
  BY <1>3 DEF Closing, Renewing, Updating, Named
<1>5. /\ AddSound(w)' /\ RenewSound(w)' /\ UpdateSound(w)'
      /\ DoomedSound(w)' /\ WipeSound(w)' /\ CloseComplete(w)'
  BY <1>3, <1>4 DEF AddSound, RenewSound, UpdateSound, DoomedSound, WipeSound, CloseComplete
<1> HIDE DEF j
<1>6. j.key = 0
  BY DEF j
<1> QED BY <1>1, <1>2, <1>4, <1>5, <1>6, Begins

LEMMA AddSteps ==
    ASSUME IInv, NEW w \in Workers, AddPost(w) \/ AddComment(w) \/ AddLike(w) \/ AddEvent(w)
    PROVE  IInv'
<1>0. club.leader \in Users
  BY DEF IInv, TypeOK
<1>1. CASE AddPost(w)
  BY <1>1, AddStep DEF AddPost, Add
<1>2. CASE AddComment(w)
  BY <1>2, AddStep DEF AddComment, Add
<1>3. CASE AddLike(w)
  BY <1>3, AddStep DEF AddLike, Add
<1>4. CASE AddEvent(w)
  BY <1>0, <1>4, AddStep DEF AddEvent, Add
<1> QED BY <1>1, <1>2, <1>3, <1>4

LEMMA DeleteStep ==
    ASSUME IInv, NEW w \in Workers, NEW u \in Users, NEW r \in Rows, Delete(w, u, r)
    PROVE  IInv'
<1> DEFINE j == [pc |-> "drop", op |-> "delete", user |-> u, row |-> r]
<1>1. Begin(w, j)
  BY DEF Delete
<1>2. j \in Jobs
  BY DEF Jobs
<1>3. job'[w] = j
  BY <1>1 DEF Begin, IInv, TypeOK
<1>4. ~Closing(w)' /\ ~Renewing(w)' /\ ~Updating(w)' /\ Named(w)' = {}
  BY <1>3 DEF Closing, Renewing, Updating, Named
<1>5. /\ AddSound(w)' /\ RenewSound(w)' /\ UpdateSound(w)'
      /\ DoomedSound(w)' /\ WipeSound(w)' /\ CloseComplete(w)'
  BY <1>3, <1>4 DEF AddSound, RenewSound, UpdateSound, DoomedSound, WipeSound, CloseComplete
<1>6. j.pc # "insert"
  OBVIOUS
<1> HIDE DEF j
<1> QED BY <1>1, <1>2, <1>4, <1>5, <1>6, Begins

LEMMA DeleteSteps ==
    ASSUME IInv, NEW w \in Workers,
           DeletePost(w) \/ DeleteComment(w) \/ Unlike(w) \/ DeleteEvent(w)
    PROVE  IInv'
<1>1. PICK r, u :
        r \in Rows /\ Exists(r) /\ u \in {row[r].author, club.leader} /\ Delete(w, u, r)
  BY DEF DeletePost, DeleteComment, Unlike, DeleteEvent, Live
<1>2. u \in Users
  BY <1>1 DEF IInv, TypeOK, Exists
<1> QED BY <1>1, <1>2, DeleteStep

LEMMA LoadProfileStep ==
    ASSUME IInv, NEW w \in Workers, LoadProfile(w)
    PROVE  IInv'
<1>1. PICK u, j :
        /\ u \in Users
        /\ j = [pc |-> "upload", op |-> "photo", user |-> u, key |-> 0, old |-> photo[u]]
        /\ Begin(w, j)
  BY DEF LoadProfile
<1> u \in Users
  BY <1>1
<1>2. j \in Jobs
  BY <1>1, ContentAssumption DEF Jobs, IInv, TypeOK, Kept
<1>3. job'[w] = j /\ UNCHANGED <<club, row, photo, owner, lastKey>>
  BY <1>1 DEF Begin, IInv, TypeOK
<1>4. ~Closing(w)' /\ ~Updating(w)' /\ Named(w)' = {photo[u]} \ {0}
  BY <1>1, <1>3 DEF Closing, Renewing, Updating, Named
<1>5. \A v \in Workers : Fresh(v) => job[v].key \notin Named(w)'
  BY <1>4 DEF IInv, JobSound, FreshSound
<1>6. RenewSound(w)'
  <2> SUFFICES ASSUME photo[u] # 0 PROVE RenewSound(w)'
    BY <1>1, <1>3 DEF RenewSound
  <2>1. PhotoSound(u)
    BY DEF IInv, Placed
  <2>2. ASSUME NEW r \in Rows, Exists(r) PROVE row[r].key # photo[u]
    BY <2>2 DEF IInv, Placed, RowSound
  <2>3. ASSUME NEW r \in Rows, Exists(r)' PROVE row'[r].key # photo[u]
    BY <1>3, <2>2, <2>3 DEF Exists
  <2> QED BY <1>1, <1>3, <2>1, <2>3 DEF RenewSound, PhotoSound
<1>7. AddSound(w)' /\ UpdateSound(w)' /\ DoomedSound(w)' /\ WipeSound(w)' /\ CloseComplete(w)'
  BY <1>1, <1>3, <1>4 DEF AddSound, UpdateSound, DoomedSound, WipeSound, CloseComplete
<1>8. j.pc # "insert"
  BY <1>1
<1> QED BY <1>1, <1>2, <1>5, <1>6, <1>7, <1>8, Begins

LEMMA LoadClubStep ==
    ASSUME IInv, NEW w \in Workers, LoadClub(w)
    PROVE  IInv'
<1>1. PICK op, j :
        /\ op \in {"picture", "delete_club"}
        /\ j = [pc |-> IF club.picture = 0 THEN Cleared(op) ELSE "clear", op |-> op,
                user |-> club.leader, key |-> 0, old |-> club.picture]
        /\ Begin(w, j)
  BY DEF LoadClub
<1> op \in {"picture", "delete_club"}
  BY <1>1
<1>2. j \in Jobs
  <2>1. club.leader \in Users /\ club.picture \in Kept /\ 0 \in Kept
    BY ContentAssumption DEF IInv, TypeOK, Kept
  <2>2. CASE op = "picture"
    <3>1. j \in Picturing
      BY <1>1, <2>1, <2>2 DEF Cleared, Picturing
    <3> QED BY <3>1, JobsAre
  <2>3. CASE op = "delete_club"
    <3>1. j \in Removing
      BY <1>1, <2>1, <2>3 DEF Cleared, Removing
    <3> QED BY <3>1, JobsAre
  <2> QED BY <2>2, <2>3
<1>3. job'[w] = j /\ UNCHANGED <<club, row, photo, owner, lastKey>>
  BY <1>1 DEF Begin, IInv, TypeOK
<1>4. /\ j.op = op /\ j.old = club.picture
      /\ j.pc \in {"clear", "upload", "drop_club"}
  BY <1>1 DEF Cleared
<1>5. ~Closing(w)' /\ ~Renewing(w)' /\ Named(w)' = {club.picture} \ {0}
  BY <1>3, <1>4 DEF Closing, Renewing, Updating, Named
<1>6. \A v \in Workers : Fresh(v) => job[v].key \notin Named(w)'
  BY <1>5 DEF IInv, JobSound, FreshSound
<1>7. UpdateSound(w)'
  <2> SUFFICES ASSUME club.picture # 0 PROVE UpdateSound(w)'
    BY <1>4, <1>3 DEF UpdateSound
  <2>1. club.picture \in 1..lastKey
    BY DEF IInv, Placed, PictureSound
  <2>2. \A u \in Users : photo[u] # club.picture
    BY DEF IInv, Placed, PhotoSound
  <2>3. ASSUME NEW r \in Rows, Exists(r)' PROVE row'[r].key # club.picture
    BY <1>3, <2>3 DEF IInv, Placed, RowSound, Exists
  <2> QED BY <1>3, <1>4, <2>1, <2>2, <2>3 DEF UpdateSound
<1>8. AddSound(w)' /\ RenewSound(w)' /\ DoomedSound(w)' /\ WipeSound(w)' /\ CloseComplete(w)'
  BY <1>3, <1>4, <1>5 DEF AddSound, RenewSound, DoomedSound, WipeSound, CloseComplete
<1>9. j.pc # "insert"
  BY <1>4
<1> QED BY <1>1, <1>2, <1>6, <1>7, <1>8, <1>9, Begins

LEMMA OwnPosts ==
    ASSUME IInv, NEW u \in Users, NEW r \in Rows, Exists(r), row[r].key # 0
    PROVE  r \in Posts(u) <=> owner[row[r].key] = u
BY DEF IInv, Placed, RowSound, Posts, Live

LEMMA LoadOwnStep ==
    ASSUME IInv, NEW w \in Workers, LoadOwn(w)
    PROVE  IInv'
<1>1. PICK u, keys, j :
        /\ u \in Users
        /\ keys = (KeysOf(Posts(u)) \cup {photo[u]}) \ {0}
        /\ j = [pc |-> IF keys = {} THEN "own" ELSE "wipe", op |-> "close", user |-> u,
                posts |-> Posts(u), keys |-> keys, photo |-> photo[u]]
        /\ Begin(w, j)
  BY DEF LoadOwn
<1> u \in Users
  BY <1>1
<1>2. Posts(u) \subseteq Rows /\ \A r \in Posts(u) : Exists(r)
  BY DEF Posts, Live
<1>3. keys = ({row[r].key : r \in Posts(u)} \cup {photo[u]}) \ {0}
  BY <1>1, <1>2 DEF KeysOf
<1>4. j \in Jobs
  <2>1. \A r \in Posts(u) : row[r].key \in Kept
    BY <1>2 DEF IInv, TypeOK, Exists
  <2>2. keys \subseteq Kept \ {0}
    BY <1>3, <2>1 DEF IInv, TypeOK
  <2>3. j \in Wiping
    BY <1>1, <1>2, <2>2 DEF Wiping, IInv, TypeOK
  <2> QED BY <2>3, JobsAre
<1>5. job'[w] = j /\ Reads
  BY <1>1 DEF Begin, IInv, TypeOK, Reads
<1>6. /\ j.user = u /\ j.posts = Posts(u) /\ j.keys = keys /\ j.op = "close" /\ j.photo = photo[u]
      /\ j.pc \in {"wipe", "own"} /\ (keys # {} => j.pc = "wipe") /\ (keys = {} => j.pc = "own")
  BY <1>1
<1>7. /\ ~Renewing(w)' /\ ~Updating(w)' /\ Named(w)' = keys
      /\ Closing(w)' /\ Doomed(w)' = Posts(u)
  BY <1>5, <1>6 DEF Closing, Renewing, Updating, Named, Doomed
<1>8. ASSUME NEW k \in keys
      PROVE  k \in 1..lastKey /\ owner[k] = u /\ club.picture # k
  <2>1. CASE k = photo[u]
    BY <1>3, <2>1 DEF IInv, Placed, PhotoSound
  <2>2. ASSUME NEW r \in Posts(u), k = row[r].key
        PROVE  k \in 1..lastKey /\ owner[k] = u /\ club.picture # k
    <3>1. Exists(r) /\ r \in Rows /\ row[r].key # 0
      BY <1>2, <1>3, <2>2
    <3>2. RowSound(r)
      BY <3>1 DEF IInv, Placed
    <3>3. owner[row[r].key] = u
      BY <3>1, OwnPosts
    <3> QED BY <2>2, <3>1, <3>2, <3>3 DEF RowSound
  <2> QED BY <1>3, <2>1, <2>2
<1>9. \A v \in Workers : Fresh(v) => job[v].key \notin Named(w)'
  <2> SUFFICES ASSUME NEW v \in Workers, Fresh(v) PROVE job[v].key \notin keys
    BY <1>7
  <2>1. FreshSound(v)
    BY DEF IInv, JobSound
  <2>2. \A r \in Posts(u) : row[r].key # job[v].key
    BY <1>2, <2>1 DEF FreshSound
  <2> QED BY <1>3, <2>1, <2>2 DEF FreshSound
<1>10. DoomedSound(w)'
  <2> SUFFICES ASSUME NEW r \in Posts(u)
               PROVE  /\ row[r] # NoRow
                      /\ row[r].key # 0 => row[r].author = u /\ j.pc = "wipe" /\ row[r].key \in keys
    BY <1>2, <1>5, <1>6, <1>7 DEF DoomedSound, Exists, Reads
  <2>1. row[r].key # 0 => row[r].key \in keys
    BY <1>3
  <2>2. row[r] # NoRow
    BY <1>2 DEF Exists
  <2>3. row[r].author = u
    BY DEF Posts
  <2> QED BY <1>6, <2>1, <2>2, <2>3
<1>11. WipeSound(w)'
  <2>1. ASSUME NEW k \in keys, NEW r \in Rows, Exists(r), row[r].key = k
        PROVE  r \in Posts(u)
    <3>1. k # 0 /\ owner[k] = u
      BY <1>3, <1>8
    <3> QED BY <2>1, <3>1, OwnPosts
  <2>2. ASSUME NEW k \in keys, NEW r \in Rows, Exists(r)', row'[r].key = k
        PROVE  r \in Posts(u)
    BY <1>5, <2>1, <2>2 DEF Exists, Reads
  <2>3. ASSUME NEW k \in keys, photo[u] = 0, NEW v \in Users PROVE photo[v] # k
    <3>1. k # 0 /\ owner[k] = u
      BY <1>3, <1>8
    <3>2. photo[v] = k => owner[k] = v
      BY <3>1 DEF IInv, Placed, PhotoSound
    <3> QED BY <2>3, <3>1, <3>2
  <2> QED BY <1>5, <1>6, <1>8, <2>2, <2>3 DEF WipeSound, Reads
<1>12. CloseComplete(w)'
  <2>1. ASSUME NEW r \in Rows, Exists(r)', row'[r].author = u, row'[r].kind = "post"
        PROVE  r \in Posts(u)
    BY <1>5, <2>1 DEF Exists, Reads, Posts, Live
  <2>2. photo[u] # 0 => photo[u] \in keys /\ j.pc = "wipe"
    BY <1>3, <1>6
  <2> QED BY <1>5, <1>6, <1>7, <2>1, <2>2 DEF CloseComplete, Reads
<1>13. AddSound(w)' /\ RenewSound(w)' /\ UpdateSound(w)'
  BY <1>5, <1>6, <1>7 DEF AddSound, RenewSound, UpdateSound
<1>14. j.pc # "insert"
  BY <1>6
<1> QED BY <1>1, <1>4, <1>9, <1>10, <1>11, <1>12, <1>13, <1>14, Begins

LEMMA DeleteOwnStep ==
    ASSUME IInv, NEW w \in Workers, DeleteOwn(w)
    PROVE  IInv'
<1>1. PICK u, rs, j :
        /\ u = job[w].user /\ rs = Own(job[w])
        /\ j = [pc |-> "close", op |-> "close", user |-> u, rows |-> rs, photo |-> job[w].photo]
        /\ Moves(w, j) /\ Reads
  BY DEF DeleteOwn, Moves, Reads
<1>2. /\ job[w] \in Wiping /\ job[w].keys = {} /\ Closing(w)
  <2>1. job[w] \in Jobs /\ job[w].pc \in {"own", "wipe"}
    BY DEF IInv, TypeOK, DeleteOwn, At
  <2>2. job[w].pc = "own" => job[w].keys = {}
    BY DEF IInv, JobSound, WipeSound
  <2> QED BY <2>1, <2>2, JobKinds DEF DeleteOwn, At, Closing
<1>3. /\ u \in Users /\ job[w].posts \subseteq Rows /\ job[w].pc \in {"own", "wipe"}
      /\ job[w].op = "close" /\ job[w].photo \in Kept
  BY <1>1, <1>2 DEF Wiping
<1>4. job[w].posts \subseteq rs /\ rs \subseteq Rows
  BY <1>1, <1>3 DEF Own, WithReplies
<1>5. ASSUME NEW r \in rs
      PROVE  /\ row[r] # NoRow
             /\ Exists(r) /\ row[r].key # 0 => r \in job[w].posts
  <2> DEFINE others == {x \in Rows : Exists(x) /\ row[x].author = u /\ row[x].kind # "post"}
  <2>0. rs = job[w].posts \cup others
             \cup {x \in Rows : Exists(x) /\ row[x].post \in job[w].posts \cup others}
    BY <1>1 DEF Own, WithReplies
  <2>1. CASE r \in job[w].posts
    <3>1. Doomed(w) = job[w].posts
      BY <1>3 DEF Doomed
    <3>2. row[r] # NoRow
      BY <1>2, <2>1, <3>1 DEF IInv, JobSound, DoomedSound
    <3> QED BY <2>1, <3>2
  <2>2. CASE r \in others
    <3>1. RowSound(r)
      BY <2>2 DEF IInv, Placed
    <3> QED BY <2>2, <3>1 DEF RowSound, Exists
  <2>3. CASE r \in Rows /\ Exists(r) /\ row[r].post \in job[w].posts \cup others
    <3>1. row[r].post # Nobody
      BY <1>3, <2>3, ContentAssumption
    <3>2. RowSound(r)
      BY <2>3 DEF IInv, Placed
    <3>3. row[r].kind # "post" /\ row[r].key = 0
      BY <2>3, <3>1, <3>2 DEF RowSound
    <3> QED BY <2>3, <3>3 DEF Exists
  <2> QED BY <2>0, <2>1, <2>2, <2>3
<1>6. j \in Jobs
  BY <1>1, <1>3, <1>4 DEF Jobs
<1>7. job'[w] = j
  BY <1>1, Others DEF IInv, TypeOK
<1>8. /\ Closing(w)' /\ Doomed(w)' = rs /\ ~Fresh(w) /\ ~Fresh(w)' /\ ~Updating(w)
      /\ ~Updating(w)' /\ ~Renewing(w)' /\ Named(w)' = {}
      /\ Doomed(w) = job[w].posts
  BY <1>1, <1>3, <1>7 DEF Closing, Doomed, Fresh, Updating, Renewing, Named
<1>9. DoomedSound(w) /\ CloseComplete(w)
  BY DEF IInv, JobSound
<1>10. DoomedSound(w)'
  <2> SUFFICES ASSUME NEW r \in rs
               PROVE  /\ row[r] # NoRow
                      /\ Exists(r) /\ row[r].key # 0 => row[r].author = u /\ row[r].key \notin stored
    BY <1>1, <1>7, <1>8 DEF DoomedSound, Reads, Exists
  <2> QED BY <1>1, <1>2, <1>5, <1>8, <1>9 DEF DoomedSound
<1>11. CloseComplete(w)'
  <2> SUFFICES ASSUME u \notin raced
               PROVE  /\ \A r \in Rows : Exists(r) /\ row[r].author = u => r \in rs
                      /\ photo[u] # 0 => photo[u] \notin stored
                      /\ job[w].photo = 0 => photo[u] = 0
    BY <1>1, <1>7, <1>8 DEF CloseComplete, Reads, past, Exists
  <2>1. (photo[u] # 0 => photo[u] \notin stored) /\ (job[w].photo = 0 => photo[u] = 0)
    BY <1>1, <1>2, <1>9 DEF CloseComplete
  <2>2. ASSUME NEW r \in Rows, Exists(r), row[r].author = u PROVE r \in rs
    <3>1. CASE row[r].kind = "post"
      BY <1>1, <1>2, <1>4, <1>8, <1>9, <2>2, <3>1 DEF CloseComplete
    <3>2. CASE row[r].kind # "post"
      BY <1>1, <2>2, <3>2 DEF Own, WithReplies
    <3> QED BY <3>1, <3>2
  <2> QED BY <2>1, <2>2
<1>12. JobSound(w)'
  BY <1>1, <1>7, <1>8, <1>10, <1>11 DEF JobSound, FreshSound, AddSound, RenewSound, UpdateSound, WipeSound
<1>13. j.user = job[w].user /\ j.photo = job[w].photo /\ Doomed(w) \subseteq Doomed(w)'
  BY <1>1, <1>4, <1>8
<1> QED BY <1>1, <1>6, <1>8, <1>12, <1>13, ReadStep

-----------------------------------------------------------------------------
(* Steps that write.                                                       *)

\* The parts of IInv that a step that takes away, or adds nothing that the
\* invariant is about, leaves to show.
LEMMA ShrinkStep ==
    ASSUME IInv, NEW w \in Workers, NEW j \in Jobs, Moves(w, j), Shrinks, TypeOK',
           raced' = raced,
           club'.status = "deleted" => club'.picture = 0,
           JobSound(w)', ~Fresh(w)',
           \A v \in Workers \ {w} : Fresh(v) => job[v].key \notin Named(w)' /\ job[v].key \in stored',
           Covered',
           \A k \in stored' : Accounted(k) => Accounted(k)',
           \A u \in closed' \ closed : Cleaned(u)'
    PROVE  IInv'
<1>0. /\ TypeOK /\ Placed /\ Covered /\ AllApart
      /\ \A v \in Workers : JobSound(v)
      /\ \A k \in stored : Accounted(k)
      /\ \A u \in closed : Cleaned(u)
  BY DEF IInv
<1>1. job'[w] = j /\ \A x \in Workers \ {w} : job'[x] = job[x]
  BY <1>0, Others DEF TypeOK
<1>2. Placed'
  BY <1>0, ShrinkPlaces
<1>3. \A v \in Workers : JobSound(v)'
  <2>1. ASSUME NEW v \in Workers \ {w} PROVE JobSound(v)'
    BY <1>0, <1>1, ShrinkJob
  <2> QED BY <2>1
<1>4. AllApart'
  BY <1>0, ApartShrinks
<1>5. \A k \in stored' : Accounted(k)'
  BY <1>0 DEF Shrinks
<1>6. ASSUME NEW u \in closed' PROVE Cleaned(u)'
  <2>1. CASE u \in closed
    BY <1>0, <2>1, ShrinkCleaned DEF TypeOK
  <2> QED BY <2>1
<1> QED BY <1>2, <1>3, <1>4, <1>5, <1>6 DEF IInv

\* A request that is answered without a write.  It may have broken off, and an
\* object it was to remove may be gone.
LEMMA AnswerStep ==
    ASSUME IInv, NEW w \in Workers, Reply(w), ~Fresh(w),
           UNCHANGED <<club, row, photo, closed, owner, lastKey, raced, loose>>,
           broken' \in BOOLEAN, broken => broken',
           Closing(w) => broken',
           Updating(w) /\ job[w].pc # "clear" /\ job[w].old # 0 => broken',
           \/ stored' = stored
           \/ broken' /\ \E k \in Named(w) : stored' = stored \ {k}
    PROVE  IInv'
<1>0. TypeOK /\ Covered
  BY DEF IInv
<1>1. Moves(w, Idle) /\ Idle \in Jobs
  BY JobsAre DEF Reply, Moves
<1>2. job'[w] = Idle
  BY <1>0, <1>1, Others DEF TypeOK
<1>3. stored' \subseteq stored /\ Shrinks
  BY DEF Shrinks
<1>4. TypeOK'
  BY <1>0, <1>1, <1>3 DEF TypeOK, Moves
<1>5. JobSound(w)' /\ ~Fresh(w)' /\ Named(w)' = {}
  BY <1>2 DEF Idle, JobSound, FreshSound, AddSound, RenewSound, UpdateSound, DoomedSound,
       WipeSound, CloseComplete, Fresh, Closing, Updating, Renewing, Named
<1>6. Covered'
  <2>0. CASE broken'
    BY <2>0 DEF Covered, RowCovered, PhotoCovered, PictureCovered
  <2>1. CASE ~broken'
    <3>1. \A k \in stored : k \in stored' \/ k = 0
      BY <2>1
    <3>2. \A r \in Rows : row[r].key # 0 => RowCovered(r)'
      BY <1>0, <1>1, <3>1, StaysCovered
    <3>3. \A u \in Users : photo[u] # 0 => PhotoCovered(u)'
      BY <1>0, <1>1, <3>1, StaysCovered
    <3>4. club.picture # 0 => PictureCovered'
      BY <1>0, <1>1, <3>1, StaysCovered
    <3>5. \A r \in Rows : RowCovered(r)'
      BY <3>2 DEF RowCovered
    <3>6. \A u \in Users : PhotoCovered(u)'
      BY <3>3 DEF PhotoCovered
    <3>7. PictureCovered'
      BY <3>4 DEF PictureCovered
    <3> QED BY <3>5, <3>6, <3>7 DEF Covered
  <2> QED BY <2>0, <2>1
<1>7. \A k \in stored' : Accounted(k) => Accounted(k)'
  BY <1>0, <1>1, StaysAccounted
<1>8. club.status = "deleted" => club.picture = 0
  BY DEF IInv, Placed, PictureSound
<1>9. ASSUME NEW v \in Workers \ {w}, Fresh(v) PROVE job[v].key \in stored'
  <2>1. job[v].key \in stored
    BY <1>9 DEF IInv, JobSound, FreshSound
  <2>2. job[v].key \notin Named(w)
    BY <1>9 DEF IInv, AllApart, Apart
  <2> QED BY <2>1, <2>2
<1> QED BY <1>1, <1>3, <1>4, <1>5, <1>6, <1>7, <1>8, <1>9, ShrinkStep

\* delete_club_post and its kin: a row goes with what hangs on it.
LEMMA Loosened ==
    ASSUME IInv, NEW rs \in SUBSET Rows
    PROVE  /\ KeysOf(rs) \subseteq 1..lastKey
           /\ \A r \in rs : Exists(r) /\ row[r].key # 0 => row[r].key \in KeysOf(rs)
           /\ \A r \in Rows : Without(rs)[r] = IF r \in rs /\ Exists(r) THEN Gone ELSE row[r]
           /\ Without(rs) \in [Rows -> {NoRow, Gone} \cup Contents]
BY DEF IInv, TypeOK, Placed, RowSound, KeysOf, Without, Contents

LEMMA DropRowStep ==
    ASSUME IInv, NEW w \in Workers, DropRow(w)
    PROVE  IInv'
<1>0. TypeOK /\ Covered
  BY DEF IInv
<1>1. PICK rs : rs = WithReplies({job[w].row}) /\ row' = Without(rs) /\ loose' = loose \cup KeysOf(rs)
  BY DEF DropRow
<1>2. job[w] \in Dropping
  BY <1>0, JobKinds DEF TypeOK, DropRow, At
<1>3. rs \subseteq Rows
  BY <1>1, <1>2 DEF WithReplies, Dropping
<1>4. /\ Moves(w, Idle) /\ Idle \in Jobs
      /\ UNCHANGED <<club, photo, closed, stored, owner, lastKey, raced, broken>>
  BY JobsAre DEF DropRow, Reply, Moves
<1>5. job'[w] = Idle
  BY <1>0, <1>4, Others DEF TypeOK
<1>6. ~Closing(w) /\ ~Updating(w) /\ ~Fresh(w)
  BY <1>2 DEF Closing, Updating, Fresh, Dropping
<1>7. Shrinks
  BY <1>1, <1>3, <1>4, Loosened DEF Shrinks
<1>8. TypeOK'
  <2>1. row' \in [Rows -> {NoRow, Gone} \cup Contents] /\ loose' \subseteq 1..lastKey
    BY <1>0, <1>1, <1>3, Loosened DEF TypeOK
  <2>2. job' \in [Workers -> Jobs]
    BY <1>0, <1>4 DEF TypeOK, Moves
  <2> QED BY <1>0, <1>4, <2>1, <2>2 DEF TypeOK, Contents
<1>9. JobSound(w)' /\ ~Fresh(w)' /\ Named(w)' = {}
  BY <1>5 DEF Idle, JobSound, FreshSound, AddSound, RenewSound, UpdateSound, DoomedSound,
       WipeSound, CloseComplete, Fresh, Closing, Updating, Renewing, Named
<1>10. Covered'
  <2>1. \A k \in stored : k \in stored' \/ k = 0
    BY <1>4
  <2>2. \A r \in Rows : row'[r] = row[r] /\ row[r].key # 0 => RowCovered(r)'
    BY <1>0, <1>4, <1>6, <2>1, StaysCovered
  <2>3. \A u \in Users : photo[u] # 0 => PhotoCovered(u)'
    BY <1>0, <1>4, <1>6, <2>1, StaysCovered
  <2>4. club.picture # 0 => PictureCovered'
    BY <1>0, <1>4, <1>6, <2>1, StaysCovered
  <2>5. \A r \in Rows : RowCovered(r)'
    BY <1>7, <2>2, ShrunkRows DEF RowCovered
  <2>6. \A u \in Users : PhotoCovered(u)'
    BY <1>4, <2>3 DEF PhotoCovered
  <2>7. PictureCovered'
    BY <1>4, <2>4 DEF PictureCovered
  <2> QED BY <2>5, <2>6, <2>7 DEF Covered
<1>11. ASSUME NEW k \in stored', Accounted(k) PROVE Accounted(k)'
  <2>1. k # 0
    BY <1>0, <1>4 DEF TypeOK
  <2>2. ASSUME NEW r \in Rows, Exists(r), row[r].key = k
        PROVE  row'[r] = row[r] \/ k \in loose'
    <3>1. r \in rs => k \in KeysOf(rs)
      BY <1>3, <2>1, <2>2, Loosened
    <3>2. r \notin rs => row'[r] = row[r]
      BY <1>1, <1>3, Loosened
    <3> QED BY <1>1, <3>1, <3>2
  <2> QED BY <1>0, <1>1, <1>4, <1>6, <1>11, <2>2, StaysAccounted
<1>12. club.status = "deleted" => club.picture = 0
  BY DEF IInv, Placed, PictureSound
<1>13. \A v \in Workers : Fresh(v) => job[v].key \in stored
  BY DEF IInv, JobSound, FreshSound
<1> QED BY <1>4, <1>7, <1>8, <1>9, <1>10, <1>11, <1>12, <1>13, ShrinkStep

\* update_my_profile: the old photo is the account's no longer, and nobody's.
LEMMA DropOldPhotoStep ==
    ASSUME IInv, NEW w \in Workers, DropOldPhoto(w)
    PROVE  IInv'
<1>0. TypeOK /\ Covered
  BY DEF IInv
<1>1. PICK old : old = job[w].old /\ stored' \in {stored, stored \ {old}}
  BY DEF DropOldPhoto
<1>2. job[w] \in Photographing /\ job[w].pc = "tidy"
  BY <1>0, JobKinds DEF TypeOK, DropOldPhoto, At
<1>3. /\ Moves(w, Idle) /\ Idle \in Jobs
      /\ UNCHANGED <<club, row, photo, closed, owner, lastKey, past>>
  BY JobsAre DEF DropOldPhoto, Reply, Moves
<1>4. job'[w] = Idle
  BY <1>0, <1>3, Others DEF TypeOK
<1>5. /\ ~Closing(w) /\ ~Updating(w) /\ ~Fresh(w) /\ Renewing(w) /\ Named(w) = {old} \ {0}
  BY <1>1, <1>2 DEF Closing, Updating, Fresh, Renewing, Named, Photographing
<1>6. Shrinks
  BY <1>1, <1>3 DEF Shrinks, past
<1>7. TypeOK'
  <2>1. job' \in [Workers -> Jobs]
    BY <1>0, <1>3 DEF TypeOK, Moves
  <2> QED BY <1>0, <1>1, <1>3, <2>1 DEF TypeOK, past
<1>8. JobSound(w)' /\ ~Fresh(w)' /\ Named(w)' = {}
  BY <1>4 DEF Idle, JobSound, FreshSound, AddSound, RenewSound, UpdateSound, DoomedSound,
       WipeSound, CloseComplete, Fresh, Closing, Updating, Renewing, Named
<1>9. ASSUME old # 0
      PROVE  /\ \A r \in Rows : Exists(r) => row[r].key # old
             /\ \A u \in Users : photo[u] # old
             /\ club.picture # old
  <2>1. RenewSound(w)
    BY DEF IInv, JobSound
  <2>2. ASSUME NEW u \in Users, photo[u] = old PROVE FALSE
    <3>1. owner[old] = u
      BY <1>9, <2>2 DEF IInv, Placed, PhotoSound
    <3> QED BY <1>1, <1>2, <1>5, <1>9, <2>1, <2>2, <3>1 DEF RenewSound
  <2> QED BY <1>1, <1>5, <1>9, <2>1, <2>2 DEF RenewSound
<1>10. Covered'
  <2>1. \A k \in stored : k \in stored' \/ k = old
    BY <1>1
  <2>2. \A r \in Rows : Exists(r) /\ row[r].key # 0 => RowCovered(r)'
    BY <1>0, <1>3, <1>5, <1>9, <2>1, StaysCovered DEF past
  <2>3. \A u \in Users : photo[u] # 0 => PhotoCovered(u)'
    BY <1>0, <1>3, <1>5, <1>9, <2>1, StaysCovered DEF past
  <2>4. club.picture # 0 => PictureCovered'
    BY <1>0, <1>3, <1>5, <1>9, <2>1, StaysCovered DEF past
  <2>5. \A r \in Rows : RowCovered(r)'
    BY <1>3, <2>2 DEF RowCovered, Exists
  <2>6. \A u \in Users : PhotoCovered(u)'
    BY <1>3, <2>3 DEF PhotoCovered
  <2>7. PictureCovered'
    BY <1>3, <2>4 DEF PictureCovered
  <2> QED BY <2>5, <2>6, <2>7 DEF Covered
<1>11. \A k \in stored' : Accounted(k) => Accounted(k)'
  BY <1>0, <1>3, <1>5, StaysAccounted DEF past
<1>12. club.status = "deleted" => club.picture = 0
  BY DEF IInv, Placed, PictureSound
<1>13. ASSUME NEW v \in Workers \ {w}, Fresh(v) PROVE job[v].key \in stored'
  <2>1. job[v].key \in stored /\ job[v].key # 0
    BY <1>13 DEF IInv, JobSound, FreshSound, Fresh
  <2>2. job[v].key \notin Named(w)
    BY <1>13 DEF IInv, AllApart, Apart
  <2> QED BY <1>1, <1>5, <2>1, <2>2
<1> QED BY <1>3, <1>6, <1>7, <1>8, <1>10, <1>11, <1>12, <1>13, ShrinkStep DEF past

\* update_club and delete_club: the picture that goes is the club's, and the
\* request will put another in its place or delete the club.
LEMMA ClearPictureStep ==
    ASSUME IInv, NEW w \in Workers, ClearPicture(w)
    PROVE  IInv'
<1>0. TypeOK /\ Covered
  BY DEF IInv
<1>1. job[w] \in Picturing \cup Removing /\ job[w].pc = "clear"
  BY <1>0, JobKinds DEF TypeOK, ClearPicture, At
<1>2. /\ UNCHANGED <<club, row, photo, closed, owner, lastKey, raced, loose>>
      /\ ~Fresh(w) /\ ~Closing(w) /\ ~Renewing(w) /\ Updating(w)
  BY <1>1 DEF ClearPicture, Fresh, Closing, Renewing, Updating, Picturing, Removing
<1>3. CASE RemovalFails(w, job[w].old)
  <2>1. Reply(w) /\ broken' = TRUE /\ stored' \in {stored, stored \ {job[w].old}}
    BY <1>3 DEF RemovalFails
  <2>2. 0 \notin stored /\ Named(w) = {job[w].old} \ {0}
    BY <1>0, <1>1, <1>2 DEF TypeOK, Named
  <2>3. stored' = stored \/ \E k \in Named(w) : stored' = stored \ {k}
    BY <2>1, <2>2
  <2> QED BY <1>2, <2>1, <2>3, AnswerStep
<1>4. ASSUME stored' = stored \ {job[w].old}, broken' = broken,
             job' = [job EXCEPT ![w].pc = Cleared(job[w].op)]
      PROVE  IInv'
  <2>1. PICK old, j : /\ old = job[w].old /\ j = [job[w] EXCEPT !.pc = Cleared(job[w].op)]
                      /\ Moves(w, j)
    BY <1>4 DEF Moves
  <2>2. j \in Jobs
    <3>1. CASE job[w] \in Picturing
      <4>1. j \in Picturing
        BY <2>1, <3>1 DEF Picturing, Cleared
      <4> QED BY <4>1, JobsAre
    <3>2. CASE job[w] \in Removing
      <4>1. j \in Removing
        BY <2>1, <3>2 DEF Removing, Cleared
      <4> QED BY <4>1, JobsAre
    <3> QED BY <1>1, <3>1, <3>2
  <2>3. /\ j.old = old /\ j.op = job[w].op /\ j.pc \in {"upload", "drop_club"}
        /\ j.op \in {"picture", "delete_club"}
    BY <1>1, <2>1 DEF Picturing, Removing, Cleared
  <2>4. job'[w] = j
    BY <1>0, <2>1, Others DEF TypeOK
  <2>5. /\ ~Fresh(w)' /\ ~Closing(w)' /\ ~Renewing(w)' /\ Updating(w)'
        /\ Named(w)' = {old} \ {0} /\ Named(w) = {old} \ {0}
    BY <1>1, <1>2, <2>1, <2>3, <2>4 DEF Fresh, Closing, Renewing, Updating, Named
  <2>6. Shrinks
    BY <1>2, <1>4 DEF Shrinks
  <2>7. TypeOK'
    <3>1. job' \in [Workers -> Jobs]
      BY <1>0, <2>1, <2>2 DEF TypeOK, Moves
    <3> QED BY <1>0, <1>2, <1>4, <3>1 DEF TypeOK
  <2>8. UpdateSound(w)
    BY DEF IInv, JobSound
  <2>9. JobSound(w)'
    <3>1. UpdateSound(w)'
      BY <1>2, <2>1, <2>3, <2>4, <2>8 DEF UpdateSound, Exists
    <3> QED BY <2>3, <2>4, <2>5, <3>1 DEF JobSound, FreshSound, AddSound, RenewSound, DoomedSound,
              WipeSound, CloseComplete
  <2>10. Covered'
    <3>1. \A k \in stored : k \in stored' \/ k = old
      BY <1>4, <2>1
    <3>2. \A r \in Rows : Exists(r) /\ row[r].key # 0 => RowCovered(r)'
      BY <1>0, <1>2, <1>4, <2>1, <2>8, <3>1, StaysCovered DEF UpdateSound
    <3>3. \A u \in Users : photo[u] # 0 => PhotoCovered(u)'
      BY <1>0, <1>2, <1>4, <2>1, <2>8, <3>1, StaysCovered DEF UpdateSound
    <3>4. club.picture # old => PictureCovered'
      BY <1>0, <1>1, <1>2, <1>4, <2>1, <3>1, StaysCovered
    <3>5. club.picture = old => PictureCovered'
      BY <1>2, <2>3, <2>4, <2>5 DEF PictureCovered
    <3>6. \A r \in Rows : RowCovered(r)'
      BY <1>2, <3>2 DEF RowCovered, Exists
    <3>7. \A u \in Users : PhotoCovered(u)'
      BY <1>2, <3>3 DEF PhotoCovered
    <3> QED BY <3>4, <3>5, <3>6, <3>7 DEF Covered
  <2>11. \A k \in stored' : Accounted(k) => Accounted(k)'
    BY <1>0, <1>2, <2>1, StaysAccounted
  <2>12. club.status = "deleted" => club.picture = 0
    BY DEF IInv, Placed, PictureSound
  <2>13. ASSUME NEW v \in Workers \ {w}, Fresh(v)
         PROVE  job[v].key \in stored' /\ job[v].key \notin Named(w)'
    <3>1. job[v].key \in stored /\ job[v].key # 0
      BY <2>13 DEF IInv, JobSound, FreshSound, Fresh
    <3>2. job[v].key \notin Named(w)
      BY <2>13 DEF IInv, AllApart, Apart
    <3> QED BY <1>4, <2>1, <2>5, <3>1, <3>2
  <2> QED BY <1>2, <2>1, <2>2, <2>5, <2>6, <2>7, <2>9, <2>10, <2>11, <2>12, <2>13, ShrinkStep
<1> QED BY <1>3, <1>4 DEF ClearPicture

\* delete_my_account: the objects that go are the account's, and the request
\* will delete the rows that name them.
LEMMA WipeObjectStep ==
    ASSUME IInv, NEW w \in Workers, WipeObject(w)
    PROVE  IInv'
<1>0. TypeOK /\ Covered
  BY DEF IInv
<1>1. /\ job[w] \in Wiping /\ job[w].pc = "wipe" /\ job[w].op = "close"
      /\ job[w].user \in Users /\ job[w].posts \subseteq Rows
  BY <1>0, JobKinds DEF TypeOK, WipeObject, At, Wiping
<1>2. /\ UNCHANGED <<club, row, photo, closed, owner, lastKey, raced, loose>>
      /\ ~Fresh(w) /\ Closing(w) /\ ~Renewing(w) /\ ~Updating(w)
      /\ Doomed(w) = job[w].posts /\ Named(w) = job[w].keys
  BY <1>1 DEF WipeObject, Fresh, Closing, Renewing, Updating, Doomed, Named
<1>3. ASSUME NEW k \in job[w].keys, RemovalFails(w, k) PROVE IInv'
  BY <1>2, <1>3, AnswerStep DEF RemovalFails
<1>4. ASSUME NEW k \in job[w].keys, stored' = stored \ {k}, broken' = broken,
             job' = [job EXCEPT ![w].keys = @ \ {k}]
      PROVE  IInv'
  <2>1. PICK j : j = [job[w] EXCEPT !.keys = job[w].keys \ {k}] /\ Moves(w, j)
    BY <1>4 DEF Moves
  <2>2. j \in Jobs
    <3>1. j \in Wiping
      BY <1>1, <2>1 DEF Wiping
    <3> QED BY <3>1, JobsAre
  <2>3. /\ j.pc = "wipe" /\ j.op = "close" /\ j.user = job[w].user
        /\ j.posts = job[w].posts /\ j.keys = job[w].keys \ {k} /\ j.photo = job[w].photo
    BY <1>1, <2>1 DEF Wiping
  <2>4. job'[w] = j
    BY <1>0, <2>1, Others DEF TypeOK
  <2>5. /\ ~Fresh(w)' /\ Closing(w)' /\ ~Renewing(w)' /\ ~Updating(w)'
        /\ Named(w)' = job[w].keys \ {k} /\ Doomed(w)' = job[w].posts
    BY <2>3, <2>4 DEF Fresh, Closing, Renewing, Updating, Named, Doomed
  <2>6. Shrinks
    BY <1>2, <1>4 DEF Shrinks
  <2>7. TypeOK'
    <3>1. job' \in [Workers -> Jobs]
      BY <1>0, <2>1, <2>2 DEF TypeOK, Moves
    <3> QED BY <1>0, <1>2, <1>4, <3>1 DEF TypeOK
  <2>8. DoomedSound(w) /\ WipeSound(w) /\ CloseComplete(w)
    BY DEF IInv, JobSound
  <2>9. JobSound(w)'
    <3>1. DoomedSound(w)'
      <4> SUFFICES ASSUME NEW r \in job[w].posts
                   PROVE  /\ row[r] # NoRow
                          /\ Exists(r) /\ row[r].key # 0 =>
                               /\ row[r].author = job[w].user
                               /\ row[r].key \notin stored \ {k} \/ row[r].key \in job[w].keys \ {k}
        BY <1>2, <1>4, <2>3, <2>4, <2>5 DEF DoomedSound, Exists
      <4> QED BY <1>1, <1>2, <2>8 DEF DoomedSound
    <3>2. WipeSound(w)'
      <4>1. \A x \in job[w].keys \ {k} :
              /\ x \in 1..lastKey
              /\ owner[x] = job[w].user
              /\ club.picture # x
              /\ \A r \in Rows : Exists(r) /\ row[r].key = x => r \in job[w].posts
              /\ job[w].photo = 0 => \A u \in Users : photo[u] # x
        BY <1>1, <2>8 DEF WipeSound
      <4>2. \A r \in Rows : Exists(r)' <=> Exists(r)
        BY <1>2 DEF Exists
      <4> QED BY <1>2, <2>3, <2>4, <4>1, <4>2 DEF WipeSound
    <3>3. CloseComplete(w)'
      <4> SUFFICES ASSUME job[w].user \notin raced PROVE CloseComplete(w)'
        BY <1>2, <2>3, <2>4 DEF CloseComplete
      <4>1. ASSUME NEW r \in Rows, Exists(r)', row'[r].author = j.user, row'[r].kind = "post"
            PROVE  r \in job[w].posts
        BY <1>1, <1>2, <2>3, <2>8, <4>1 DEF CloseComplete, Exists
      <4>2. photo'[j.user] # 0 => photo'[j.user] \notin stored' \/ photo'[j.user] \in j.keys
        BY <1>1, <1>2, <1>4, <2>3, <2>8 DEF CloseComplete
      <4>3. j.photo = 0 => photo'[j.user] = 0
        BY <1>2, <2>3, <2>8 DEF CloseComplete
      <4> QED BY <2>3, <2>4, <2>5, <4>1, <4>2, <4>3 DEF CloseComplete
    <3> QED BY <2>3, <2>4, <2>5, <3>1, <3>2, <3>3
            DEF JobSound, FreshSound, AddSound, RenewSound, UpdateSound
  <2>10. Covered'
    <3>1. \A x \in stored : x \in stored' \/ x = k
      BY <1>4
    <3>2. ASSUME NEW r \in Rows PROVE RowCovered(r)'
      <4>1. CASE row[r].key # k
        BY <1>0, <1>2, <1>4, <2>1, <2>5, <3>1, <4>1, StaysCovered
      <4>2. CASE row[r].key = k
        <5>1. Exists(r) => r \in job[w].posts
          BY <1>1, <2>8, <4>2 DEF WipeSound
        <5> QED BY <1>2, <2>5, <5>1 DEF RowCovered, Exists
      <4> QED BY <4>1, <4>2
    <3>3. ASSUME NEW u \in Users PROVE PhotoCovered(u)'
      <4>1. CASE photo[u] # k
        <5>1. photo'[u] = photo[u] /\ (broken => broken')
          BY <1>2, <1>4
        <5>2. Closing(w)' /\ j.user = job[w].user /\ j.photo = job[w].photo
          BY <2>3, <2>5
        <5>3. /\ photo'[u] = photo[u]
              /\ photo[u] # k \/ broken'
              /\ Closing(w) /\ job[w].user = u /\ job[w].photo # 0 =>
                   broken' \/ (Closing(w)' /\ j.user = u /\ j.photo # 0)
              => PhotoCovered(u)'
          BY <1>0, <2>1, <3>1, <5>1, StaysCovered
        <5> QED BY <4>1, <5>1, <5>2, <5>3
      <4>2. CASE photo[u] = k
        <5>1. photo[u] # 0 => u = job[w].user /\ job[w].photo # 0
          BY <1>1, <2>8, <4>2 DEF WipeSound, IInv, Placed, PhotoSound
        <5> QED BY <1>2, <2>3, <2>4, <2>5, <5>1 DEF PhotoCovered
      <4> QED BY <4>1, <4>2
    <3>4. PictureCovered'
      <4>1. club.picture # k
        BY <1>1, <2>8 DEF WipeSound
      <4> QED BY <1>0, <1>2, <1>4, <2>1, <3>1, <4>1, StaysCovered
    <3> QED BY <3>2, <3>3, <3>4 DEF Covered
  <2>11. \A x \in stored' : Accounted(x) => Accounted(x)'
    BY <1>0, <1>2, <2>1, StaysAccounted
  <2>12. club.status = "deleted" => club.picture = 0
    BY DEF IInv, Placed, PictureSound
  <2>13. ASSUME NEW v \in Workers \ {w}, Fresh(v)
         PROVE  job[v].key \in stored' /\ job[v].key \notin Named(w)'
    <3>1. job[v].key \in stored
      BY <2>13 DEF IInv, JobSound, FreshSound
    <3>2. job[v].key \notin Named(w)
      BY <2>13 DEF IInv, AllApart, Apart
    <3> QED BY <1>2, <1>4, <2>5, <3>1, <3>2
  <2> QED BY <1>2, <2>1, <2>2, <2>5, <2>6, <2>7, <2>9, <2>10, <2>11, <2>12, <2>13, ShrinkStep
<1> QED BY <1>3, <1>4 DEF WipeObject

\* delete_club: every row goes, and the picture with the club.
LEMMA DropClubStep ==
    ASSUME IInv, NEW w \in Workers, DropClub(w)
    PROVE  IInv'
<1>0. TypeOK /\ Covered
  BY DEF IInv
<1>1. /\ row' = Without(Rows) /\ club' = [club EXCEPT !.status = "deleted", !.picture = 0]
      /\ loose' = loose \cup KeysOf(Rows) \cup ({club.picture} \ {0})
      /\ UNCHANGED <<photo, closed, stored, owner, lastKey, raced, broken>>
  BY DEF DropClub
<1>2. job[w] \in Removing /\ job[w].pc = "drop_club"
  BY <1>0, JobKinds DEF TypeOK, DropClub, At
<1>3. Moves(w, Idle) /\ Idle \in Jobs
  BY JobsAre DEF DropClub, Reply, Moves
<1>4. job'[w] = Idle
  BY <1>0, <1>3, Others DEF TypeOK
<1>5. ~Closing(w) /\ ~Fresh(w)
  BY <1>2 DEF Closing, Fresh
<1>6. club'.status = "deleted" /\ club'.picture = 0 /\ club'.leader = club.leader
  BY <1>0, <1>1 DEF TypeOK
<1>7. Shrinks
  BY <1>1, <1>6, Loosened DEF Shrinks
<1>8. TypeOK'
  <2>1. row' \in [Rows -> {NoRow, Gone} \cup Contents] /\ loose' \subseteq 1..lastKey
    <3>1. club.picture # 0 => club.picture \in 1..lastKey
      BY DEF IInv, Placed, PictureSound
    <3> QED BY <1>0, <1>1, <3>1, Loosened DEF TypeOK
  <2>2. job' \in [Workers -> Jobs]
    BY <1>0, <1>3 DEF TypeOK, Moves
  <2>3. club' \in [status : {"live", "archived", "deleted"}, leader : Users, picture : Kept]
    <3>1. 0 \in Kept
      BY ContentAssumption DEF Kept
    <3> QED BY <1>0, <1>1, <3>1 DEF TypeOK
  <2> QED BY <1>0, <1>1, <2>1, <2>2, <2>3 DEF TypeOK, Contents
<1>9. JobSound(w)' /\ ~Fresh(w)' /\ Named(w)' = {}
  BY <1>4 DEF Idle, JobSound, FreshSound, AddSound, RenewSound, UpdateSound, DoomedSound,
       WipeSound, CloseComplete, Fresh, Closing, Updating, Renewing, Named
<1>10. Covered'
  <2>1. \A k \in stored : k \in stored' \/ k = 0
    BY <1>1
  <2>2. \A u \in Users : photo[u] # 0 => PhotoCovered(u)'
    BY <1>0, <1>1, <1>3, <1>5, <2>1, StaysCovered
  <2>3. \A u \in Users : PhotoCovered(u)'
    BY <1>1, <2>2 DEF PhotoCovered
  <2>4. \A r \in Rows : ~Exists(r)'
    BY <1>1, Loosened DEF Exists
  <2>5. \A r \in Rows : RowCovered(r)'
    BY <2>4 DEF RowCovered
  <2>6. PictureCovered'
    BY <1>6 DEF PictureCovered
  <2> QED BY <2>3, <2>5, <2>6 DEF Covered
<1>11. ASSUME NEW k \in stored', Accounted(k) PROVE Accounted(k)'
  <2>1. k # 0
    BY <1>0, <1>1 DEF TypeOK
  <2>2. \A r \in Rows : Exists(r) /\ row[r].key = k => row'[r] = row[r] \/ k \in loose'
    BY <1>1, <2>1, Loosened
  <2> QED BY <1>0, <1>1, <1>3, <1>5, <1>11, <2>1, <2>2, StaysAccounted
<1>12. \A v \in Workers : Fresh(v) => job[v].key \in stored
  BY DEF IInv, JobSound, FreshSound
<1> QED BY <1>1, <1>3, <1>6, <1>7, <1>8, <1>9, <1>10, <1>11, <1>12, ShrinkStep

LEMMA Inheritance ==
    ASSUME IInv, NEW u \in Users, club' \in Inherited(u)
    PROVE  /\ club' \in [status : {"live", "archived", "deleted"}, leader : Users, picture : Kept]
           /\ club'.picture = club.picture
           /\ club'.status = "deleted" => club.status = "deleted"
<1>0. club \in [status : {"live", "archived", "deleted"}, leader : Users, picture : Kept]
  BY DEF IInv, TypeOK
<1>1. \/ club' = club
      \/ club' = [club EXCEPT !.status = "archived"]
      \/ \E v \in Users : club' = [club EXCEPT !.leader = v] /\ club.status # "deleted"
  BY DEF Inherited
<1>2. CASE club' = club
  BY <1>0, <1>2
<1>3. CASE club' = [club EXCEPT !.status = "archived"]
  BY <1>0, <1>3
<1>4. ASSUME NEW v \in Users, club' = [club EXCEPT !.leader = v], club.status # "deleted"
      PROVE  /\ club' \in [status : {"live", "archived", "deleted"}, leader : Users, picture : Kept]
             /\ club'.picture = club.picture
             /\ club'.status # "deleted"
  BY <1>0, <1>4
<1> QED BY <1>1, <1>2, <1>3, <1>4

\* delete_my_account: the objects of what it deletes are gone already.
LEMMA CommitCloseStep ==
    ASSUME IInv, NEW w \in Workers, CommitClose(w)
    PROVE  IInv'
<1>0. TypeOK /\ Covered
  BY DEF IInv
<1>1. PICK u, rs :
        /\ u = job[w].user /\ rs = job[w].rows
        /\ row' = Without(rs)
        /\ photo' = IF job[w].photo = 0 THEN photo ELSE [photo EXCEPT ![u] = 0]
        /\ closed' = closed \cup {u} /\ club' \in Inherited(u)
        /\ UNCHANGED <<stored, owner, lastKey, raced, loose, broken>>
  BY DEF CommitClose, past
<1>2. job[w] \in Ending /\ job[w].pc = "close"
  BY <1>0, JobKinds DEF TypeOK, CommitClose, At
<1>3. Moves(w, Idle) /\ Idle \in Jobs
  BY JobsAre DEF CommitClose, Reply, Moves
<1>4. job'[w] = Idle
  BY <1>0, <1>3, Others DEF TypeOK
<1>5. /\ Closing(w) /\ ~Fresh(w) /\ ~Updating(w) /\ Doomed(w) = rs
      /\ u \in Users /\ rs \subseteq Rows
  BY <1>1, <1>2 DEF Closing, Fresh, Updating, Doomed, Ending
<1>6. /\ club' \in [status : {"live", "archived", "deleted"}, leader : Users, picture : Kept]
      /\ club'.picture = club.picture
      /\ club'.status = "deleted" => club'.picture = 0
  <2>1. club.status = "deleted" => club.picture = 0
    BY DEF IInv, Placed, PictureSound
  <2> QED BY <1>1, <1>5, <2>1, Inheritance
<1>7. /\ \A v \in Users : photo'[v] = IF v = u /\ job[w].photo # 0 THEN 0 ELSE photo[v]
      /\ \A r \in Rows : row'[r] = IF r \in rs /\ Exists(r) THEN Gone ELSE row[r]
  BY <1>0, <1>1, <1>5, Loosened DEF TypeOK
<1>8. Shrinks
  BY <1>1, <1>6, <1>7 DEF Shrinks
<1>9. TypeOK'
  <2>1. row' \in [Rows -> {NoRow, Gone} \cup Contents]
    BY <1>1, <1>5, Loosened
  <2>2. job' \in [Workers -> Jobs]
    BY <1>0, <1>3 DEF TypeOK, Moves
  <2>3. photo' \in [Users -> Kept]
    <3>1. 0 \in Kept
      BY ContentAssumption DEF Kept
    <3> QED BY <1>0, <1>1, <3>1 DEF TypeOK
  <2> QED BY <1>0, <1>1, <1>5, <1>6, <2>1, <2>2, <2>3 DEF TypeOK, Contents
<1>10. JobSound(w)' /\ ~Fresh(w)' /\ Named(w)' = {}
  BY <1>4 DEF Idle, JobSound, FreshSound, AddSound, RenewSound, UpdateSound, DoomedSound,
       WipeSound, CloseComplete, Fresh, Closing, Updating, Renewing, Named
<1>11. DoomedSound(w) /\ CloseComplete(w)
  BY DEF IInv, JobSound
<1>12. Covered'
  <2>1. \A k \in stored : k \in stored' \/ k = 0
    BY <1>1
  <2>2. ASSUME NEW r \in Rows PROVE RowCovered(r)'
    <3> SUFFICES ASSUME Exists(r)', row'[r].key # 0 PROVE RowCovered(r)'
      BY DEF RowCovered
    <3>1. Exists(r) /\ row'[r] = row[r]
      BY <1>8, ShrunkRows
    <3>2. r \notin rs
      BY <1>7, <3>1 DEF Exists, Gone
    <3> QED BY <1>0, <1>1, <1>3, <1>5, <2>1, <3>1, <3>2, StaysCovered
  <2>3. ASSUME NEW v \in Users PROVE PhotoCovered(v)'
    <3>1. CASE v = u /\ job[w].photo # 0
      BY <1>7, <3>1 DEF PhotoCovered
    <3>2. CASE ~(v = u /\ job[w].photo # 0) /\ photo[v] # 0
      BY <1>0, <1>1, <1>3, <1>7, <2>1, <3>2, StaysCovered
    <3>3. CASE ~(v = u /\ job[w].photo # 0) /\ photo[v] = 0
      BY <1>7, <3>3 DEF PhotoCovered
    <3> QED BY <3>1, <3>2, <3>3
  <2>4. CASE club.picture # 0
    <3>1. PictureCovered'
      BY <1>0, <1>1, <1>3, <1>5, <1>6, <2>1, <2>4, StaysCovered
    <3> QED BY <2>2, <2>3, <3>1 DEF Covered
  <2>5. CASE club.picture = 0
    <3>1. PictureCovered'
      BY <1>6, <2>5 DEF PictureCovered
    <3> QED BY <2>2, <2>3, <3>1 DEF Covered
  <2> QED BY <2>4, <2>5
<1>13. ASSUME NEW k \in stored', Accounted(k) PROVE Accounted(k)'
  <2>1. k # 0 /\ k \in stored
    BY <1>0, <1>1 DEF TypeOK
  <2>2. CASE owner[k] \in raced
    BY <1>1, <2>2 DEF Accounted
  <2>3. CASE owner[k] \notin raced
    <3>1. ASSUME NEW r \in Rows, Exists(r), row[r].key = k PROVE row'[r] = row[r]
      <4>1. r \notin rs
        BY <1>2, <1>5, <1>11, <2>1, <3>1 DEF DoomedSound
      <4> QED BY <1>7, <4>1
    <3>2. ASSUME photo[owner[k]] = k PROVE photo'[owner[k]] = k
      <4>1. owner[k] # u
        BY <1>1, <1>2, <1>5, <1>11, <2>1, <2>3, <3>2 DEF CloseComplete
      <4> QED BY <1>0, <1>1, <3>2, <4>1 DEF TypeOK
    <3> QED BY <1>0, <1>1, <1>3, <1>5, <1>6, <1>13, <3>1, <3>2, StaysAccounted
  <2> QED BY <2>2, <2>3
<1>14. Cleaned(u)'
  <2> SUFFICES ASSUME u \notin raced PROVE Cleaned(u)'
    BY <1>1 DEF Cleaned
  <2>1. ASSUME NEW r \in Rows, Exists(r)' PROVE row'[r].author # u
    <3>1. Exists(r) /\ row'[r] = row[r]
      BY <1>8, <2>1, ShrunkRows
    <3>2. r \notin rs
      BY <1>7, <3>1 DEF Exists, Gone
    <3> QED BY <1>1, <1>2, <1>5, <1>11, <3>1, <3>2 DEF CloseComplete
  <2>2. photo'[u] = 0
    BY <1>1, <1>5, <1>7, <1>11 DEF CloseComplete
  <2> QED BY <2>1, <2>2 DEF Cleaned
<1>15. \A v \in Workers : Fresh(v) => job[v].key \in stored
  BY DEF IInv, JobSound, FreshSound
<1> QED BY <1>1, <1>3, <1>6, <1>8, <1>9, <1>10, <1>12, <1>13, <1>14, <1>15, ShrinkStep

-----------------------------------------------------------------------------
(* Steps that upload: the store and the keys grow, the rows stay.          *)

Grows ==
    /\ lastKey < MaxKeys
    /\ lastKey' = lastKey + 1
    /\ stored' = stored \cup {lastKey + 1}
    /\ \A k \in 1..lastKey : owner'[k] = owner[k]
    /\ UNCHANGED <<club, row, photo, closed, raced>>

LEMMA GrowPlaces ==
    ASSUME TypeOK, Placed, Grows
    PROVE  Placed'
<1>1. /\ \A k \in 1..lastKey : k \in 1..lastKey' /\ owner'[k] = owner[k]
      /\ club' = club /\ row' = row /\ photo' = photo
      /\ \A r \in Rows : Exists(r)' <=> Exists(r)
  BY DEF TypeOK, Kept, Grows, Exists
<1>2. ASSUME NEW r \in Rows PROVE RowSound(r)'
  BY <1>1 DEF Placed, RowSound
<1>3. ASSUME NEW u \in Users PROVE PhotoSound(u)'
  BY <1>1 DEF Placed, PhotoSound
<1>4. PictureSound'
  BY <1>1 DEF Placed, PictureSound
<1> QED BY <1>2, <1>3, <1>4 DEF Placed

LEMMA GrowJob ==
    ASSUME TypeOK, Placed, Grows, NEW w \in Workers, job'[w] = job[w], JobSound(w)
    PROVE  JobSound(w)'
<1> USE DEF JobSound
<1>0. /\ \A k \in 1..lastKey : k \in 1..lastKey' /\ owner'[k] = owner[k] /\ (k \in stored' => k \in stored)
      /\ stored \subseteq stored'
      /\ club' = club /\ row' = row /\ photo' = photo /\ raced' = raced
      /\ \A r \in Rows : Exists(r)' <=> Exists(r)
  BY DEF TypeOK, Kept, Grows, Exists
<1>1. FreshSound(w)'
  <2> SUFFICES ASSUME Fresh(w)' PROVE FreshSound(w)'
    BY DEF FreshSound
  <2>0. Fresh(w) /\ Named(w)' = Named(w)
    BY Same
  <2>1. job[w].key \in 1..lastKey
    BY <2>0 DEF FreshSound, TypeOK
  <2> QED BY <1>0, <2>0, <2>1 DEF FreshSound
<1>2. AddSound(w)'
  BY DEF AddSound
<1>3. RenewSound(w)'
  BY <1>0, Same DEF RenewSound
<1>4. UpdateSound(w)'
  BY <1>0, Same DEF UpdateSound
<1>5. DoomedSound(w)'
  <2> SUFFICES ASSUME Closing(w)', NEW r \in Doomed(w)'
               PROVE  /\ row'[r] # NoRow
                      /\ Exists(r)' /\ row'[r].key # 0 =>
                           /\ row'[r].author = job'[w].user
                           /\ \/ row'[r].key \notin stored'
                              \/ job'[w].pc = "wipe" /\ row'[r].key \in job'[w].keys
    BY DEF DoomedSound
  <2>1. Closing(w) /\ r \in Doomed(w)
    BY Same
  <2>2. r \in Rows
    <3>1. job[w] \in Jobs
      BY DEF TypeOK
    <3> QED BY <2>1, <3>1, JobKinds DEF Closing, Doomed, Wiping, Ending
  <2>3. RowSound(r)
    BY <2>2 DEF Placed
  <2> QED BY <1>0, <2>1, <2>2, <2>3 DEF DoomedSound, RowSound
<1>6. WipeSound(w)'
  BY <1>0 DEF WipeSound
<1>7. CloseComplete(w)'
  <2> SUFFICES ASSUME Closing(w)', job'[w].user \notin raced' PROVE CloseComplete(w)'
    BY DEF CloseComplete
  <2>0. Closing(w) /\ job[w].user \notin raced /\ Doomed(w)' = Doomed(w)
    BY <1>0, Same
  <2>1. job[w].user \in Users
    <3>1. job[w] \in Jobs
      BY DEF TypeOK
    <3> QED BY <2>0, <3>1, JobKinds DEF Closing, Wiping, Ending
  <2>2. PhotoSound(job[w].user)
    BY <2>1 DEF Placed
  <2>3. photo[job[w].user] # 0 => photo[job[w].user] \in 1..lastKey
    BY <2>2 DEF PhotoSound
  <2>4. photo'[job'[w].user] # 0 =>
          \/ photo'[job'[w].user] \notin stored'
          \/ job'[w].pc = "wipe" /\ photo'[job'[w].user] \in job'[w].keys
    BY <1>0, <2>0, <2>3 DEF CloseComplete
  <2>5. \A r \in Rows :
          Exists(r)' /\ row'[r].author = job'[w].user
                    /\ (job'[w].pc = "close" \/ row'[r].kind = "post") => r \in Doomed(w)'
    BY <1>0, <2>0 DEF CloseComplete
  <2>6. job'[w].photo = 0 => photo'[job'[w].user] = 0
    BY <1>0, <2>0 DEF CloseComplete
  <2> QED BY <2>4, <2>5, <2>6 DEF CloseComplete
<1> QED BY <1>1, <1>2, <1>3, <1>4, <1>5, <1>6, <1>7

\* What the three uploads have in common when the store takes the object.
LEMMA StoredStep ==
    ASSUME IInv, NEW w \in Workers, job[w].pc = "upload", lastKey < MaxKeys,
           lastKey' = lastKey + 1, stored' = stored \cup {lastKey + 1},
           owner' = [owner EXCEPT ![lastKey + 1] = job[w].user],
           job' = [job EXCEPT ![w].pc = "insert", ![w].key = lastKey + 1],
           UNCHANGED <<club, row, photo, closed, past>>
    PROVE  IInv'
<1>0. /\ TypeOK /\ Placed /\ Covered /\ AllApart
      /\ \A v \in Workers : JobSound(v)
      /\ \A k \in stored : Accounted(k)
      /\ \A u \in closed : Cleaned(u)
  BY DEF IInv
<1>1. PICK n, j :
        /\ n = lastKey + 1 /\ j = [job[w] EXCEPT !.pc = "insert", !.key = n]
        /\ Moves(w, j)
  BY DEF Moves
<1>2. n \in 1..MaxKeys /\ n \notin 1..lastKey /\ n \in 1..lastKey' /\ n \in Kept /\ n # 0
  BY <1>0, <1>1, ContentAssumption DEF TypeOK, Kept
<1>3. job[w] \in Adding \cup Photographing \cup Picturing /\ job[w].user \in Users
  <2>1. job[w] \in Jobs
    BY <1>0 DEF TypeOK
  <2>2. job[w] \in Adding \cup Photographing \cup Picturing
    BY <2>1, JobKinds
  <2> QED BY <2>2 DEF Adding, Photographing, Picturing
<1>4. j \in Jobs
  <2>1. CASE job[w] \in Adding
    <3>1. j \in Adding
      BY <1>1, <1>2, <2>1 DEF Adding
    <3> QED BY <3>1, JobsAre
  <2>2. CASE job[w] \in Photographing
    <3>1. j \in Photographing
      BY <1>1, <1>2, <2>2 DEF Photographing
    <3> QED BY <3>1, JobsAre
  <2>3. CASE job[w] \in Picturing
    <3>1. j \in Picturing
      BY <1>1, <1>2, <2>3 DEF Picturing
    <3> QED BY <3>1, JobsAre
  <2> QED BY <1>3, <2>1, <2>2, <2>3
<1>5. /\ j.pc = "insert" /\ j.key = n /\ j.op = job[w].op /\ j.user = job[w].user
      /\ j.op = "add" => j.kind = job[w].kind /\ j.post = job[w].post
      /\ j.op \in {"photo", "picture"} => j.old = job[w].old
      /\ j.op \in {"add", "photo", "picture"}
  BY <1>1, <1>3 DEF Adding, Photographing, Picturing
<1>6. job'[w] = j /\ \A x \in Workers \ {w} : job'[x] = job[x]
  BY <1>0, <1>1, Others DEF TypeOK
<1>7. /\ \A k \in 1..lastKey : owner'[k] = owner[k]
      /\ owner'[n] = job[w].user
      /\ owner' \in [1..MaxKeys -> Users \cup {Nobody}]
  BY <1>0, <1>1, <1>2, <1>3 DEF TypeOK
<1>8. Grows
  BY <1>7 DEF Grows, past
<1>9. TypeOK'
  <2>1. job' \in [Workers -> Jobs]
    BY <1>0, <1>1, <1>4 DEF TypeOK, Moves
  <2>2. lastKey' \in Kept /\ stored' \subseteq 1..lastKey' /\ loose' \subseteq 1..lastKey'
    BY <1>0, <1>1, <1>2 DEF TypeOK, past, Kept
  <2> QED BY <1>0, <1>7, <2>1, <2>2 DEF TypeOK, past
<1>10. /\ \A k \in 1..lastKey : k \in 1..lastKey'
       /\ club' = club /\ row' = row /\ photo' = photo /\ raced' = raced /\ closed' = closed
       /\ broken' = broken /\ loose' = loose
       /\ \A r \in Rows : Exists(r)' <=> Exists(r)
  BY <1>0, <1>1 DEF TypeOK, Kept, past, Exists
<1>11. Placed'
  BY <1>0, <1>8, GrowPlaces
<1>12. /\ Fresh(w)' /\ ~Closing(w)' /\ ~Fresh(w) /\ ~Closing(w)
       /\ Renewing(w)' = Renewing(w) /\ Updating(w)' = Updating(w)
       /\ Named(w)' = Named(w)
  <2>1. /\ Fresh(w)' /\ ~Closing(w)' /\ ~Fresh(w) /\ ~Closing(w)
        /\ Renewing(w)' = Renewing(w) /\ Updating(w)' = Updating(w)
    BY <1>2, <1>5, <1>6 DEF Fresh, Closing, Renewing, Updating
  <2>2. Updating(w) \/ Renewing(w) => j.old = job[w].old
    BY <1>5 DEF Updating, Renewing
  <2> QED BY <1>5, <1>6, <2>1, <2>2 DEF Named
<1>13. ASSUME NEW v \in Workers PROVE n \notin Named(v)
  <2>1. RenewSound(v) /\ UpdateSound(v) /\ WipeSound(v)
    BY <1>0 DEF JobSound
  <2> QED BY <1>2, <2>1 DEF RenewSound, UpdateSound, WipeSound, Named
<1>14. JobSound(w)'
  <2>1. AddSound(w) /\ RenewSound(w) /\ UpdateSound(w)
    BY <1>0 DEF JobSound
  <2>2. AddSound(w)'
    BY <1>2, <1>5, <1>6, <2>1 DEF AddSound
  <2>3. RenewSound(w)'
    <3> SUFFICES ASSUME Renewing(w), job[w].old # 0 PROVE RenewSound(w)'
      BY <1>5, <1>6, <1>12 DEF RenewSound, Renewing
    <3>1. job'[w].old = job[w].old /\ job'[w].user = job[w].user /\ job'[w].pc = "insert"
      BY <1>5, <1>6 DEF Renewing
    <3>2. /\ job[w].old \in 1..lastKey
          /\ owner[job[w].old] = job[w].user
          /\ club.picture # job[w].old
          /\ \A r \in Rows : Exists(r) => row[r].key # job[w].old
      BY <2>1 DEF RenewSound
    <3>3. job[w].old \in 1..lastKey' /\ owner'[job[w].old] = job[w].user
      BY <1>7, <1>10, <3>2
    <3> QED BY <1>10, <3>1, <3>2, <3>3 DEF RenewSound
  <2>4. UpdateSound(w)'
    <3> SUFFICES ASSUME Updating(w), job[w].old # 0 PROVE UpdateSound(w)'
      BY <1>5, <1>6, <1>12 DEF UpdateSound, Updating
    <3> QED BY <1>5, <1>6, <1>10, <1>12, <2>1 DEF UpdateSound, Updating
  <2>5. FreshSound(w)'
    <3>1. club.picture # n
      BY <1>0, <1>2 DEF Placed, PictureSound
    <3>2. \A u \in Users : photo[u] # n
      BY <1>0, <1>2 DEF Placed, PhotoSound
    <3>3. \A r \in Rows : Exists(r) => row[r].key # n
      BY <1>0, <1>2 DEF Placed, RowSound
    <3>4. n \in stored'
      BY <1>1
    <3>5. job'[w].key = n /\ job'[w].user = job[w].user
      BY <1>5, <1>6
    <3>6. owner'[n] = job'[w].user /\ n \notin Named(w)'
      BY <1>7, <1>12, <1>13, <3>5
    <3> QED BY <1>10, <3>1, <3>2, <3>3, <3>4, <3>5, <3>6 DEF FreshSound
  <2> QED BY <1>5, <1>6, <1>12, <2>2, <2>3, <2>4, <2>5
          DEF JobSound, DoomedSound, WipeSound, CloseComplete
<1>15. \A v \in Workers : JobSound(v)'
  BY <1>0, <1>6, <1>8, <1>14, GrowJob
<1>16. AllApart'
  <2> SUFFICES ASSUME NEW x \in Workers, NEW y \in Workers, x # y, Fresh(x)'
               PROVE  job'[x].key \notin Named(y)' /\ (Fresh(y)' => job'[x].key # job'[y].key)
    BY DEF AllApart, Apart
  <2>1. \A v \in Workers \ {w} :
          /\ Fresh(v)' = Fresh(v) /\ Named(v)' = Named(v) /\ job'[v].key = job[v].key
          /\ Fresh(v) => job[v].key # n
    BY <1>0, <1>2, <1>6, Same DEF JobSound, FreshSound, TypeOK
  <2>2. CASE x = w
    <3>1. job'[x].key = n
      BY <1>5, <1>6, <2>2
    <3>2. y \in Workers \ {w}
      BY <2>2
    <3>3. n \notin Named(y)'
      BY <1>13, <2>1, <3>2
    <3>4. Fresh(y)' => job'[y].key # n
      BY <2>1, <3>2
    <3> QED BY <3>1, <3>3, <3>4
  <2>3. CASE x # w /\ y = w
    <3>1. Apart(x, w)
      BY <1>0, <2>3 DEF AllApart
    <3>2. Fresh(x) /\ job'[x].key = job[x].key /\ job[x].key # n
      BY <2>1, <2>3
    <3>3. job'[y].key = n /\ Named(y)' = Named(w)
      BY <1>5, <1>6, <1>12, <2>3
    <3> QED BY <3>1, <3>2, <3>3 DEF Apart
  <2>4. CASE x # w /\ y # w
    <3>1. Apart(x, y)
      BY <1>0 DEF AllApart
    <3> QED BY <2>1, <2>4, <3>1 DEF Apart
  <2> QED BY <2>2, <2>3, <2>4
<1>17. Covered'
  <2>1. \A k \in stored : k \in stored' \/ k = 0
    OBVIOUS
  <2>2. \A r \in Rows : row[r].key # 0 => RowCovered(r)'
    BY <1>0, <1>1, <1>10, <1>12, <2>1, StaysCovered
  <2>3. \A u \in Users : photo[u] # 0 => PhotoCovered(u)'
    BY <1>0, <1>1, <1>10, <1>12, <2>1, StaysCovered
  <2>4. Updating(w) => j.pc # "clear" /\ j.old = job[w].old
    BY <1>5 DEF Updating
  <2>5. club.picture # 0 => PictureCovered'
    BY <1>0, <1>1, <1>10, <1>12, <2>1, <2>4, StaysCovered
  <2>6. \A r \in Rows : RowCovered(r)'
    BY <1>10, <2>2 DEF RowCovered
  <2>7. \A u \in Users : PhotoCovered(u)'
    <3>1. ASSUME NEW u \in Users, photo[u] = 0 PROVE PhotoCovered(u)'
      BY <1>10, <3>1 DEF PhotoCovered
    <3> QED BY <2>3, <3>1, Zenon
  <2>8. PictureCovered'
    BY <1>10, <2>5 DEF PictureCovered
  <2> QED BY <2>6, <2>7, <2>8 DEF Covered
<1>18. ASSUME NEW k \in stored' PROVE Accounted(k)'
  <2>1. CASE k \in stored
    <3>1. owner'[k] = owner[k] /\ Accounted(k)
      BY <1>0, <1>7, <2>1 DEF TypeOK
    <3> QED BY <1>0, <1>1, <1>10, <1>12, <3>1, StaysAccounted
  <2>2. CASE k = n
    BY <1>5, <1>6, <1>12, <2>2 DEF Accounted
  <2> QED BY <1>1, <2>1, <2>2
<1>19. \A u \in closed' : Cleaned(u)'
  BY <1>0, <1>10 DEF Cleaned
<1> QED BY <1>9, <1>11, <1>15, <1>16, <1>17, <1>18, <1>19 DEF IInv

\* The store took the object, but the request answers an error: no row will
\* ever name it.
LEMMA StrayStep ==
    ASSUME IInv, NEW w \in Workers, job[w].pc = "upload", lastKey < MaxKeys,
           lastKey' = lastKey + 1, stored' = stored \cup {lastKey + 1},
           owner' = [owner EXCEPT ![lastKey + 1] = job[w].user],
           Reply(w), loose' = loose \cup {lastKey + 1},
           UNCHANGED <<club, row, photo, closed, raced>>,
           broken' \in BOOLEAN, broken => broken',
           Updating(w) /\ job[w].old # 0 => broken'
    PROVE  IInv'
<1>0. /\ TypeOK /\ Placed /\ Covered /\ AllApart
      /\ \A v \in Workers : JobSound(v)
      /\ \A k \in stored : Accounted(k)
      /\ \A u \in closed : Cleaned(u)
  BY DEF IInv
<1>1. Moves(w, Idle) /\ Idle \in Jobs
  BY JobsAre DEF Reply, Moves
<1>2. job'[w] = Idle /\ \A x \in Workers \ {w} : job'[x] = job[x]
  BY <1>0, <1>1, Others DEF TypeOK
<1>3. /\ \A k \in 1..lastKey : owner'[k] = owner[k]
      /\ owner' \in [1..MaxKeys -> Users \cup {Nobody}]
  <2>1. job[w] \in Jobs
    BY <1>0 DEF TypeOK
  <2>2. job[w].user \in Users
    BY <2>1, JobKinds DEF Adding, Photographing, Picturing
  <2>3. lastKey \in Nat /\ lastKey + 1 \notin 1..lastKey /\ 1..lastKey \subseteq 1..MaxKeys
    BY <1>0, ContentAssumption DEF TypeOK, Kept
  <2>4. owner \in [1..MaxKeys -> Users \cup {Nobody}]
    BY <1>0 DEF TypeOK
  <2>5. owner' \in [1..MaxKeys -> Users \cup {Nobody}]
    BY <2>2, <2>4
  <2>6. ASSUME NEW k \in 1..lastKey PROVE owner'[k] = owner[k]
    BY <2>3, <2>4, <2>6
  <2> QED BY <2>5, <2>6
<1>4. Grows
  BY <1>3 DEF Grows
<1>5. TypeOK'
  <2>1. job' \in [Workers -> Jobs]
    BY <1>0, <1>1 DEF TypeOK, Moves
  <2>2. lastKey' \in Kept /\ stored' \subseteq 1..lastKey' /\ loose' \subseteq 1..lastKey'
    BY <1>0, ContentAssumption DEF TypeOK, Kept
  <2> QED BY <1>0, <1>3, <2>1, <2>2 DEF TypeOK
<1>6. Placed'
  BY <1>0, <1>4, GrowPlaces
<1>7. /\ ~Fresh(w) /\ ~Closing(w)
      /\ ~Fresh(w)' /\ Named(w)' = {} /\ JobSound(w)'
  BY <1>2 DEF Idle, JobSound, FreshSound, AddSound, RenewSound, UpdateSound, DoomedSound,
       WipeSound, CloseComplete, Fresh, Closing, Updating, Renewing, Named
<1>8. \A v \in Workers : JobSound(v)'
  BY <1>0, <1>2, <1>4, <1>7, GrowJob
<1>9. AllApart'
  BY <1>0, <1>1, <1>7, ApartShrinks
<1>10. Covered'
  <2>1. \A k \in stored : k \in stored' \/ k = 0
    OBVIOUS
  <2>2. \A r \in Rows : row[r].key # 0 => RowCovered(r)'
    BY <1>0, <1>1, <1>7, <2>1, StaysCovered
  <2>3. \A u \in Users : photo[u] # 0 => PhotoCovered(u)'
    BY <1>0, <1>1, <1>7, <2>1, StaysCovered
  <2>4. club.picture # 0 => PictureCovered'
    BY <1>0, <1>1, <2>1, StaysCovered
  <2>5. \A r \in Rows : RowCovered(r)'
    BY <2>2 DEF RowCovered
  <2>6. \A u \in Users : PhotoCovered(u)'
    BY <2>3 DEF PhotoCovered
  <2>7. PictureCovered'
    BY <2>4 DEF PictureCovered
  <2> QED BY <2>5, <2>6, <2>7 DEF Covered
<1>11. ASSUME NEW k \in stored' PROVE Accounted(k)'
  <2>1. CASE k \in stored
    <3>1. owner'[k] = owner[k] /\ Accounted(k)
      BY <1>0, <1>3, <2>1 DEF TypeOK
    <3> QED BY <1>0, <1>1, <1>7, <3>1, StaysAccounted
  <2>2. CASE k = lastKey + 1
    BY <2>2 DEF Accounted
  <2> QED BY <2>1, <2>2
<1>12. \A u \in closed' : Cleaned(u)'
  BY <1>0 DEF Cleaned, Exists
<1> QED BY <1>5, <1>6, <1>8, <1>9, <1>10, <1>11, <1>12 DEF IInv

LEMMA UploadSteps ==
    ASSUME IInv, NEW w \in Workers, UploadImage(w) \/ UploadPhoto(w) \/ UploadPicture(w)
    PROVE  IInv'
<1>0. TypeOK
  BY DEF IInv
<1>1. /\ job[w].pc = "upload" /\ Upload(w, "insert") /\ job[w] \in Jobs
      /\ UNCHANGED <<club, row, photo, closed, raced>>
  BY <1>0 DEF UploadImage, UploadPhoto, UploadPicture, At, TypeOK
<1>2. ~Fresh(w) /\ ~Closing(w)
  BY <1>1 DEF Fresh, Closing
<1>3. Reply(w) => job'[w] = Idle
  BY <1>0 DEF Reply, TypeOK
<1>4. /\ broken' \in BOOLEAN /\ (broken => broken')
      /\ Reply(w) /\ Updating(w) /\ job[w].old # 0 => broken'
  <2>1. CASE UploadImage(w) \/ UploadPhoto(w)
    BY <1>0, <2>1 DEF UploadImage, UploadPhoto, Updating, TypeOK
  <2>2. CASE UploadPicture(w)
    <3>1. broken' = (broken \/ (job'[w] = Idle /\ job[w].old # 0))
      BY <2>2 DEF UploadPicture
    <3> QED BY <1>0, <1>3, <3>1, Zenon DEF TypeOK
  <2> QED BY <2>1, <2>2
<1>5. job[w].pc # "clear"
  BY <1>1
<1>6. CASE Reply(w) /\ UNCHANGED <<lastKey, stored, owner, loose>>
  BY <1>1, <1>2, <1>4, <1>6, AnswerStep
<1>7. ASSUME lastKey < MaxKeys, lastKey' = lastKey + 1, stored' = stored \cup {lastKey + 1},
             owner' = [owner EXCEPT ![lastKey + 1] = job[w].user]
      PROVE  Reply(w) /\ loose' = loose \cup {lastKey + 1} => IInv'
  BY <1>1, <1>4, <1>7, StrayStep
<1>8. ASSUME lastKey < MaxKeys, lastKey' = lastKey + 1, stored' = stored \cup {lastKey + 1},
             owner' = [owner EXCEPT ![lastKey + 1] = job[w].user],
             job' = [job EXCEPT ![w].pc = "insert", ![w].key = lastKey + 1], loose' = loose
      PROVE  IInv'
  <2>1. job'[w] # Idle
    <3>1. job[w] \in Adding \cup Photographing \cup Picturing
      BY <1>1, JobKinds
    <3>2. job'[w] = [job[w] EXCEPT !.pc = "insert", !.key = lastKey + 1]
      BY <1>0, <1>8 DEF TypeOK
    <3> QED BY <3>1, <3>2 DEF Adding, Photographing, Picturing, Idle
  <2>2. broken' = broken
    <3>1. CASE UploadImage(w) \/ UploadPhoto(w)
      BY <3>1 DEF UploadImage, UploadPhoto
    <3>2. CASE UploadPicture(w)
      <4>1. broken' = (broken \/ (job'[w] = Idle /\ job[w].old # 0))
        BY <3>2 DEF UploadPicture
      <4> QED BY <1>0, <2>1, <4>1, Zenon DEF TypeOK
    <3> QED BY <3>1, <3>2
  <2> QED BY <1>1, <1>8, <2>2, StoredStep DEF past
<1> QED BY <1>1, <1>6, <1>7, <1>8 DEF Upload

-----------------------------------------------------------------------------
(* Steps that put an object in its place, in a row that is new, a photo or *)
(* the picture of the club.                                                *)

Settles(n) ==
    /\ \A r \in Rows : row'[r] = row[r] \/ (row[r] = NoRow /\ row'[r].key \in {0, n})
    /\ \A u \in Users : photo'[u] = photo[u] \/ photo'[u] = n
    /\ club'.picture = club.picture \/ club'.picture = n
    /\ raced \subseteq raced'
    /\ UNCHANGED <<closed, stored, owner, lastKey, broken>>

\* A request that does not move stays sound when it has nothing to do with the
\* object, and a request that closes an account did not miss what is new.
LEMMA SettleJob ==
    ASSUME TypeOK, NEW n, Settles(n), NEW w \in Workers, job'[w] = job[w], JobSound(w),
           n \notin Named(w), Fresh(w) => job[w].key # n,
           Closing(w) /\ job[w].user \notin raced' =>
               /\ photo'[job[w].user] = photo[job[w].user]
               /\ \A r \in Rows :
                    Exists(r)' /\ row'[r] # row[r] /\ row'[r].author = job[w].user
                      => job[w].pc # "close" /\ row'[r].kind # "post"
    PROVE  JobSound(w)'
<1> USE DEF JobSound
<1>0. /\ owner' = owner /\ stored' = stored /\ lastKey' = lastKey
      /\ \A r \in Rows : row'[r] = row[r] => Exists(r)' = Exists(r)
  BY DEF Settles, Exists
<1>1. FreshSound(w)'
  <2> SUFFICES ASSUME Fresh(w)' PROVE FreshSound(w)'
    BY DEF FreshSound
  <2>0. Fresh(w) /\ Named(w)' = Named(w) /\ job[w].key # n /\ job[w].key # 0
    BY Same DEF Fresh
  <2>1. \A u \in Users : photo'[u] # job[w].key
    BY <2>0 DEF FreshSound, Settles
  <2>2. club'.picture # job[w].key
    BY <2>0 DEF FreshSound, Settles
  <2>3. \A r \in Rows : Exists(r)' => row'[r].key # job[w].key
    BY <1>0, <2>0 DEF FreshSound, Settles
  <2> QED BY <1>0, <2>0, <2>1, <2>2, <2>3 DEF FreshSound
<1>2. AddSound(w)'
  BY DEF AddSound
<1>3. RenewSound(w)'
  <2> SUFFICES ASSUME Renewing(w)', job'[w].old # 0 PROVE RenewSound(w)'
    BY DEF RenewSound
  <2>0. Renewing(w)
    BY Same
  <2>1. n # job[w].old
    BY <2>0 DEF Named, Renewing
  <2>2. job[w].user \in Users
    <3>1. job[w] \in Jobs
      BY DEF TypeOK
    <3> QED BY <2>0, <3>1, JobKinds DEF Renewing, Photographing
  <2>3. \A r \in Rows : Exists(r)' => row'[r].key # job[w].old
    BY <1>0, <2>0, <2>1 DEF RenewSound, Settles
  <2>4. club'.picture # job[w].old
    BY <2>0, <2>1 DEF RenewSound, Settles
  <2>5. job[w].pc = "tidy" => photo'[job[w].user] # job[w].old
    BY <2>0, <2>1, <2>2 DEF RenewSound, Settles
  <2>6. job[w].old \in 1..lastKey /\ owner[job[w].old] = job[w].user
    BY <2>0 DEF RenewSound
  <2> QED BY <1>0, <2>3, <2>4, <2>5, <2>6 DEF RenewSound
<1>4. UpdateSound(w)'
  <2> SUFFICES ASSUME Updating(w)', job'[w].old # 0 PROVE UpdateSound(w)'
    BY DEF UpdateSound
  <2>0. Updating(w)
    BY Same
  <2>1. n # job[w].old
    BY <2>0 DEF Named, Updating
  <2>2. \A r \in Rows : Exists(r)' => row'[r].key # job[w].old
    BY <1>0, <2>0, <2>1 DEF UpdateSound, Settles
  <2>3. \A u \in Users : photo'[u] # job[w].old
    BY <2>0, <2>1 DEF UpdateSound, Settles
  <2> QED BY <1>0, <2>0, <2>2, <2>3 DEF UpdateSound
<1>5. DoomedSound(w)'
  <2> SUFFICES ASSUME Closing(w)', NEW r \in Doomed(w)'
               PROVE  /\ row'[r] # NoRow
                      /\ Exists(r)' /\ row'[r].key # 0 =>
                           /\ row'[r].author = job'[w].user
                           /\ \/ row'[r].key \notin stored'
                              \/ job'[w].pc = "wipe" /\ row'[r].key \in job'[w].keys
    BY DEF DoomedSound
  <2>1. Closing(w) /\ r \in Doomed(w)
    BY Same
  <2>2. r \in Rows
    <3>1. job[w] \in Jobs
      BY DEF TypeOK
    <3> QED BY <2>1, <3>1, JobKinds DEF Closing, Doomed, Wiping, Ending
  <2>3. row[r] # NoRow
    BY <2>1 DEF DoomedSound
  <2>4. row'[r] = row[r]
    BY <2>2, <2>3 DEF Settles
  <2> QED BY <1>0, <2>1, <2>2, <2>4 DEF DoomedSound
<1>6. WipeSound(w)'
  <2>1. ASSUME job[w].pc = "wipe", NEW k \in job[w].keys
        PROVE  /\ k \in 1..lastKey
               /\ owner[k] = job[w].user
               /\ club'.picture # k
               /\ \A r \in Rows : Exists(r)' /\ row'[r].key = k => r \in job[w].posts
               /\ job[w].photo = 0 => \A u \in Users : photo'[u] # k
    <3>1. k # n /\ k # 0
      <4>1. job[w] \in Jobs
        BY DEF TypeOK
      <4>2. job[w] \in Wiping
        BY <2>1, <4>1, JobKinds
      <4> QED BY <2>1, <4>2 DEF Named, Wiping
    <3>2. /\ k \in 1..lastKey
          /\ owner[k] = job[w].user
          /\ club.picture # k
          /\ \A r \in Rows : Exists(r) /\ row[r].key = k => r \in job[w].posts
          /\ job[w].photo = 0 => \A u \in Users : photo[u] # k
      BY <2>1 DEF WipeSound
    <3>3. job[w].photo = 0 => \A u \in Users : photo'[u] # k
      BY <3>1, <3>2 DEF Settles
    <3> QED BY <1>0, <3>1, <3>2, <3>3 DEF Settles
  <2> QED BY <1>0, <2>1 DEF WipeSound
<1>7. CloseComplete(w)'
  <2> SUFFICES ASSUME Closing(w)', job'[w].user \notin raced' PROVE CloseComplete(w)'
    BY DEF CloseComplete
  <2>0. Closing(w) /\ job[w].user \notin raced /\ Doomed(w)' = Doomed(w)
    BY Same DEF Settles
  <2>1. photo'[job[w].user] # 0 =>
          \/ photo'[job[w].user] \notin stored
          \/ job[w].pc = "wipe" /\ photo'[job[w].user] \in job[w].keys
    BY <2>0 DEF CloseComplete
  <2>3. job[w].photo = 0 => photo'[job[w].user] = 0
    BY <2>0 DEF CloseComplete
  <2>2. ASSUME NEW r \in Rows, Exists(r)', row'[r].author = job[w].user,
               job[w].pc = "close" \/ row'[r].kind = "post"
        PROVE  r \in Doomed(w)
    <3>1. row'[r] = row[r]
      BY <2>0, <2>2
    <3> QED BY <1>0, <2>0, <2>2, <3>1 DEF CloseComplete
  <2> QED BY <1>0, <2>0, <2>1, <2>2, <2>3 DEF CloseComplete
<1> QED BY <1>1, <1>2, <1>3, <1>4, <1>5, <1>6, <1>7

\* The parts of IInv that such a step leaves to show.
LEMMA SettleStep ==
    ASSUME IInv, NEW w \in Workers, NEW j \in Jobs, NEW n, Moves(w, j), Settles(n), TypeOK',
           n = 0 \/ (Fresh(w) /\ job[w].key = n),
           \A v \in Workers \ {w} : Closing(v) /\ job[v].user \notin raced' =>
               /\ photo'[job[v].user] = photo[job[v].user]
               /\ \A r \in Rows :
                    Exists(r)' /\ row'[r] # row[r] /\ row'[r].author = job[v].user
                      => job[v].pc # "close" /\ row'[r].kind # "post",
           JobSound(w)', ~Fresh(w)', Named(w)' \subseteq Named(w),
           Placed', Covered',
           \A k \in stored : Accounted(k) => Accounted(k)',
           \A u \in closed : Cleaned(u) => Cleaned(u)'
    PROVE  IInv'
<1>0. /\ TypeOK /\ AllApart
      /\ \A v \in Workers : JobSound(v)
      /\ \A k \in stored : Accounted(k)
      /\ \A u \in closed : Cleaned(u)
  BY DEF IInv
<1>1. job'[w] = j /\ \A x \in Workers \ {w} : job'[x] = job[x]
  BY <1>0, Others DEF TypeOK
<1>2. ASSUME NEW v \in Workers \ {w} PROVE n \notin Named(v) /\ (Fresh(v) => job[v].key # n)
  <2>1. CASE n = 0
    <3>1. job[v] \in Jobs
      BY <1>0 DEF TypeOK
    <3>2. job[v].pc \in {"wipe", "own"} => 0 \notin job[v].keys
      BY <3>1, JobKinds DEF Wiping
    <3> QED BY <2>1, <3>2 DEF Named, Fresh
  <2>2. CASE Fresh(w) /\ job[w].key = n
    <3>1. Apart(w, v) /\ Apart(v, w)
      BY <1>0 DEF AllApart
    <3> QED BY <2>2, <3>1 DEF Apart
  <2> QED BY <2>1, <2>2
<1>3. \A v \in Workers : JobSound(v)'
  <2>1. ASSUME NEW v \in Workers \ {w} PROVE JobSound(v)'
    BY <1>0, <1>1, <1>2, SettleJob
  <2> QED BY <2>1
<1>4. AllApart'
  <2>1. ASSUME NEW v \in Workers \ {w}, Fresh(v) PROVE job[v].key \notin Named(w)'
    BY <1>0, <2>1 DEF AllApart, Apart
  <2> QED BY <1>0, <2>1, ApartShrinks
<1> QED BY <1>0, <1>3, <1>4 DEF IInv, Settles

\* A request that writes while its account is being closed is known to race.
LEMMA Racing ==
    ASSUME TypeOK, NEW u \in Users, NEW kind \in Kinds \cup {"photo"}, RacedBy(u, kind)
    PROVE  /\ raced \subseteq raced' /\ raced' \subseteq Users
           /\ u \in closed => u \in raced'
           /\ \A v \in Workers :
                Closing(v) /\ job[v].user = u /\ (job[v].pc = "close" \/ kind \in {"post", "photo"})
                  => u \in raced'
BY DEF TypeOK, RacedBy, BeingClosed, ReadAt, Closing

\* create_club_post and its kin: the row and the object it names.
LEMMA InsertedStep ==
    ASSUME IInv, NEW w \in Workers, job[w].pc = "insert", job[w].op = "add",
           NEW r0 \in Rows, row[r0] = NoRow, Reply(w),
           row' = [row EXCEPT ![r0] = [kind |-> job[w].kind, author |-> job[w].user,
                                       post |-> job[w].post, key |-> job[w].key]],
           RacedBy(job[w].user, job[w].kind),
           UNCHANGED <<loose, club, photo, closed, stored, owner, lastKey, broken>>
    PROVE  IInv'
<1>0. /\ TypeOK /\ Placed /\ Covered
      /\ JobSound(w)
  BY DEF IInv
<1>1. job[w] \in Adding
  BY <1>0, JobKinds DEF TypeOK
<1>2. PICK n, u, kind, post :
        n = job[w].key /\ u = job[w].user /\ kind = job[w].kind /\ post = job[w].post
  OBVIOUS
<1>3. /\ n \in Kept /\ u \in Users /\ kind \in Kinds /\ post \in Rows \cup {Nobody}
      /\ row' = [row EXCEPT ![r0] = [kind |-> kind, author |-> u, post |-> post, key |-> n]]
  BY <1>1, <1>2 DEF Adding
<1>4. row'[r0] = [kind |-> kind, author |-> u, post |-> post, key |-> n]
  BY <1>0, <1>3 DEF TypeOK
<1>5. /\ row'[r0].kind = kind /\ row'[r0].author = u /\ row'[r0].post = post /\ row'[r0].key = n
      /\ \A r \in Rows \ {r0} : row'[r] = row[r] /\ (Exists(r)' <=> Exists(r))
      /\ ~Exists(r0)
  BY <1>0, <1>3, <1>4 DEF TypeOK, Exists
<1>6. Exists(r0)'
  <2>1. kind # "no_row" /\ kind # "gone"
    BY <1>3, ContentAssumption
  <2> QED BY <1>5, <2>1 DEF Exists, NoRow, Gone
<1>7. Moves(w, Idle) /\ Idle \in Jobs
  BY JobsAre DEF Reply, Moves
<1>8. job'[w] = Idle
  BY <1>0, <1>7, Others DEF TypeOK
<1>9. JobSound(w)' /\ ~Fresh(w)' /\ Named(w)' = {}
  BY <1>8 DEF Idle, JobSound, FreshSound, AddSound, RenewSound, UpdateSound, DoomedSound,
       WipeSound, CloseComplete, Fresh, Closing, Updating, Renewing, Named
<1>10. ~Closing(w) /\ ~Updating(w) /\ (n # 0 => Fresh(w))
  BY <1>1, <1>2 DEF Closing, Updating, Fresh, Adding
<1>11. /\ raced \subseteq raced' /\ raced' \subseteq Users
       /\ u \in closed => u \in raced'
       /\ \A v \in Workers :
            Closing(v) /\ job[v].user = u /\ (job[v].pc = "close" \/ kind = "post") => u \in raced'
  BY <1>0, <1>2, <1>3, Racing
<1>12. Settles(n)
  BY <1>5, <1>11 DEF Settles
<1>13. TypeOK'
  <2>1. job' \in [Workers -> Jobs]
    BY <1>0, <1>7 DEF TypeOK, Moves
  <2>2. row' \in [Rows -> {NoRow, Gone} \cup Contents]
    BY <1>0, <1>3 DEF TypeOK, Contents
  <2> QED BY <1>0, <1>11, <2>1, <2>2 DEF TypeOK, Contents
<1>14. n # 0 =>
         /\ n \in 1..lastKey /\ n \in stored /\ owner[n] = u /\ n # club.picture
         /\ \A v \in Users : n # photo[v]
  BY <1>0, <1>2, <1>10 DEF JobSound, FreshSound, TypeOK
<1>15. Placed'
  <2>1. ASSUME NEW r \in Rows \ {r0} PROVE RowSound(r)'
    BY <1>0, <1>5 DEF Placed, RowSound
  <2>2. RowSound(r0)'
    <3>1. (kind # "post" => n = 0) /\ (kind \in {"post", "event"} => post = Nobody)
      BY <1>0, <1>2 DEF JobSound, AddSound
    <3> QED BY <1>5, <1>14, <3>1 DEF RowSound
  <2>3. (\A v \in Users : PhotoSound(v)') /\ PictureSound'
    BY <1>0 DEF Placed, PhotoSound, PictureSound
  <2> QED BY <2>1, <2>2, <2>3 DEF Placed
<1>16. Covered'
  <2>1. \A k \in stored : k \in stored' \/ k = 0
    OBVIOUS
  <2>2. \A r \in Rows \ {r0} : row[r].key # 0 => RowCovered(r)'
    BY <1>0, <1>5, <1>7, <1>10, <2>1, StaysCovered
  <2>3. \A r \in Rows \ {r0} : RowCovered(r)'
    BY <1>5, <2>2 DEF RowCovered
  <2>4. RowCovered(r0)'
    BY <1>5, <1>14 DEF RowCovered
  <2>5. \A v \in Users : photo[v] # 0 => PhotoCovered(v)'
    BY <1>0, <1>7, <1>10, <2>1, StaysCovered
  <2>6. \A v \in Users : PhotoCovered(v)'
    BY <2>5 DEF PhotoCovered
  <2>7. club.picture # 0 => PictureCovered'
    BY <1>0, <1>7, <1>10, <2>1, StaysCovered
  <2>8. PictureCovered'
    BY <2>7 DEF PictureCovered
  <2> QED BY <2>3, <2>4, <2>6, <2>8 DEF Covered
<1>17. ASSUME NEW k \in stored, Accounted(k) PROVE Accounted(k)'
  <2>1. Fresh(w) /\ job[w].key = k => Accounted(k)'
    BY <1>2, <1>5, <1>6 DEF Accounted
  <2>2. \A r \in Rows : Exists(r) /\ row[r].key = k => row'[r] = row[r]
    BY <1>5
  <2> QED BY <1>0, <1>7, <1>11, <1>17, <2>1, <2>2, StaysAccounted
<1>18. ASSUME NEW v \in closed, Cleaned(v) PROVE Cleaned(v)'
  BY <1>5, <1>11, <1>18 DEF Cleaned
<1>19. \A v \in Workers \ {w} : Closing(v) /\ job[v].user \notin raced' =>
         \A r \in Rows :
           Exists(r)' /\ row'[r] # row[r] /\ row'[r].author = job[v].user
             => job[v].pc # "close" /\ row'[r].kind # "post"
  BY <1>5, <1>11
<1>20. n = 0 \/ (Fresh(w) /\ job[w].key = n)
  BY <1>2, <1>10
<1> QED BY <1>7, <1>9, <1>12, <1>13, <1>15, <1>16, <1>17, <1>18, <1>19, <1>20, SettleStep

LEMMA InsertStep ==
    ASSUME IInv, NEW w \in Workers, Insert(w)
    PROVE  IInv'
<1>0. TypeOK /\ Covered
  BY DEF IInv
<1>1. job[w].pc = "insert" /\ job[w].op = "add" /\ job[w] \in Adding
  BY <1>0, JobKinds DEF TypeOK, Insert, At
<1>2. CASE \E r \in Rows :
             /\ row[r] = NoRow
             /\ row' = [row EXCEPT ![r] = [kind |-> job[w].kind, author |-> job[w].user,
                                           post |-> job[w].post, key |-> job[w].key]]
             /\ RacedBy(job[w].user, job[w].kind) /\ UNCHANGED loose
  BY <1>1, <1>2, InsertedStep DEF Insert
<1>3. CASE loose' = loose \cup ({job[w].key} \ {0}) /\ UNCHANGED <<row, raced>>
  <2>1. /\ Moves(w, Idle) /\ Idle \in Jobs
        /\ UNCHANGED <<club, photo, closed, stored, owner, lastKey, broken>>
    BY JobsAre DEF Insert, Reply, Moves
  <2>2. job'[w] = Idle
    BY <1>0, <2>1, Others DEF TypeOK
  <2>3. JobSound(w)' /\ ~Fresh(w)' /\ Named(w)' = {}
    BY <2>2 DEF Idle, JobSound, FreshSound, AddSound, RenewSound, UpdateSound, DoomedSound,
         WipeSound, CloseComplete, Fresh, Closing, Updating, Renewing, Named
  <2>4. ~Closing(w) /\ ~Updating(w)
    BY <1>1 DEF Closing, Updating
  <2>5. Shrinks
    BY <1>3, <2>1 DEF Shrinks
  <2>6. TypeOK'
    <3>1. job[w].key # 0 => job[w].key \in 1..lastKey
      BY <1>0, <1>1 DEF IInv, JobSound, FreshSound, Fresh, TypeOK
    <3>2. job' \in [Workers -> Jobs]
      BY <1>0, <2>1 DEF TypeOK, Moves
    <3> QED BY <1>0, <1>3, <2>1, <3>1, <3>2 DEF TypeOK
  <2>7. Covered'
    <3>1. \A k \in stored : k \in stored' \/ k = 0
      BY <2>1
    <3>2. \A r \in Rows : row[r].key # 0 => RowCovered(r)'
      BY <1>0, <1>3, <2>1, <2>4, <3>1, StaysCovered
    <3>3. \A u \in Users : photo[u] # 0 => PhotoCovered(u)'
      BY <1>0, <1>3, <2>1, <2>4, <3>1, StaysCovered
    <3>4. club.picture # 0 => PictureCovered'
      BY <1>0, <1>3, <2>1, <2>4, <3>1, StaysCovered
    <3>5. \A r \in Rows : RowCovered(r)'
      BY <1>3, <3>2 DEF RowCovered
    <3>6. \A u \in Users : PhotoCovered(u)'
      BY <2>1, <3>3 DEF PhotoCovered
    <3>7. PictureCovered'
      BY <2>1, <3>4 DEF PictureCovered
    <3> QED BY <3>5, <3>6, <3>7 DEF Covered
  <2>8. ASSUME NEW k \in stored', Accounted(k) PROVE Accounted(k)'
    <3>1. k # 0
      BY <1>0, <2>1 DEF TypeOK
    <3>2. Fresh(w) /\ job[w].key = k => Accounted(k)'
      BY <1>3, <3>1 DEF Accounted
    <3> QED BY <1>0, <1>3, <2>1, <2>8, <3>2, StaysAccounted
  <2>9. club.status = "deleted" => club.picture = 0
    BY DEF IInv, Placed, PictureSound
  <2>10. \A v \in Workers : Fresh(v) => job[v].key \in stored
    BY DEF IInv, JobSound, FreshSound
  <2> QED BY <1>3, <2>1, <2>3, <2>5, <2>6, <2>7, <2>8, <2>9, <2>10, ShrinkStep
<1> QED BY <1>2, <1>3 DEF Insert

\* update_my_profile: the new photo is committed before the old one goes.
LEMMA CommitPhotoStep ==
    ASSUME IInv, NEW w \in Workers, CommitPhoto(w)
    PROVE  IInv'
<1>0. /\ TypeOK /\ Placed /\ Covered
      /\ JobSound(w)
  BY DEF IInv
<1>1. job[w] \in Photographing /\ job[w].pc = "insert" /\ job[w].op = "photo"
  BY <1>0, JobKinds DEF TypeOK, CommitPhoto, At
<1>2. PICK n, u, j :
        /\ n = job[w].key /\ u = job[w].user
        /\ j = IF job[w].old = 0 THEN Idle ELSE [job[w] EXCEPT !.pc = "tidy"]
        /\ Moves(w, j)
        /\ photo' = [photo EXCEPT ![u] = n] /\ RacedBy(u, "photo")
        /\ loose' = loose \cup ({photo[u]} \ {0})
        /\ UNCHANGED <<club, row, closed, stored, owner, lastKey, broken>>
  BY DEF CommitPhoto, Reply, Moves
<1>3. n \in Kept /\ u \in Users /\ Fresh(w) /\ n # 0
  <2>1. AddSound(w)
    BY <1>0 DEF JobSound
  <2> QED BY <1>1, <1>2, <2>1 DEF Photographing, Fresh, AddSound
<1>4. /\ j \in Jobs /\ j.pc \in {"idle", "tidy"}
      /\ j.pc = "tidy" => j.op = "photo" /\ j.user = u /\ j.old = job[w].old /\ j.old # 0
  <2>1. CASE job[w].old = 0
    BY <1>2, <2>1, JobsAre DEF Idle
  <2>2. CASE job[w].old # 0
    <3>1. j \in Photographing /\ j.pc = "tidy" /\ j.user = u /\ j.old = job[w].old /\ j.op = "photo"
      BY <1>1, <1>2, <2>2 DEF Photographing
    <3> QED BY <2>2, <3>1, JobsAre
  <2> QED BY <2>1, <2>2
<1>5. job'[w] = j
  BY <1>0, <1>2, Others DEF TypeOK
<1>6. /\ n \in stored /\ n \in 1..lastKey /\ owner[n] = u /\ n # club.picture
      /\ \A r \in Rows : Exists(r) => row[r].key # n
      /\ n \notin Named(w)
  BY <1>0, <1>2, <1>3 DEF JobSound, FreshSound, TypeOK
<1>7. /\ \A v \in Users : photo'[v] = IF v = u THEN n ELSE photo[v]
      /\ \A r \in Rows : Exists(r)' <=> Exists(r)
  BY <1>0, <1>2 DEF TypeOK, Exists
<1>8. /\ raced \subseteq raced' /\ raced' \subseteq Users
      /\ u \in closed => u \in raced'
      /\ \A v \in Workers : Closing(v) /\ job[v].user = u => u \in raced'
  BY <1>0, <1>2, <1>3, Racing
<1>9. Settles(n)
  BY <1>2, <1>7, <1>8 DEF Settles
<1>10. TypeOK'
  <2>1. job' \in [Workers -> Jobs]
    BY <1>0, <1>2, <1>4 DEF TypeOK, Moves
  <2>2. photo' \in [Users -> Kept]
    BY <1>0, <1>2, <1>3 DEF TypeOK
  <2>3. loose' \subseteq 1..lastKey
    BY <1>0, <1>2, <1>3 DEF TypeOK, Placed, PhotoSound
  <2> QED BY <1>0, <1>2, <1>8, <2>1, <2>2, <2>3 DEF TypeOK
<1>11. Renewing(w) /\ Named(w) = {job[w].old} \ {0} /\ ~Closing(w) /\ ~Updating(w)
  BY <1>1 DEF Renewing, Named, Closing, Updating
<1>12. /\ ~Fresh(w)' /\ ~Closing(w)' /\ ~Updating(w)'
       /\ Named(w)' \subseteq Named(w)
       /\ j.pc = "idle" => ~Renewing(w)'
  BY <1>4, <1>5, <1>11 DEF Fresh, Closing, Updating, Renewing, Named
<1>13. JobSound(w)'
  <2>1. RenewSound(w)'
    <3> SUFFICES ASSUME j.pc = "tidy" PROVE RenewSound(w)'
      BY <1>4, <1>5, <1>12 DEF RenewSound
    <3>1. RenewSound(w)
      BY <1>0 DEF JobSound
    <3>2. /\ job[w].old \in 1..lastKey /\ owner[job[w].old] = u
          /\ club.picture # job[w].old
          /\ \A r \in Rows : Exists(r) => row[r].key # job[w].old
      BY <1>2, <1>4, <1>11, <3>1 DEF RenewSound
    <3>3. photo'[u] # job[w].old
      BY <1>3, <1>4, <1>6, <1>7, <1>11
    <3> QED BY <1>2, <1>4, <1>5, <1>7, <3>2, <3>3 DEF RenewSound
  <2> QED BY <1>4, <1>5, <1>12, <2>1
          DEF JobSound, FreshSound, AddSound, UpdateSound, DoomedSound, WipeSound, CloseComplete
<1>14. Placed'
  <2>1. ASSUME NEW r \in Rows PROVE RowSound(r)'
    BY <1>0, <1>2, <1>6, <1>7 DEF Placed, RowSound
  <2>2. ASSUME NEW v \in Users PROVE PhotoSound(v)'
    BY <1>0, <1>2, <1>6, <1>7 DEF Placed, PhotoSound
  <2>3. PictureSound'
    BY <1>0, <1>2 DEF Placed, PictureSound
  <2> QED BY <2>1, <2>2, <2>3 DEF Placed
<1>15. Covered'
  <2>1. \A k \in stored : k \in stored' \/ k = 0
    BY <1>2
  <2>2. \A r \in Rows : row[r].key # 0 => RowCovered(r)'
    BY <1>0, <1>2, <1>11, <2>1, StaysCovered
  <2>3. \A r \in Rows : RowCovered(r)'
    BY <1>2, <2>2 DEF RowCovered
  <2>4. \A v \in Users \ {u} : photo[v] # 0 => PhotoCovered(v)'
    BY <1>0, <1>2, <1>7, <1>11, <2>1, StaysCovered
  <2>5. \A v \in Users : PhotoCovered(v)'
    BY <1>2, <1>6, <1>7, <2>4 DEF PhotoCovered
  <2>6. club.picture # 0 => PictureCovered'
    BY <1>0, <1>2, <1>11, <2>1, StaysCovered
  <2>7. PictureCovered'
    BY <1>2, <2>6 DEF PictureCovered
  <2> QED BY <2>3, <2>5, <2>7 DEF Covered
<1>16. ASSUME NEW k \in stored, Accounted(k) PROVE Accounted(k)'
  <2>1. k # 0
    BY <1>0 DEF TypeOK
  <2>2. Fresh(w) /\ job[w].key = k => Accounted(k)'
    BY <1>2, <1>3, <1>6, <1>7 DEF Accounted
  <2>3. photo[owner[k]] = k => photo'[owner[k]] = k \/ k \in loose'
    <3>1. CASE owner[k] = u
      BY <1>2, <2>1, <3>1
    <3>2. CASE owner[k] # u
      BY <1>0, <1>2, <3>2 DEF TypeOK
    <3> QED BY <3>1, <3>2
  <2> QED BY <1>0, <1>2, <1>8, <1>16, <2>2, <2>3, StaysAccounted
<1>17. ASSUME NEW v \in closed, Cleaned(v) PROVE Cleaned(v)'
  <2>1. v \in Users
    BY <1>0 DEF TypeOK
  <2> QED BY <1>2, <1>7, <1>8, <1>17, <2>1 DEF Cleaned
<1>18. \A v \in Workers \ {w} : Closing(v) /\ job[v].user \notin raced' =>
         /\ photo'[job[v].user] = photo[job[v].user]
         /\ \A r \in Rows : row'[r] = row[r]
  BY <1>0, <1>2, <1>8 DEF TypeOK
<1>19. n = 0 \/ (Fresh(w) /\ job[w].key = n)
  BY <1>2, <1>3
<1> QED BY <1>2, <1>4, <1>9, <1>10, <1>12, <1>13, <1>14, <1>15, <1>16, <1>17, <1>18, <1>19, SettleStep

\* update_club: the new picture, if the club is still there.
LEMMA CommitPictureStep ==
    ASSUME IInv, NEW w \in Workers, CommitPicture(w)
    PROVE  IInv'
<1>0. /\ TypeOK /\ Placed /\ Covered
      /\ JobSound(w)
  BY DEF IInv
<1>1. job[w] \in Picturing /\ job[w].pc = "insert" /\ job[w].op = "picture"
  BY <1>0, JobKinds DEF TypeOK, CommitPicture, At
<1>2. PICK n : n = job[w].key
  OBVIOUS
<1>3. n \in Kept /\ Fresh(w) /\ n # 0
  <2>1. AddSound(w)
    BY <1>0 DEF JobSound
  <2> QED BY <1>1, <1>2, <2>1 DEF Picturing, Fresh, AddSound
<1>4. /\ Moves(w, Idle) /\ Idle \in Jobs
      /\ UNCHANGED <<row, photo, closed, stored, owner, lastKey, raced, broken>>
  BY JobsAre DEF CommitPicture, Reply, Moves
<1>5. job'[w] = Idle
  BY <1>0, <1>4, Others DEF TypeOK
<1>6. JobSound(w)' /\ ~Fresh(w)' /\ Named(w)' = {}
  BY <1>5 DEF Idle, JobSound, FreshSound, AddSound, RenewSound, UpdateSound, DoomedSound,
       WipeSound, CloseComplete, Fresh, Closing, Updating, Renewing, Named
<1>7. /\ n \in stored /\ n \in 1..lastKey
      /\ \A u \in Users : photo[u] # n
      /\ \A r \in Rows : Exists(r) => row[r].key # n
  BY <1>0, <1>2, <1>3 DEF JobSound, FreshSound, TypeOK
<1>8. ~Closing(w)
  BY <1>1 DEF Closing
<1>9. \A r \in Rows : Exists(r)' <=> Exists(r)
  BY <1>4 DEF Exists
<1>10. job' \in [Workers -> Jobs]
  BY <1>0, <1>4 DEF TypeOK, Moves
<1>11. /\ \A r \in Rows : RowCovered(r)'
       /\ \A u \in Users : PhotoCovered(u)'
  <2>1. \A k \in stored : k \in stored' \/ k = 0
    BY <1>4
  <2>2. \A r \in Rows : row[r].key # 0 => RowCovered(r)'
    BY <1>0, <1>4, <1>8, <2>1, StaysCovered
  <2>3. \A u \in Users : photo[u] # 0 => PhotoCovered(u)'
    BY <1>0, <1>4, <1>8, <2>1, StaysCovered
  <2>4. \A r \in Rows : RowCovered(r)'
    BY <1>4, <2>2 DEF RowCovered
  <2>5. \A u \in Users : PhotoCovered(u)'
    BY <1>4, <2>3 DEF PhotoCovered
  <2> QED BY <2>4, <2>5
<1>12. CASE club.status = "deleted"
  <2>1. loose' = loose \cup {n} /\ club' = club
    BY <1>2, <1>12 DEF CommitPicture
  <2>2. club.picture = 0
    BY <1>0, <1>12 DEF Placed, PictureSound
  <2>3. Shrinks
    BY <1>4, <2>1 DEF Shrinks
  <2>4. TypeOK'
    BY <1>0, <1>4, <1>7, <1>10, <2>1 DEF TypeOK
  <2>5. Covered'
    BY <1>11, <2>1, <2>2 DEF Covered, PictureCovered
  <2>6. ASSUME NEW k \in stored', Accounted(k) PROVE Accounted(k)'
    <3>1. Fresh(w) /\ job[w].key = k => Accounted(k)'
      BY <1>2, <2>1 DEF Accounted
    <3> QED BY <1>0, <1>4, <2>1, <2>6, <3>1, StaysAccounted
  <2>7. \A v \in Workers : Fresh(v) => job[v].key \in stored
    BY DEF IInv, JobSound, FreshSound
  <2> QED BY <1>4, <1>6, <2>1, <2>2, <2>3, <2>4, <2>5, <2>6, <2>7, ShrinkStep
<1>13. CASE club.status # "deleted"
  <2>1. /\ club' = [club EXCEPT !.picture = n]
        /\ loose' = loose \cup ({club.picture} \ {0})
    BY <1>2, <1>13 DEF CommitPicture
  <2>2. /\ club' \in [status : {"live", "archived", "deleted"}, leader : Users, picture : Kept]
        /\ club'.picture = n /\ club'.status = club.status
    BY <1>0, <1>3, <2>1 DEF TypeOK
  <2>3. Settles(n)
    BY <1>4, <2>2 DEF Settles
  <2>4. club.picture # 0 => club.picture \in 1..lastKey
    BY <1>0 DEF Placed, PictureSound
  <2>5. TypeOK'
    BY <1>0, <1>4, <1>10, <2>1, <2>2, <2>4 DEF TypeOK
  <2>6. Placed'
    <3>1. ASSUME NEW r \in Rows PROVE RowSound(r)'
      BY <1>0, <1>4, <1>7, <1>9, <2>2 DEF Placed, RowSound
    <3>2. ASSUME NEW u \in Users PROVE PhotoSound(u)'
      BY <1>0, <1>4, <1>7, <2>2 DEF Placed, PhotoSound
    <3>3. PictureSound'
      BY <1>4, <1>7, <1>13, <2>2 DEF PictureSound
    <3> QED BY <3>1, <3>2, <3>3 DEF Placed
  <2>7. Covered'
    <3>1. PictureCovered'
      BY <1>4, <1>7, <2>2 DEF PictureCovered
    <3> QED BY <1>11, <3>1 DEF Covered
  <2>8. ASSUME NEW k \in stored, Accounted(k) PROVE Accounted(k)'
    <3>1. k # 0
      BY <1>0 DEF TypeOK
    <3>2. Fresh(w) /\ job[w].key = k => Accounted(k)'
      BY <1>2, <2>2 DEF Accounted
    <3> QED BY <1>0, <1>4, <2>1, <2>8, <3>1, <3>2, StaysAccounted
  <2>9. \A u \in closed : Cleaned(u) => Cleaned(u)'
    BY <1>4, <1>9 DEF Cleaned
  <2> QED BY <1>2, <1>3, <1>4, <1>6, <2>3, <2>5, <2>6, <2>7, <2>8, <2>9, SettleStep
<1> QED BY <1>12, <1>13

-----------------------------------------------------------------------------
(* The theorems.                                                           *)

LEMMA StepInv == IInv /\ [Next]_vars => IInv'
<1> SUFFICES ASSUME IInv, [Next]_vars PROVE IInv'
  OBVIOUS
<1>1. ASSUME NEW w \in Workers,
             \/ AddPost(w) \/ AddComment(w) \/ AddLike(w) \/ AddEvent(w)
             \/ UploadImage(w) \/ Insert(w)
             \/ DeletePost(w) \/ DeleteComment(w) \/ Unlike(w) \/ DeleteEvent(w) \/ DropRow(w)
      PROVE  IInv'
  BY <1>1, AddSteps, UploadSteps, InsertStep, DeleteSteps, DropRowStep
<1>2. ASSUME NEW w \in Workers,
             \/ LoadProfile(w) \/ UploadPhoto(w) \/ CommitPhoto(w) \/ DropOldPhoto(w)
             \/ LoadClub(w) \/ ClearPicture(w) \/ UploadPicture(w) \/ CommitPicture(w)
             \/ DropClub(w)
      PROVE  IInv'
  BY <1>2, LoadProfileStep, UploadSteps, CommitPhotoStep, DropOldPhotoStep, LoadClubStep,
     ClearPictureStep, CommitPictureStep, DropClubStep
<1>3. ASSUME NEW w \in Workers, LoadOwn(w) \/ WipeObject(w) \/ DeleteOwn(w) \/ CommitClose(w)
      PROVE  IInv'
  BY <1>3, LoadOwnStep, WipeObjectStep, DeleteOwnStep, CommitCloseStep
<1>4. CASE UNCHANGED vars
  <2>1. \A w \in Workers :
          /\ Fresh(w)' = Fresh(w) /\ Closing(w)' = Closing(w)
          /\ Renewing(w)' = Renewing(w) /\ Updating(w)' = Updating(w)
          /\ Doomed(w)' = Doomed(w) /\ Named(w)' = Named(w)
    BY <1>4, Same DEF vars
  <2>2. Shrinks
    BY <1>4 DEF vars, past, Shrinks
  <2>3. Placed'
    BY <2>2, ShrinkPlaces, <1>4 DEF vars, IInv, Placed, PictureSound
  <2>4. \A w \in Workers : JobSound(w)'
    BY <1>4, <2>2, ShrinkJob DEF vars, IInv, JobSound, FreshSound
  <2>5. AllApart'
    BY <1>4, <2>1 DEF vars, IInv, AllApart, Apart
  <2>6. Covered'
    BY <1>4, <2>1 DEF vars, past, IInv, Covered, RowCovered, PhotoCovered, PictureCovered, Exists
  <2>7. \A k \in stored' : Accounted(k)'
    BY <1>4, <2>1 DEF vars, past, IInv, Accounted, Exists
  <2>8. \A u \in closed' : Cleaned(u)'
    BY <1>4 DEF vars, past, IInv, Cleaned, Exists
  <2>9. TypeOK'
    BY <1>4 DEF vars, past, IInv, TypeOK
  <2> QED BY <2>3, <2>4, <2>5, <2>6, <2>7, <2>8, <2>9 DEF IInv
<1> QED BY <1>1, <1>2, <1>3, <1>4 DEF Next

\* The invariant holds in every state.
THEOREM Invariance == Spec => []IInv
BY InitInv, StepInv, PTL DEF Spec

\* Type correctness: every row, every object's owner and every request is of
\* its kind, and no key is stored or loose that was never handed out.
THEOREM TypeCorrect == Spec => []TypeOK
<1>1. IInv => TypeOK
  BY DEF IInv
<1> QED BY <1>1, Invariance, PTL

\* delete_my_account: a closed account leaves nothing unless it wrote while it
\* was being closed.
THEOREM ClosingLeavesNothing == Spec => []OnlyRacesLeave
<1>1. IInv => OnlyRacesLeave
  <2> SUFFICES ASSUME IInv, NEW u \in closed, u \notin raced
               PROVE  /\ photo[u] = 0
                      /\ \A r \in Rows : Exists(r) => row[r].author # u
                      /\ \A k \in stored : owner[k] = u =>
                           \/ k \in loose \/ club.picture = k
                           \/ \E w \in Workers : job[w].pc = "insert" /\ job[w].key = k
    BY DEF OnlyRacesLeave
  <2>1. photo[u] = 0 /\ \A r \in Rows : Exists(r) => row[r].author # u
    BY DEF IInv, Cleaned
  <2>2. ASSUME NEW k \in stored, owner[k] = u
        PROVE  \/ k \in loose \/ club.picture = k
               \/ \E w \in Workers : job[w].pc = "insert" /\ job[w].key = k
    <3>1. k # 0 /\ Accounted(k)
      BY DEF IInv, TypeOK
    <3>2. \A r \in Rows : Exists(r) => row[r].key # k
      BY <2>1, <2>2, <3>1 DEF IInv, Placed, RowSound
    <3> QED BY <2>1, <2>2, <3>1, <3>2 DEF Accounted, Fresh
  <2> QED BY <2>1, <2>2
<1> QED BY <1>1, Invariance, PTL

\* update_my_profile, update_club and the posts: a key in a row names an object
\* unless it is being removed or a removal broke off.
THEOREM NoDanglingKeys == Spec => []KeysNameObjects
<1>1. IInv => KeysNameObjects
  <2> SUFFICES ASSUME IInv, ~broken,
                      NEW k \in (KeysOf(Rows) \cup {photo[u] : u \in Users} \cup {club.picture}) \ {0},
                      k \notin stored
               PROVE  BeingWiped(k)
    BY DEF KeysNameObjects
  <2>1. ASSUME NEW r \in Rows, Exists(r), k = row[r].key PROVE BeingWiped(k)
    <3>1. PICK w \in Workers : Closing(w) /\ r \in Doomed(w)
      BY <2>1 DEF IInv, Covered, RowCovered
    <3>2. row[r].author = job[w].user
      BY <2>1, <3>1 DEF IInv, JobSound, DoomedSound
    <3>3. owner[k] = row[r].author
      BY <2>1 DEF IInv, Placed, RowSound
    <3> QED BY <3>1, <3>2, <3>3 DEF BeingWiped, Closing
  <2>2. ASSUME NEW u \in Users, k = photo[u] PROVE BeingWiped(k)
    <3>1. PICK w \in Workers : Closing(w) /\ job[w].user = u
      BY <2>2 DEF IInv, Covered, PhotoCovered
    <3>2. owner[k] = u
      BY <2>2 DEF IInv, Placed, PhotoSound
    <3> QED BY <3>1, <3>2 DEF BeingWiped, Closing
  <2>3. CASE k = club.picture
    <3>1. PICK w \in Workers :
            Updating(w) /\ job[w].pc # "clear" /\ job[w].old = club.picture
      BY <2>3 DEF IInv, Covered, PictureCovered
    <3> QED BY <2>3, <3>1 DEF BeingWiped, Updating
  <2> QED BY <2>1, <2>2, <2>3 DEF KeysOf
<1> QED BY <1>1, Invariance, PTL
=============================================================================
