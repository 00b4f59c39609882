# Formal models of the Agora backend

TLA+ specifications of the backend in `src/` (FastAPI, PostgreSQL through
SQLAlchemy, Redis, an S3-like object store), the TLC configurations that check
them on small instances, and TLAPS proofs for every size.

The server is one uvicorn process (`src/Dockerfile`). `def` endpoints run in a
thread pool and interleave anywhere; `async def` endpoints share one event loop
and interleave only where they `await`. Every request has its own database
session (`src/app/core/database.py`): READ COMMITTED, no autoflush, no row lock
asked for anywhere in the code, and, but for a few handlers, a single COMMIT at
the end. Almost everything that can go wrong follows from this: what a request
read may be old when it writes.

## Inventory

| Part | State | Operations | Talks to | What makes it correct | Module |
|---|---|---|---|---|---|
| Clubs (`routers/clubs.py`, `services/club`) | rows of `club`, `club_member`, `club_join_request` | create, update, delete, join, ask to join, accept, reject, leave, remove, transfer | accounts (succession), object store (pictures) | a club that is open is led by one of its members; private clubs are entered by an accepted request only; answers are final; archived clubs stay as they are | `ClubRegistry`, `ClubHandlers` |
| Accounts (`routers/auth/users.py`) | rows of `user` | edit, suspend, reactivate, close | clubs, sessions, cache, object store | a closed account leaves nothing behind; no club is left without a leader | all but `ClubChat` |
| Sessions (`routers/auth/auth.py`, `push_token.py`) | rows of `session`; tokens held by devices | login, refresh, logout, push token, dev token | accounts, notifications | one row per account; a replaced or revoked refresh token opens nothing | `Sessions` |
| Auth cache (`core/security.py`, `services/cache_service.py`) | a Redis entry per account; the cooldown of the client | look up, load, store, delete, expire | accounts, moderation, every authenticated request | a suspended account is refused; Redis is optional | `AuthCache` |
| Chat (`services/redis_service.py`, WebSocket of `clubs.py`) | local connections, pubsubs, listener tasks | connect, subscribe, send, broadcast, disconnect | clubs, blocks, push | each message reaches each connected member once; the others get a push | `ClubChat` |
| Content (posts, comments, likes, events) | their rows and images | create, delete, like, edit | clubs, object store, moderation | a closed account leaves no content and no object | `ClubContent` |
| Content safety (`routers/content_safety.py`) | reports, blocks, `is_removed` | report, block, moderate, list | content, chat, auth cache | a viewer never sees blocked, removed or reported content; a closed report says what was done | `ContentSafety` |
| Complaints (`routers/complaints.py`) | complaints, history, evidence, images | create, edit, upload evidence, change status, delete, list | object store, notifications | the history is a path of the allowed transitions; resolved only with evidence; owners are told | `Complaints` |
| Notifications, push | notification rows | create, read | sessions, Expo | nothing for closed accounts | `Complaints`, `ClubChat` |
| Object store (`services/storage_service.py`) | objects | upload, delete, sign | the rows that hold keys | every key in a row names an object | `ClubContent` |
| The process (`core/database.py`, uvicorn) | the event loop, the pool of connections, row locks of PostgreSQL | serve, wait, time out | every handler | every request is answered | `EventLoop` |
| Map, health, text moderation, schemas, wiring, migrations | none of their own | | | | not modelled |

The hard behaviours, each at its line, are the `hazards` of `PROJECT.json`: two
requests that read the same row and both write; a check made before an `await`
or before another request's COMMIT; a cache filled from a row that has just
changed; a Redis or storage call that fails half way; an answer or a background
task that is lost; listeners and connections that come and go while a message
is being delivered; handlers that block the event loop on a lock that only the
event loop can release.

## Plan

| | Modules | State |
|---|---|---|
| 1 | `ClubRegistry`: clubs and the closing of accounts, every request indivisible; the abstract specification of 2 | checked and proved |
| 2 | `ClubHandlers`: the same handlers as SELECTs and a COMMIT, several in flight; implements 1 when served one at a time | checked and proved, the refinement included |
| 3 | `Sessions` | checked and proved |
| 4 | `AuthCache` | checked; safety proved |
| 5 | `ClubChat`: subscriptions, listeners, broadcasts, the fallback without Redis | checked and proved |
| 6 | `ContentSafety`: reports, blocks, moderation, lists | checked and proved |
| 7 | `ClubContent`: content, pictures, the object store, the closing of an account | checked and proved |
| 8 | `Complaints` with their notifications | checked; safety proved |
| 9 | `EventLoop`: the loop, the pool and the locks under every handler | checked; safety proved |
| open | the notification rows of join requests in `ClubHandlers` | |

The modules overlap where components meet: the closing of an account
(`DELETE /users/me`) is the operation that touches every table, and each module
contains the part of it that concerns its state; a suspension is in
`ContentSafety` (what a moderation writes), in `AuthCache` (when it takes hold)
and in `ClubHandlers` (who may inherit). `EventLoop` looks below all of them:
the modules above it take for granted that a handler that may go on does, and
`EventLoop` says when this is so.

## Conventions

`job[w]` is the request that worker `w` serves: its operation, its arguments,
the step it is at and what it has read so far; workers bound the number of
requests in flight, not the number of requests. `Begin` and `Load...` are
authentication and the SELECTs, each refusing as the code does; `Commit...`
steps write what the request decided from what it read, subject to what the
tables enforce at that moment: unique keys, foreign keys, cascades, and the
ORM's error when the row it updates is gone. A transaction whose statements
run without an `await` or another COMMIT among them is one step with its COMMIT.
`InSection`, `MayRun` and `OnLoop`
say which handlers hold the event loop and who has to wait for them. A request
that is refused at its first step is a stutter or an answer without effect.
History variables (`raced`, `clash`, `loose`, `excused`, `leaked` ...) record
facts the program does not keep, for the properties; the steps do not depend on
them.
Operators whose names carry a suffix (`Leave_Leader`, `InSection_Threaded`
...) are faulty variants of the definition they are named after: with the
variant in its place the property they belong to fails, which shows that the
property depends on that piece of the code.

Abstracted everywhere: names, descriptions, categories, comments and wording;
the validation of bodies; logging; the order of lists and their pages.

## ClubRegistry: what the clubs promise

| Variable | Code |
|---|---|
| `status`, `leader`, `private` | `club` row: exists / `archived_at`, `id_leader`, `is_private` |
| `members` | `club_member` rows (`unique (id_club, id_user)`) |
| `request` | `club_join_request.status`; "none" when there is no row |
| `active`, `deleted` | `user.is_active`; accounts anonymised by `DELETE /users/me` |

One action per endpoint, with its guards. `DeleteAccount` is all of
`delete_my_account` that touches this state: every led club goes to an active
member or is archived, then memberships and requests go. Which heir is chosen
is left open here.

Two facts are taken as assumptions. Club identifiers are never reused (serial
primary keys). A closed account does not act again: its session and OAuth
identity are gone, and its last access token (30 minutes) is refused while
`is_active` is off; an administrator who switches a closed account on within
those minutes is outside the model. That `get_current_user` answers from the
database rather than from a stale cache entry is the subject of `AuthCache`.

Run `club_registry`: two clubs and two accounts, which let one account lead two
clubs and leave one to an heir while the other is archived; a bystander is
added in `club_serial`.

## ClubHandlers: the same handlers, step by step

`member[c][u]` holds primary keys, in the order of which `joined_at` is taken to
agree, to choose the first member to join among the active ones
(`FirstToJoin`). `Fail` is a storage call or a name collision that ends a
request without effect. `InSection` is the part of `DELETE /users/me` without
an `await`; `MayRun` keeps other async handlers out of it. `MaxRows` bounds the
inserted rows: calls that insert start only while there is room.

| Run | Instance | Shows |
|---|---|---|
| `club_serial` | 1 worker, 1 club, 3 accounts, 5 rows | with one request in flight the handlers implement `ClubRegistry` (`Serial`, a refinement with `members` and `request` mapped) |
| `club_concurrent` | 2 workers, 1 club, 2 accounts, 4 rows | what concurrency cannot break: no row outlives its club (`RowsNeedClub`), an acceptance admits (`AcceptAdmits`), the closing of an account writes what it decided (`CloseSucceeds`) |
| `club_answered_twice` | 2 workers | violated: ACCEPT and REJECT of the same request are both answered with success and the second overwrites the first, where `club_service.py:103` says "La solicitud ya fue resuelta" |

Four rows let a club be founded, joined, left and joined again; the third
account of `club_serial` is a bystander that inherits or not. Suspending is left
out of the concurrent run: it only narrows who calls and who inherits, and the
serial run covers it. The system really stops once every account is closed, so
`club_concurrent` does not check for deadlock.

With two requests in flight `ClubRegistry!LeaderIsMember` does not hold. The
interleaving: `transfer_leadership` finds the new leader's membership
(`routers/clubs.py:918`); before its COMMIT that member leaves or is removed
(`:864`, `:894`); the write (`:928`) then makes the club's leader somebody
without a membership, who can neither leave (the leader may not) nor be removed.
In the same way a join that read the club before `DELETE /users/me` of its
caller inserts a membership of a closed account afterwards. Both are hazards
without a lock in the code to prevent them; no document of the repository
promises otherwise, so no run states them.

In the same way a join reads `is_private` and `archived_at` with the club
(`:787`) and inserts the membership later (`:805`), so that a club that was made
private or archived in between takes in one more member. `PrivateAdmission` and
`ArchivedIsFrozen` are promises of one request at a time.

A join request and its answer are written by the COMMIT inside
`create_notification`, which the handler calls before its own
(`club_service.py:66`, `:115`, `:126`; `notification_service.py:42`); the second
COMMIT writes them only when the recipient is inactive and gets no notification.
Either way there is one COMMIT that writes them, which is what `CommitRequest`,
`CommitAccept` and `CommitReject` stand for.

## Sessions: login, rotation and logout

One account, several devices. A refresh token is a JWT of the account and an
expiry in whole seconds, so it is modelled by the second of its issue.

| Variable | Code |
|---|---|
| `session`, `lastRow` | `session.refresh_token` of each row, by primary key; the last key |
| `now` | the clock that stamps tokens |
| `held`, `access` | what reached each device: its refresh token, whether it has an access token |
| `closed` | the account was anonymised by `DELETE /users/me` |
| `spent`, `raced`, `devUsed` | history: tokens exchanged for a different one; a request overwrote a token written since its SELECT; `/auth/dev-token` was used |

`Load` is the SELECT of each handler, `Commit...` its write by primary key or
its INSERT, `StaleRow` the ORM's error when the row is gone; an answer may be
lost. Both logins are async without an `await`, so `LoopFree` keeps them, and
the commit of `DELETE /users/me`, from interleaving with each other.

Run `sessions_concurrent`: two devices, two requests in flight, every
operation, `MaxClock` = 2 seconds (a token before, with and after another),
`MaxRows` = 3 keys. The row stays unique although `session.id_user` has no
unique key (`OneSession`: access tokens come from logins, and logins do not
interleave); a closed account stays out (`ClosedStaysOut`); rotation and logout
(`NoSpentToken`, `SessionIsNewest`, `LogoutHoldsUnlessRaced`) can be undone by
one thing only, a request that overwrites a token written since its SELECT. A lost
answer leaves a device behind the row, with a token that opens nothing; the code
has no remedy and no property asks for one. The overwriting
is real: a refresh in flight signs the account in again after a
logout. Another limit shows in the definition of `spent`: a refresh within the
second of the login answers with the very same token, so nothing is rotated.
The clock and the rows are bounded and a closed account stays closed, so the
system may stop.

`OneSession` excepts `/auth/dev-token`: with a token that no login issued, two
concurrent push tokens do insert two rows, after which login, refresh and logout
answer 500. That endpoint is meant for tests.

## AuthCache: suspended accounts and a Redis that fails

One account. Only active accounts are stored, so `entry` is the seconds the
entry has left (0: none). `retry` is what is left of the cooldown after a
failed call, during which `CacheService` skips its calls. Steps: `Lookup`,
`Load`, `Store` of `get_current_user`; `Commit` and `Drop` of the operations
that delete the entry, in this order, except for a moderation, which drops
first. `Written` is the ORM's rule for `is_active`: a suspension that loaded the
account inactive writes nothing, and promises nothing if the account was switched
on meanwhile. A call that fails may still have reached Redis. `shut` is history: the
last answer about the account was that it is suspended. `leaked` is history of
the entry: it is set by a step that should not have left the entry behind (a
`Store` of an account suspended meanwhile, a `Drop` whose call was lost or
skipped, the `Commit` of a moderation after somebody refilled the entry) and
cleared when the entry goes.

Run `authcache_faulty`: two requests, a Redis that fails at will. An answered
suspension is in force unless one of those three happened (`OnlyKnownLeaks`); it
is in the end in any case (`SuspensionTakesHold`); no request waits for Redis
(`EveryRequestAnswered`). The first of the three needs no fault at all: an
authentication that loaded the account before its suspension stores it
afterwards, and the account goes on for up to 300 s.

`TTL` = 2 and `Cooldown` = 1 stand for 300 s and 5 s; only their being finite
matters, and `TTL > Cooldown` lets an entry outlive a cooldown. Fairness: time
passes (`Tick`) and accepted requests go on, because pool threads are not stopped
and every Redis call has a timeout; nobody is obliged to call, and Redis may fail
for ever.

## ClubChat: subscriptions, listeners and broadcasts

The chat of one club in one process: `RedisChatManager` and the WebSocket
handler `club_chat`, one step from each `await` to the next.

| Variable | Code |
|---|---|
| `redis` | whether `connect_redis` found Redis when the process started |
| `who`, `blocks` | the user of each connection; `user_block` rows |
| `phones` | the members with a session row that holds a valid push token |
| `conn` | where the handler of a connection is, and the message it handles |
| `seat` | `_local_connections["club:user"]`: the set a callback is in |
| `listener`, `registered` | the listener tasks that run; the one `_pubsubs` and `_listener_tasks` name |
| `cast` | a `_broadcast_local` that is under way, by a listener or by the sender's handler |
| `there`, `due`, `got` | which connections were counted when the message came, which were registered when it was published, how often each was sent it |
| `pushed`, `lost` | for whom the push service took a push; for whom the call failed, which `push_service.py:40` logs |
| `failed`, `doubled`, `unsure`, `excused` | history: what went wrong, of the kinds the properties except |

`Arrive` registers the callback and may begin a SUBSCRIBE that `Subscribed` or
`NotSubscribed` ends; `Send`, `Save`, `Notify`, `Publish` are the stages of a
message; `Listen`, `Break`, `Wake` are the listener; `StartBroadcast` and
`Callback` walk the sets of callbacks, which change under them. `Overlap` is the
choice SQLAlchemy has when one session is used from two threads: it may refuse
or not. `Notify` selects the members who were not counted, are not blocked and
have a push token, and calls the push service for each; an outage of it takes any
of the calls and counts as one fault. Blocks and push tokens do not change
while a message travels; each run starts with any that its configuration allows.

| Run | Shows |
|---|---|
| `club_chat` | three members (one without a push token), two connections of any of them, one message, three faults, of Redis or of the push service: a listener exists while it is needed (`ListenerWhileNeeded`); nobody gets a message twice unless two listeners run or publishing failed after Redis took it (`DeliveredOnce`); every connection is reached unless an error of a named kind excuses it (`ReachesConnections`); a member who was counted as connected gets the message or has closed a counted connection, any other one with a push token is sent a push, which only a failing push service loses (`ReachesMembers`, with the same errors excepted); a block in either direction holds (`BlockedHearNothing`) |
| `chat_twice` | violated: `OneListener`. The comment at `redis_service.py:115` says "Evitar múltiples suscripciones al mismo canal"; two connections that arrive before either SUBSCRIBE is answered start a listener each |

Members without a push token and whoever the push service fails get nothing while
they are offline: the code promises no more, and neither does `ReachesMembers`.
An iteration over a set of callbacks that changes (`redis_service.py:216`) raises
and is one of the errors excused: the properties show that nobody misses a
message but for one of these errors, not that the errors cannot happen.

Two connections are enough for SUBSCRIBEs that cross, for a set of callbacks
that grows or shrinks during a broadcast, and to leave somebody offline;
`MaxCrossing` = 2 lets both SUBSCRIBEs be under way. Connections and messages
are finite, so the system stops. A club's rows and the check of reports before
delivery are left out: a message that was saved a moment ago has no report.

## ContentSafety: reports, blocks, moderation and lists

| Variable | Code |
|---|---|
| `author`, `admins` | who wrote each item; accounts with the role ADMIN |
| `item` | a post, comment or message: shown, `is_removed`, or without a row |
| `club` | the club's row exists |
| `report` | `content_report` rows, `unique (reporter, target)` |
| `blocks` | `user_block` rows |
| `active` | `user.is_active` |
| `clash` | history: reports decided by somebody who had loaded an older row |

The handlers are `def` and interleave between any two SELECTs. A list reads
blocks, reports and items in this order (`ReadBlocks`, `ReadReports`,
`ReadItems`); `hidden`, a history field of its job, is what was hidden from the
viewer all along. A moderation loads the report with its author, then the
target, and commits; `Written` is the ORM's rule, only columns that differ from
what was loaded, by which two decisions can mix in one row.

Nothing keeps two administrators from deciding on one report at a time. The
second COMMIT then writes the columns that differ from what its administrator
had loaded: it may leave DISMISSED beside REMOVE_CONTENT, overwrite the action
under which content was removed, or open the report again. `clash` records the
reports on which two decisions crossed, and the properties say what they do not
affect.

Run `content_safety`: two accounts, one item, two requests in flight, with
blocks, suspensions, deletions and closed accounts beside them.

- `HiddenStaysHidden`: no list shows what was hidden from its viewer all along.
- `OneDecision`: only a resolved report carries an action, unless two decisions
  crossed on it.
- `RemovalOnRecord`: what moderation removed has a report that says so, or one on
  which two decisions crossed.
- `ClosedStaysClosed`: a closed report changes only when its club is deleted, or by
  the COMMIT of a decision that was loaded while it was open. It has no exception
  for crossings: it says that the late decision of two is all that can touch the
  report, including by opening it again.
- `SanctionsApplied`: a decision is applied as a whole, except for an author
  switched on between the SELECT and the COMMIT.

Two requests are two administrators, or an administrator and a viewer; everybody
may be author, reporter and viewer.

## ClubContent: content, pictures and the object store

| Variable | Code |
|---|---|
| `club` | status, leader and picture of one club's row |
| `row` | posts, comments, likes and events, with the key of a post's image |
| `photo` | `user.photo` |
| `closed` | accounts anonymised by `DELETE /users/me` |
| `stored`, `owner`, `lastKey` | the objects in the store, who uploaded each, the last key |
| `raced`, `loose`, `broken` | history: accounts that wrote while being closed; keys whose row went without them; a removal that ended before its COMMIT |

`Upload` succeeds or ends its request, before or after the store has taken the
object: its answer may be lost, and of several images of a post a later one may
fail. The removals of `ClearPicture` and `WipeObject` succeed or end their request
too (`RemovalFails`), with the object gone or not: the call may have reached the
store, and of the two pictures of a club the first may be gone when the removal
of the second fails. `DropOldPhoto` comes after its COMMIT. `InSection` marks
where an async handler does not await. `delete_my_account` is `LoadOwn` (posts
and photo are read), `WipeObject` for each object, `DeleteOwn` (the rows the
DELETEs find) and `CommitClose`, which clears the photo only if one was loaded, as
the ORM does. A post and a club have one key each, which stands for the images
of the post and the two pictures of the club. `Open` keeps a difference between two functions
of the code: posts may be written in an archived club, everything else not.

Run `club_content`: two accounts, two rows, two keys, two requests in flight,
every kind of content and every operation. A closed account leaves nothing,
unless it wrote while it was being closed (`OnlyRacesLeave`); a key of a row
names an object, unless it is just being replaced or a removal broke off
(`KeysNameObjects`). Two rows are a post and what hangs on it; two keys are an
old and a new picture. Rows and keys are bounded, so the system stops.

## Complaints: history, evidence and notices

| Variable | Code |
|---|---|
| `row`, `owner`, `history` | `complaint`, its images and evidence counted, `complaint_status_history` |
| `stored` | objects under `complaints/{id}/` |
| `note` | notification rows that tell of an event |
| `task` | the background task of an event: queued, past its look at `is_active`, done or lost |
| `active`, `closed` | `user.is_active`, closed accounts |

All handlers are async. `InSection` is where they do not await: from the first
SELECT to the COMMIT of a change of status, an edit, a deletion, and through the
three SELECTs of the list. Authentication and that first SELECT are one step:
nothing of the handler depends on when the account was authenticated.
`BeginCreate`, `UploadImage`, `CommitCreate`, `SignAnswer` are the stages of a
new complaint; a failed signature answers 500 after the COMMIT and takes the
background task with it. `Restart` loses requests and tasks, not rows.

Run `complaints`: one complaint, its owner and the staff, two requests, one
image, one piece of evidence, two texts. The history is a path and no report is
resolved without evidence (`HistoryIsPath`); nothing is edited once it is being
handled (`EditedWhilePending`); the two counts of the list agree
(`ListAddsUp`); every notice is true and comes once (`NoticesAreTrue`); every
committed change is told in the end unless its task was lost with the process or
a failed answer, or found the account inactive (`EveryChangeTold`). What keeps
the history right is only that these handlers do not await: with `InSection`
false, as in a handler that is `def`, the first three fail.

Fairness: strong for the steps of a request, because the event loop takes what
is ready in the order in which it became ready, while others may hold the loop
in between; weak for background tasks, which run in pool threads nobody stops.

## EventLoop: what every handler stands on

Async handlers use the blocking SQLAlchemy session on the event loop. While a
query waits for a connection or for a row lock nothing else runs.

| Variable | Code |
|---|---|
| `req` | each request: its operation, user, name, whether it carries files, its stage; a login is a `link_login` when it changes the account's email or subject |
| `loop` | the request that runs on the event loop |
| `holding` | who holds a connection of the pool (`Pool` = pool_size + max_overflow) |
| `names`, `club` | committed club names (a unique index); the club that is posted to, renamed and deleted |

`Wants` is what the statements of a request lock in PostgreSQL: a name in the
unique index, a row that a foreign key refers to (FOR KEY SHARE), a row that is
deleted or whose unique columns change (FOR UPDATE). `FlushesFirst` are the three
handlers that flush an INSERT and then await the object store while they hold
its locks (`create_club`, `create_club_post`, `create_complaint`). A COMMIT gives
the connection back and expires what was loaded, so that the answer is made of
rows that are read again (`Reread`), which takes a connection and may end in an
error although the request has committed. A WebSocket keeps the connection its
authentication took until it closes.

Run `event_loop`: two requests, two accounts, two names, two sockets, a pool of
two. The loop freezes only behind one of the three handlers, with files, and only
for what that one holds (`FreezesOnlyOnConflict`): the name of the club it
creates, which a second request wants; the club it posts to, which is changed or
deleted; the account it creates something for, which is closed, or linked anew by
a login whose email or subject is not the one stored (`auth_service.py:45`). A
frozen loop stays frozen, since PostgreSQL sees no cycle (`FrozenForGood`); in
every other case every request is answered, if only with an error after
`pool_timeout` (`Answered`). A cycle of this kind needs two
requests only. Each request is served once, so the system stops.

Fairness: strong for each request. The loop takes ready requests in turn, pool
and locks are queues, and every await of the store ends; sockets are not obliged
to close.

## What is proved

The `..._proofs` modules prove, for every value of the constants, what the runs
check on small instances. The assumptions are the named `ASSUME`s of the
modules: that `Nobody` is no account, connection or row, that nobody blocks
himself, that bounds are natural numbers, that a TTL and a pool are positive, that complaints
and workers are finite sets (their cardinalities are compared). TLC evaluates each of them.

| Module | Proved | Inductive invariant and argument |
|---|---|---|
| `ClubRegistry_proofs` | `TypeOK`, `LeaderIsMember`, `DeletedLeavesNothing`, `ArchivedIsOrphan`, `RowsNeedClub`, `ArchivedIsFrozen`, `AnswerIsFinal`, `PrivateAdmission` | The state invariants together, none being inductive alone: an heir is not a closed account because those hold no membership, an archived club cannot move because its leader is a closed account, a new club starts empty because identifiers without a row have none |
| `ClubHandlers_proofs` | `TypeOK`, `RowsNeedClub`, `AcceptAdmits`, `CloseSucceeds` | `IInv`: types, no orphan rows, each request is at a step of its operation (`Sound`), and the clubs a closing account read still exist (`LedExist`), because `DELETE /clubs/{id}` runs on the same event loop. Nothing else that was read is claimed to hold still |
| the same module, last part | `Serial`; from it `AnswerIsFinal` | If there is one worker, what a request read still holds when it writes (`Knows`), so every step is a step of `ClubRegistry` or a stutter under the mapping. One lemma per group of COMMITs |
| `Sessions_proofs` | `TypeOK`, `OneSession`, `ClosedStaysOut`, `NoSpentToken`, `SessionIsNewest`, `LogoutHoldsUnlessRaced` | `IInv` orders tokens in time (`Past`), says what each request presented and found (`Found`), that logins are alone between SELECT and COMMIT (`Alone`), and, while nothing has raced, that a request about to write holds a token as new as any (`Ordered`) |
| `Redis_proofs`, chat | `TypeOK`, `ListenerWhileNeeded`, `DeliveredOnce`, `ReachesConnections`, `ReachesMembers`, `BlockedHearNothing` of `ClubChat` | `IInv` follows each message: before it is published nobody carries it (`UnpublishedSound`) and one handler has it (`Alone`); afterwards a connection that is due it has got it or is still before a carrier (`Reached`), and with one listener it is in one inbox or one broadcast only, none of whose calls still to come is to somebody who has it (`OneCopy`). What the properties say of a message that has travelled is not inductive, because it says nothing of one that is under way |
| `Redis_proofs`, cache | `CacheTypeOK`, `OnlyKnownLeaks` of `AuthCache` | Inductive together with `ShutIsSuspended`: an answered suspension still stands in the database, so a `Store` that leaves an entry under it is seen to store a suspended account |
| `ContentSafety_proofs` | `TypeOK`, `HiddenStaysHidden`, `OneDecision`, `RemovalOnRecord`, `ClosedStaysClosed`, `SanctionsApplied` | What is hidden from a list is so by what it has read or by what it still has to read (`Listing`); an administrator alone with a report holds its row as it is, and knows whether the author is active (`Deciding`); whoever commits on a closed report has loaded it open |
| `ClubContent_proofs` | `TypeOK`, `OnlyRacesLeave`, `KeysNameObjects` | `IInv` says where a key can be: in flight, in a row, in a photo, in the club's picture, or nowhere any more, and in one of these only (`Placed`, `FreshSound`, `Apart`). So no request can remove the object of a row that it did not read (`Named`), and a closing that nobody raced has read whatever its account still owns (`CloseComplete`), which leaves nothing when it commits (`Cleaned`) |
| `Complaints_proofs` | `TypeOK`, `HistoryIsPath`, `ListAddsUp`, `NoticesAreTrue`, `EditedWhilePending` | What each request read (`Fits`) and that one at a time is between its first SELECT and its COMMIT (`Apart`), so that nobody else writes there; evidence stored but not yet inserted is counted (`Inserting`); no status comes back on a path (`Before`), which is why nobody is told twice |
| `EventLoop_proofs` | `TypeOK`, `FreezesOnlyOnConflict`, `FrozenForGood` | Who is on the loop at each stage (`Shape`), connections are counted (`Pooled`); whoever is waited for has flushed and awaits with files |

The type invariants of these modules are proved rather than repeated in every
run. Two modules share `Redis_proofs` because they share the client that may
fail; their variables are disjoint and no theorem of one is used for the other,
which is why the specification of `AuthCache` carries names of its own
(`CacheInit`, `CacheNext`, `CacheSpec`).

What the last two proofs rest on is worth knowing before the code is changed.
In the chat a connection is in one set of callbacks from its opening to its
closing and never comes back (`ConnSound`), which is why a broadcast calls it
once at most although sets change while they are iterated; and `ReachesMembers`
follows from who was counted before the COMMIT (`Counted`), not from who is
registered at the PUBLISH: those who closed in between are the exception the
property names. In the content a closing account has nothing but its own
requests to fear: whatever else touches what it has read deletes rows or
objects and leaves it less to do, and a photo that it did not load is one that
was committed since, by a request that raced it.

## Checked only

- Liveness: `EveryChangeTold`, `EveryRequestAnswered`, `SuspensionTakesHold`,
  `Answered`. Fairness and ENABLED are outside what the proof system handles, as
  are recursive operators (none is used here) and induction over data.
- The two violated runs, which show interleavings and have nothing to prove.

## Not modelled

- `update_club_event` overwrites the text and the date of a row; nothing depends
  on them.
- The list of notifications and its read flags; single reads of complaints, of
  reports and of blocks: one SELECT each, of state nothing else writes by it.
- The notification row and the push of a join request and of its answer:
  `create_notification` commits the request or the answer along with the row
  (see `ClubHandlers`), and neither is part of what `ClubHandlers` promises.
- Closed accounts that an administrator switches on within the 30 minutes of an
  access token, and the expiry of refresh tokens after 30 days.
- The profile cache `users:me:v1:<id>`: 60 s of display data, filled and deleted
  by the same steps as the entry of `AuthCache`.
- Text moderation (a pure predicate on a word list), the campus map and health
  (read-only), request and response schemas, application wiring and settings,
  migrations and seed data (run before the server starts), the API collection
  and the tests (read for what they say of the code).
- More than one process of the API: `src/Dockerfile` starts one worker. Redis
  would then carry messages between processes, which `ClubChat` does not show.

## Running

    tlc -workers 2 -config MCComplaints.cfg MCComplaints
    tlapm ClubHandlers_proofs.tla      (the longest, some minutes)

`PROJECT.json` lists every run with its module and configuration, the source
lines of each definition, the faulty variant that breaks each property, the
hazards, the findings and the theorems.
