----------------------------- MODULE AuthCache -----------------------------
(***************************************************************************)
(* The Redis entry that get_current_user keeps of one account, and the     *)
(* requests that read it, refill it and delete it.                         *)
(*                                                                         *)
(* Only active accounts are ever stored, so an entry is modelled by the    *)
(* seconds it has left: 0 is no entry.  Every Redis call of the server     *)
(* goes through one CacheService, which stops calling for a while after a  *)
(* failed call.  Each step of a request is one Redis call or one database  *)
(* transaction; steps of different requests interleave.                    *)
(***************************************************************************)
EXTENDS Integers

CONSTANTS
    Workers,     \* requests the server may have in flight at a time
    Ops,         \* the operations in use
    RedisFails,  \* whether a Redis call may fail
    TTL,         \* AUTH_USER_CACHE_TTL_SECONDS
    Cooldown     \* REDIS_RETRY_COOLDOWN_SECONDS; 0 allows a retry at once

AllOps == {"auth", "edit", "suspend", "reactivate", "close", "moderate"}

ASSUME AuthCacheAssumption ==
    /\ Ops \subseteq AllOps
    /\ RedisFails \in BOOLEAN
    /\ TTL \in Nat \ {0}
    /\ Cooldown \in Nat

VARIABLES
    active,  \* is_active of the account, committed
    entry,   \* seconds auth:user:v1:<id> has left in Redis
    retry,   \* seconds until CacheService calls Redis again
    shut,    \* history: the last answer about the account suspended it
    leaked,  \* history: how the entry comes to outlive a suspension, see Leak
    job      \* job[w]: the request worker w is serving

cacheVars == <<active, entry, retry, shut, leaked, job>>

Idle == [pc |-> "idle"]

CacheInit ==
    /\ active = TRUE
    /\ entry = 0
    /\ retry = 0
    /\ shut = FALSE
    /\ leaked = FALSE
    /\ job = [w \in Workers |-> Idle]

-----------------------------------------------------------------------------

Less_NoFloor(n) == n - 1

Less(n) == IF n = 0 THEN 0 ELSE n - 1

\* The entry is one that a step should not have left behind.
Leak(here) == leaked' = (entry' > 0 /\ (leaked \/ here))

Tick ==
    /\ entry + retry > 0
    /\ entry' = Less(entry)
    /\ retry' = Less(retry)
    /\ Leak(FALSE)
    /\ UNCHANGED <<active, shut, job>>

At(w, pc) == job[w].pc = pc

Goto(w, pc) == job' = [job EXCEPT ![w].pc = pc]

Answer(w) == job' = [job EXCEPT ![w] = Idle]

UseRedis_Retries(w, e, next) ==
    \/ retry = 0 /\ next /\ entry' = e /\ UNCHANGED retry
    \/ retry > 0 /\ UNCHANGED <<entry, retry, job>>
    \/ retry = 0 /\ RedisFails /\ retry' = Cooldown /\ UNCHANGED <<entry, job>>

\* A call that leaves the entry with e seconds.
Called(e) == retry = 0 /\ entry' = e /\ UNCHANGED retry

\* A call that is skipped within the cooldown, or fails and starts the cooldown;
\* one that fails may have reached Redis all the same (the timeout is 0.1 s).
Lost(e) ==
    \/ retry > 0 /\ UNCHANGED <<entry, retry>>
    \/ retry = 0 /\ RedisFails /\ entry' \in {entry, e} /\ retry' = Cooldown

\* The request goes on to next whatever came of its call of CacheService.
UseRedis(w, e, next) == next /\ (Called(e) \/ Lost(e))

FirstStep(op) == IF op = "moderate" THEN "drop" ELSE "commit"

\* get_current_user, or another operation after its caller was authenticated
\* and the account loaded: the account itself edits and closes, an
\* administrator does the rest.
Begin(w) ==
    /\ At(w, "idle")
    /\ \/ /\ "auth" \in Ops
          /\ job' = [job EXCEPT ![w] = [pc |-> "lookup", op |-> "auth"]]
       \/ \E op \in Ops \ {"auth"} :
            /\ op \in {"edit", "close"} => active \/ entry > 0
            /\ job' = [job EXCEPT ![w] = [pc |-> FirstStep(op), op |-> op, seen |-> active]]
    /\ UNCHANGED <<active, entry, retry, shut, leaked>>

Lookup_Sliding(w) ==
    /\ At(w, "lookup")
    /\ IF entry > 0 /\ retry = 0
       THEN UseRedis(w, TTL, Answer(w))
       ELSE UseRedis(w, entry, Goto(w, "load"))
    /\ UNCHANGED <<active, shut, leaked>>

\* A hit admits the request.  A miss, a skipped and a failed call go to the
\* database.
Lookup(w) ==
    /\ At(w, "lookup")
    /\ IF entry > 0 /\ retry = 0
       THEN \/ Answer(w) /\ UNCHANGED retry
            \/ RedisFails /\ Goto(w, "load") /\ retry' = Cooldown
       ELSE /\ Goto(w, "load")
            /\ \/ UNCHANGED retry
               \/ RedisFails /\ retry = 0 /\ retry' = Cooldown
    /\ UNCHANGED <<active, entry, shut, leaked>>

\* An inactive account is refused with 403 and not stored.
Load(w) ==
    /\ At(w, "load")
    /\ IF active THEN Goto(w, "store") ELSE Answer(w)
    /\ UNCHANGED <<active, entry, retry, shut, leaked>>

\* The account may have been suspended since it was loaded.
Store(w) ==
    /\ At(w, "store")
    /\ UseRedis(w, TTL, Answer(w))
    /\ Leak(~active)
    /\ UNCHANGED <<active, shut>>

IsActiveAfter(op) ==
    CASE op = "reactivate"                      -> TRUE
      [] op \in {"suspend", "close", "moderate"} -> FALSE
      [] OTHER                                  -> active

\* The ORM writes is_active only when it differs from what was loaded: a request
\* that found the account as it wants it leaves it as it is by now.
Written(j) == IF j.seen = IsActiveAfter(j.op) THEN active ELSE IsActiveAfter(j.op)

\* The answer of a request that suspended the account is the promise that it
\* is shut out, until another one reactivates it.  No promise is given when the
\* account is active all the same.
Promise(w) ==
    shut' = (~active' /\ (shut \/ job[w].op \in {"suspend", "close", "moderate"}))

\* The one COMMIT of the request.  A moderation deletes the entry before it, the
\* others after it.
Commit(w) ==
    /\ At(w, "commit")
    /\ active' = Written(job[w])
    /\ UNCHANGED <<entry, retry>>
    /\ IF job[w].op = "moderate"
       THEN Answer(w) /\ Promise(w) /\ Leak(TRUE)
       ELSE Goto(w, "drop") /\ shut' = (shut /\ ~active') /\ Leak(FALSE)

Drop_Forgotten(w) ==
    /\ At(w, "drop")
    /\ UNCHANGED <<active, entry, retry, leaked>>
    /\ IF job[w].op = "moderate"
       THEN Goto(w, "commit") /\ UNCHANGED shut
       ELSE Answer(w) /\ Promise(w)

\* cache_service.delete: a failure is logged and otherwise ignored.
Drop(w) ==
    /\ At(w, "drop")
    /\ UNCHANGED active
    /\ \/ Called(0) /\ Leak(FALSE)
       \/ Lost(0) /\ Leak(TRUE)
    /\ IF job[w].op = "moderate"
       THEN Goto(w, "commit") /\ UNCHANGED shut
       ELSE Answer(w) /\ Promise(w)

Step(w) == Lookup(w) \/ Load(w) \/ Store(w) \/ Commit(w) \/ Drop(w)

CacheNext == Tick \/ \E w \in Workers : Begin(w) \/ Step(w)

CacheSpec == CacheInit /\ [][CacheNext]_cacheVars

\* Time passes and a request that was accepted goes on; nobody has to call.
FairSpec ==
    /\ CacheSpec
    /\ WF_cacheVars(Tick)
    /\ \A w \in Workers : WF_cacheVars(Step(w))

-----------------------------------------------------------------------------
(* Properties. *)

Jobs ==
    {Idle}
    \cup [pc : {"lookup", "load", "store"}, op : {"auth"}]
    \cup [pc : {"commit", "drop"}, op : AllOps \ {"auth"}, seen : BOOLEAN]

\* Types; only the steps an operation has are ever reached by it.
CacheTypeOK ==
    /\ active \in BOOLEAN
    /\ entry \in 0..TTL
    /\ retry \in 0..Cooldown
    /\ shut \in BOOLEAN
    /\ leaked \in BOOLEAN
    /\ job \in [Workers -> Jobs]

\* Once a suspension, a closing or a moderation was answered, no entry lets the
\* account in, says the docstring of set_user_active.  An entry outlives it in
\* three ways only: a request stored what it had loaded before the suspension,
\* the deletion of the entry was lost or skipped, or a moderation deleted it too
\* early.
OnlyKnownLeaks == shut /\ entry > 0 => leaked

\* An account that stays suspended ends up refused, whatever Redis lost and
\* whoever was reading: entries expire and are not renewed.
SuspensionTakesHold == <>[](~active) => <>[](entry = 0)

\* Redis is optional: every request is answered, however often its calls fail.
EveryRequestAnswered == \A w \in Workers : job[w] # Idle ~> job[w] = Idle
=============================================================================
