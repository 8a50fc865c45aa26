-------------------------- MODULE DistributedMutex --------------------------
(***************************************************************************)
(* lib/distributed_mutex.rb: a lock shared by processes, kept in one Redis *)
(* key.  The key holds the last second for which the lock is valid.  Each  *)
(* Lua script is one atomic step of Redis; TIME and UNLOCK_SCRIPT are two  *)
(* separate commands, so other processes and the clock run between them.   *)
(* A process here is one thread with a DistributedMutex object of its own. *)
(***************************************************************************)
EXTENDS Integers, FiniteSets

CONSTANTS
    Procs,
    GlobalRedis,          \* processes whose mutex was built without redis: (@using_global_redis)
    Validities,           \* the validity: values the callers pass, in seconds
    CheckReadonlyAttempts,\* CHECK_READONLY_ATTEMPTS
    MaxTime               \* bound on the clock (in the guard of Tick only)

ASSUME ValiditiesAssumption == Validities \subseteq Nat
ASSUME AttemptsAssumption == CheckReadonlyAttempts \in Nat
ASSUME MaxTimeAssumption == MaxTime \in Nat
ASSUME GlobalRedisAssumption == GlobalRedis \subseteq Procs

VARIABLES
    now,            \* the second TIME returns
    key,            \* value of the Redis key, NoKey when the key does not exist
    redisReadonly,  \* Redis refuses writes (it is a replica for now)
    pc,             \* where each process is in synchronize
    validity,       \* @validity
    attempts,       \* attempts of get_lock, which only compares it with a threshold
    expireTime,     \* expire_time, the value get_lock returned
    currentTime,    \* current_time, read before the unlock script
    seenReadonly,   \* Discourse.recently_readonly? as the process sees it
    warned          \* the process logged "appears to have been tampered with"

redisVars == <<now, key, redisReadonly>>
vars == <<now, key, redisReadonly, pc, validity, attempts, expireTime,
          currentTime, seenReadonly, warned>>

NoKey == -1
States == {"idle", "get_lock", "critical", "unlock"}

Init ==
    /\ now = 0
    /\ key = NoKey
    /\ redisReadonly = FALSE
    /\ pc = [p \in Procs |-> "idle"]
    /\ validity = [p \in Procs |-> 0]
    /\ attempts = [p \in Procs |-> 0]
    /\ expireTime = [p \in Procs |-> NoKey]
    /\ currentTime = [p \in Procs |-> 0]
    /\ seenReadonly = [p \in Procs |-> FALSE]
    /\ warned = [p \in Procs |-> FALSE]

-----------------------------------------------------------------------------
(* The two Lua scripts, and the counting of attempts.  Each definition whose *)
(* name ends in _M is that operator with a plausible mistake in it, which    *)
(* the properties below must notice.                                         *)

Locked_OffByOne_M == now < key

Locked_NoCheck_M == FALSE

\* the lock script finds a lock that is still valid
Locked == now <= key

\* LOCK_SCRIPT can write: there is no valid lock, and Redis accepts SETEX
CanLock == ~Locked /\ ~redisReadonly

CanUnlock_AnyKey_M(p) == ~redisReadonly

\* UNLOCK_SCRIPT deletes the key only when it holds the caller's expire time
CanUnlock(p) == key = expireTime[p] /\ ~redisReadonly

KeyMayVanish_NoSpareSecond_M == now >= key

\* SETEX gave the key a TTL of validity + 1 seconds from some instant of its
\* first second: it ends at some instant of second key + 1
KeyMayVanish == now > key

\* attempts += 1; beyond the threshold all numbers compare alike, so the count
\* stays there
NextAttempt(n) == IF n < CheckReadonlyAttempts THEN n + 1 ELSE n

GivesUp_Never_M(p, seen) == FALSE

\* raise Discourse::ReadOnly
GivesUp(p, seen) ==
    p \in GlobalRedis /\ seen /\ attempts[p] + 1 > CheckReadonlyAttempts

\* the caller's locals disappear when synchronize returns, raises or dies
Leave(p) ==
    /\ pc' = [pc EXCEPT ![p] = "idle"]
    /\ validity' = [validity EXCEPT ![p] = 0]
    /\ attempts' = [attempts EXCEPT ![p] = 0]
    /\ expireTime' = [expireTime EXCEPT ![p] = NoKey]
    /\ currentTime' = [currentTime EXCEPT ![p] = 0]

-----------------------------------------------------------------------------
(* synchronize *)

\* DistributedMutex.synchronize(key, validity: v)
Begin(p, v) ==
    /\ pc[p] = "idle"
    /\ pc' = [pc EXCEPT ![p] = "get_lock"]
    /\ validity' = [validity EXCEPT ![p] = v]
    /\ UNCHANGED <<redisVars, attempts, expireTime, currentTime, seenReadonly, warned>>

\* get_lock: LOCK_SCRIPT wrote the key, synchronize runs its block
Lock(p) ==
    /\ pc[p] = "get_lock"
    /\ CanLock
    /\ key' = now + validity[p]
    /\ expireTime' = [expireTime EXCEPT ![p] = now + validity[p]]
    /\ attempts' = [attempts EXCEPT ![p] = 0]
    /\ warned' = [warned EXCEPT ![p] = FALSE]
    /\ pc' = [pc EXCEPT ![p] = "critical"]
    /\ UNCHANGED <<now, redisReadonly, validity, currentTime, seenReadonly>>

\* get_lock that returns nil instead of raising
FailedAttempt_RunsBlock_M(p) ==
    LET seen == seenReadonly[p] \/ ~Locked
    IN  /\ pc[p] = "get_lock"
        /\ ~CanLock
        /\ seenReadonly' = [seenReadonly EXCEPT ![p] = seen]
        /\ \/ /\ GivesUp(p, seen)
              /\ pc' = [pc EXCEPT ![p] = "critical"]
              /\ UNCHANGED <<attempts, validity, expireTime, currentTime>>
           \/ /\ ~GivesUp(p, seen)
              /\ attempts' = [attempts EXCEPT ![p] = NextAttempt(@)]
              /\ UNCHANGED <<pc, validity, expireTime, currentTime>>
        /\ UNCHANGED <<redisVars, warned>>

\* get_lock: the script returned nil; sleep, count the attempt, and either
\* go round again or raise Discourse::ReadOnly.  A SETEX that a read-only
\* Redis refuses also returns nil, and is remembered (received_redis_readonly!)
FailedAttempt(p) ==
    LET seen == seenReadonly[p] \/ ~Locked
    IN  /\ pc[p] = "get_lock"
        /\ ~CanLock
        /\ seenReadonly' = [seenReadonly EXCEPT ![p] = seen]
        /\ \/ GivesUp(p, seen) /\ Leave(p)
           \/ /\ ~GivesUp(p, seen)
              /\ attempts' = [attempts EXCEPT ![p] = NextAttempt(@)]
              /\ UNCHANGED <<pc, validity, expireTime, currentTime>>
        /\ UNCHANGED <<redisVars, warned>>

\* the block returned or raised: ensure reads redis.time
ReadTime(p) ==
    /\ pc[p] = "critical"
    /\ currentTime' = [currentTime EXCEPT ![p] = now]
    /\ pc' = [pc EXCEPT ![p] = "unlock"]
    /\ UNCHANGED <<redisVars, validity, attempts, expireTime, seenReadonly, warned>>

\* UNLOCK_SCRIPT, the tampering warning, and the end of synchronize
Unlock(p) ==
    /\ pc[p] = "unlock"
    /\ key' = IF CanUnlock(p) THEN NoKey ELSE key
    /\ seenReadonly' = [seenReadonly EXCEPT ![p] =
                           @ \/ (key = expireTime[p] /\ redisReadonly)]
    /\ warned' = [warned EXCEPT ![p] =
                     ~CanUnlock(p) /\ currentTime[p] <= expireTime[p]]
    /\ Leave(p)
    /\ UNCHANGED <<now, redisReadonly>>

-----------------------------------------------------------------------------
(* Everything else that happens *)

\* the process is killed, or loses Redis for good inside synchronize
Crash(p) ==
    /\ pc[p] # "idle"
    /\ Leave(p)
    /\ UNCHANGED <<redisVars, seenReadonly, warned>>

\* a second passes; a key never outlives second key + 1
Tick ==
    /\ now < MaxTime
    /\ now' = now + 1
    /\ key' = IF now' > key + 1 THEN NoKey ELSE key
    /\ UNCHANGED <<redisReadonly, pc, validity, attempts, expireTime,
                   currentTime, seenReadonly, warned>>

\* the key's time to live ends
KeyTTL ==
    /\ key # NoKey
    /\ KeyMayVanish
    /\ key' = NoKey
    /\ UNCHANGED <<now, redisReadonly, pc, validity, attempts, expireTime,
                   currentTime, seenReadonly, warned>>

\* failover: Redis starts or stops refusing writes
ToggleReadonly ==
    /\ redisReadonly' = ~redisReadonly
    /\ UNCHANGED <<now, key, pc, validity, attempts, expireTime, currentTime,
                   seenReadonly, warned>>

\* Discourse.recently_readonly? changes by itself: another thread or Postgres
\* reported a refused write, or the last report is 15 seconds old
RecentlyReadonly(p) ==
    /\ seenReadonly' = [seenReadonly EXCEPT ![p] = ~@]
    /\ UNCHANGED <<redisVars, pc, validity, attempts, expireTime, currentTime, warned>>

Step(p) ==
    \/ \E v \in Validities : Begin(p, v)
    \/ Lock(p)
    \/ FailedAttempt(p)
    \/ ReadTime(p)
    \/ Unlock(p)
    \/ Crash(p)
    \/ RecentlyReadonly(p)

Next ==
    \/ Tick
    \/ KeyTTL
    \/ ToggleReadonly
    \/ \E p \in Procs : Step(p)

Spec == Init /\ [][Next]_vars

-----------------------------------------------------------------------------
(* Properties *)

\* Each variable has its type, and nobody runs the block without an expire time
\* from the lock script: get_lock returns one or raises.
TypeOK ==
    /\ now \in Nat
    /\ key \in Nat \cup {NoKey}
    /\ redisReadonly \in BOOLEAN
    /\ pc \in [Procs -> States]
    /\ validity \in [Procs -> Nat]
    /\ attempts \in [Procs -> 0..CheckReadonlyAttempts]
    /\ expireTime \in [Procs -> Nat \cup {NoKey}]
    /\ currentTime \in [Procs -> Nat]
    /\ seenReadonly \in [Procs -> BOOLEAN]
    /\ warned \in [Procs -> BOOLEAN]
    /\ \A p \in Procs : pc[p] \in {"critical", "unlock"} <=> expireTime[p] # NoKey

\* the processes whose get_lock returned and whose unlock has not run
Outstanding == {p \in Procs : pc[p] \in {"critical", "unlock"}}

\* the outstanding processes whose lock has not expired
InDate == {p \in Outstanding : now <= expireTime[p]}

\* At most one process is inside synchronize with a lock that has not
\* expired, whatever the others' validities, crashes, late unlocks and
\* read-only periods.
MutualExclusion == \A p, q \in InDate : p = q

\* A process whose lock has not expired finds its own expire time in the
\* key: nothing but its own unlock removes or replaces it before that.
HolderOwnsKey == \A p \in InDate : key = expireTime[p]

\* A process that overran its validity and unlocks late does not delete the
\* lock somebody else has taken since: the unlock script compares expire
\* times, so two locks that are outstanding together must differ in theirs.
ExpireTimesDiffer ==
    \A p, q \in Outstanding : expireTime[p] = expireTime[q] => p = q

\* A step takes the lock away from a process that still holds it in date
\* only if it is that process's own unlock, its death, or the clock.
OnlyHolderReleases ==
    [][\A p \in InDate :
          key' # key => \/ pc[p] = "unlock" /\ pc'[p] = "idle"
                        \/ now' > expireTime[p]]_vars

-----------------------------------------------------------------------------
(* The lease this implements *)

Lease == INSTANCE LeaseLock WITH
            clock   <- now,
            until   <- IF Locked THEN key ELSE NoKey,
            holders <- {p \in Outstanding : Locked /\ key = expireTime[p]}

\* The scripts implement the lease lock: a lease is granted only when none
\* is in force, and ends only by its holder's unlock or by the clock.
ImplementsLease == Lease!Spec
=============================================================================
