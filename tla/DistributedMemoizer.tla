------------------------- MODULE DistributedMemoizer -------------------------
(***************************************************************************)
(* lib/distributed_memoizer.rb: a value computed once for all processes,   *)
(* kept in Redis, computed inside a DistributedMutex whose validity is     *)
(* MAX_WAIT.  A value is named by the process that computed it.            *)
(***************************************************************************)
EXTENDS DistributedMutex

CONSTANT MaxWait        \* MAX_WAIT

ASSUME MaxWaitAssumption == MaxWait \in Validities

VARIABLES
    memo,       \* the value under redis_key, NoValue when there is none
    block,      \* where a process is in the block it gave to synchronize
    overran     \* (history) a process computed beyond the end of its lock

memoVars == <<memo, block, overran>>
allVars == <<vars, memoVars>>

NoValue == "none"

MemoInit ==
    /\ Init
    /\ memo = NoValue
    /\ block = [p \in Procs |-> "outside"]
    /\ overran = FALSE

\* memoize: synchronize(redis_lock_key, redis: redis, validity: MAX_WAIT)
Memoize(p) ==
    /\ Begin(p, MaxWait)
    /\ UNCHANGED memoVars

Enter(p) ==
    /\ Lock(p)
    /\ block' = [block EXCEPT ![p] = "get"]
    /\ UNCHANGED <<memo, overran>>

Get_Ignored_M(p) ==
    /\ block[p] = "get"
    /\ block' = [block EXCEPT ![p] = "compute"]
    /\ UNCHANGED <<vars, memo, overran>>

\* result = redis.get(redis_key)
Get(p) ==
    /\ block[p] = "get"
    /\ block' = [block EXCEPT ![p] = IF memo = NoValue THEN "compute" ELSE "done"]
    /\ UNCHANGED <<vars, memo, overran>>

\* result = yield; redis.setex(redis_key, duration, result), which a
\* read-only Redis refuses
Compute(p) ==
    /\ block[p] = "compute"
    /\ memo' = IF redisReadonly THEN memo ELSE p
    /\ overran' = (overran \/ now > expireTime[p])
    /\ block' = [block EXCEPT ![p] = "done"]
    /\ UNCHANGED <<vars>>

ComputeFails_NoEnsure_M(p) ==
    /\ block[p] = "compute"
    /\ block' = [block EXCEPT ![p] = "outside"]
    /\ UNCHANGED <<vars, memo, overran>>

\* the computation raised: the ensure of synchronize runs
ComputeFails(p) ==
    /\ block[p] = "compute"
    /\ block' = [block EXCEPT ![p] = "done"]
    /\ UNCHANGED <<vars, memo, overran>>

LeaveBlock(p) ==
    /\ block[p] = "done"
    /\ ReadTime(p)
    /\ block' = [block EXCEPT ![p] = "outside"]
    /\ UNCHANGED <<memo, overran>>

Killed(p) ==
    /\ Crash(p)
    /\ block' = [block EXCEPT ![p] = "outside"]
    /\ UNCHANGED <<memo, overran>>

\* the duration of the memoized value is over
MemoExpires ==
    /\ memo # NoValue
    /\ memo' = NoValue
    /\ UNCHANGED <<vars, block, overran>>

MemoNext ==
    \/ MemoExpires
    \/ (Tick \/ KeyTTL \/ ToggleReadonly) /\ UNCHANGED memoVars
    \/ \E p \in Procs :
          \/ Memoize(p)
          \/ Enter(p)
          \/ (FailedAttempt(p) \/ Unlock(p)) /\ UNCHANGED memoVars
          \/ Get(p)
          \/ Compute(p)
          \/ ComputeFails(p)
          \/ LeaveBlock(p)
          \/ Killed(p)

MemoSpec == MemoInit /\ [][MemoNext]_allVars

-----------------------------------------------------------------------------
\* Types, and the block runs exactly while its process is inside synchronize.
MemoTypeOK ==
    /\ TypeOK
    /\ memo \in Procs \cup {NoValue}
    /\ overran \in BOOLEAN
    /\ \A p \in Procs : (block[p] # "outside") <=> (pc[p] = "critical")

\* A memoized value that is still there is replaced by another one only if
\* some process computed for longer than its lock was valid: between two
\* expirations everybody is served one value.
ReplacedOnlyAfterOverrun ==
    [][memo # NoValue /\ memo' \notin {memo, NoValue} => overran']_allVars
=============================================================================
