--------------------- MODULE DistributedMemoizer_proofs ---------------------
(***************************************************************************)
(* For any number of processes: a memoized value is replaced only after    *)
(* some process computed beyond the end of its lock.  It follows from the  *)
(* mutual exclusion of the DistributedMutex that memoize uses.             *)
(***************************************************************************)
EXTENDS DistributedMemoizer, DistributedMutex_proofs

BlockRunsInside == \A p \in Procs : (block[p] # "outside") <=> (pc[p] = "critical")

\* Whoever computes while its lock is valid found no value, and none has been
\* stored since, unless somebody overran.
ComputesOnce ==
    \A p \in InDate : block[p] = "compute" => memo = NoValue \/ overran

MemoTypes ==
    /\ block \in [Procs -> {"outside", "get", "compute", "done"}]
    /\ memo \in Procs \cup {NoValue}
    /\ overran \in BOOLEAN

MemoIInv == IInv /\ MemoTypes /\ BlockRunsInside /\ ComputesOnce

\* What memoize does to the mutex is what any caller of synchronize does.
LEMMA MutexStep == [MemoNext]_allVars => [Next]_vars
<1> SUFFICES ASSUME MemoNext PROVE Next \/ UNCHANGED vars
  BY DEF allVars
<1>1. ASSUME NEW p \in Procs, Memoize(p) PROVE Next
  BY <1>1, MaxWaitAssumption DEF Memoize, Next, Step
<1>2. ASSUME NEW p \in Procs, Enter(p) \/ FailedAttempt(p) \/ Unlock(p) \/ LeaveBlock(p) \/ Killed(p)
      PROVE  Next
  BY <1>2 DEF Enter, LeaveBlock, Killed, Next, Step
<1>3. ASSUME NEW p \in Procs, Get(p) \/ Compute(p) \/ ComputeFails(p) PROVE UNCHANGED vars
  BY <1>3 DEF Get, Compute, ComputeFails
<1> QED
  BY <1>1, <1>2, <1>3 DEF MemoNext, MemoExpires, Next

LEMMA MemoInitIInv == MemoInit => MemoIInv
<1> SUFFICES ASSUME MemoInit PROVE MemoIInv
  OBVIOUS
<1>1. IInv
  BY InitIInv DEF MemoInit
<1> QED
  BY <1>1 DEF MemoInit, Init, MemoIInv, MemoTypes, BlockRunsInside, ComputesOnce

\* A lock that is in date was in date before, with the same expire time.
LEMMA StillInDate ==
    ASSUME IInv, [Next]_vars, NEW p \in Procs, p \in InDate', pc[p] = "critical"
    PROVE  p \in InDate
<1>1. expireTime'[p] \in {expireTime[p], NoKey} /\ now' \in {now, now + 1}
  <2>1. ASSUME NEW q \in Procs, Step(q) PROVE expireTime'[p] \in {expireTime[p], NoKey} /\ now' = now
    BY <2>1 DEF Step, Begin, Lock, FailedAttempt, ReadTime, Unlock, Crash, RecentlyReadonly,
                Leave, redisVars, IInv, TypeOK
  <2> QED
    BY <2>1 DEF Next, Tick, KeyTTL, ToggleReadonly, vars
<1>2. now \in Nat /\ expireTime[p] \in Nat
  BY DEF IInv, TypeOK, OutstandingHasTime, Outstanding
<1> QED
  BY <1>1, <1>2 DEF InDate, Outstanding, NoKey

LEMMA MemoNextIInv == MemoIInv /\ [MemoNext]_allVars => MemoIInv'
<1> SUFFICES ASSUME MemoIInv, [MemoNext]_allVars PROVE MemoIInv'
  OBVIOUS
<1>1. [Next]_vars /\ IInv'
  BY MutexStep, StepIInv DEF MemoIInv
<1>2. IInv /\ TypeOK /\ MemoTypes /\ BlockRunsInside /\ ComputesOnce
  BY DEF MemoIInv, IInv
\* steps that leave the memoized value alone and start no computation
<1>3. ASSUME memo' \in {memo, NoValue}, overran' = overran, MemoTypes', BlockRunsInside',
             \A p \in Procs : block'[p] = "compute" => block[p] = "compute"
      PROVE  MemoIInv'
  <2>1. ASSUME NEW p \in InDate', block'[p] = "compute" PROVE memo' = NoValue \/ overran'
    <3>1. p \in Procs /\ block[p] = "compute" /\ pc[p] = "critical"
      BY <1>2, <1>3, <2>1 DEF InDate, Outstanding, BlockRunsInside
    <3>2. p \in InDate
      BY <1>1, <1>2, <2>1, <3>1, StillInDate
    <3> QED
      BY <1>2, <1>3, <3>1, <3>2 DEF ComputesOnce
  <2> QED
    BY <1>1, <1>3, <2>1 DEF MemoIInv, ComputesOnce
<1>4. CASE UNCHANGED allVars
  BY <1>2, <1>3, <1>4 DEF allVars, memoVars, vars, MemoTypes, BlockRunsInside
<1>5. CASE MemoExpires
  BY <1>2, <1>3, <1>5 DEF MemoExpires, vars, MemoTypes, BlockRunsInside
<1>6. CASE (Tick \/ KeyTTL \/ ToggleReadonly) /\ UNCHANGED memoVars
  BY <1>2, <1>3, <1>6 DEF Tick, KeyTTL, ToggleReadonly, memoVars, MemoTypes, BlockRunsInside
<1>7. ASSUME NEW p \in Procs, Memoize(p) PROVE MemoIInv'
  BY <1>2, <1>3, <1>7 DEF Memoize, Begin, memoVars, MemoTypes, BlockRunsInside, TypeOK
<1>8. ASSUME NEW p \in Procs, Enter(p) PROVE MemoIInv'
  BY <1>2, <1>3, <1>8 DEF Enter, Lock, MemoTypes, BlockRunsInside, TypeOK
<1>9. ASSUME NEW p \in Procs, (FailedAttempt(p) \/ Unlock(p)) /\ UNCHANGED memoVars PROVE MemoIInv'
  BY <1>2, <1>3, <1>9 DEF FailedAttempt, Unlock, Leave, memoVars, MemoTypes, BlockRunsInside, TypeOK
<1>10. ASSUME NEW p \in Procs, Get(p) PROVE MemoIInv'
  <2>1. MemoTypes' /\ BlockRunsInside'
    BY <1>2, <1>10 DEF Get, vars, MemoTypes, BlockRunsInside
  <2>2. ComputesOnce'
    <3>1. InDate' = InDate
      BY <1>10 DEF Get, vars, InDate, Outstanding
    <3> QED
      BY <1>2, <1>10, <3>1 DEF Get, MemoTypes, ComputesOnce, InDate, Outstanding
  <2> QED
    BY <1>1, <2>1, <2>2 DEF MemoIInv
<1>11. ASSUME NEW p \in Procs, Compute(p) PROVE MemoIInv'
  <2>1. MemoTypes' /\ BlockRunsInside'
    BY <1>2, <1>11 DEF Compute, vars, MemoTypes, BlockRunsInside
  <2>2. ComputesOnce'
    <3> SUFFICES ASSUME NEW q \in InDate', block'[q] = "compute", ~overran'
                 PROVE  memo' = NoValue
      BY DEF ComputesOnce
    <3>1. q \in InDate /\ block[q] = "compute" /\ q # p /\ p \in Procs
      BY <1>2, <1>11 DEF Compute, vars, InDate, Outstanding, MemoTypes
    <3>2. p \in InDate
      <4>1. p \in Outstanding
        BY <1>2, <1>11 DEF Compute, BlockRunsInside, Outstanding, MemoTypes
      <4>2. expireTime[p] \in Nat /\ now \in Nat
        BY <1>2, <4>1 DEF OutstandingHasTime, IInv, TypeOK
      <4>3. ~(now > expireTime[p])
        BY <1>11 DEF Compute
      <4> QED
        BY <4>1, <4>2, <4>3 DEF InDate
    <3>3. FALSE
      BY <1>2, <3>1, <3>2 DEF IInv, HolderOwnsKey, ExpireTimesDiffer, InDate
    <3> QED
      BY <3>3
  <2> QED
    BY <1>1, <2>1, <2>2 DEF MemoIInv
<1>12. ASSUME NEW p \in Procs, ComputeFails(p) PROVE MemoIInv'
  BY <1>2, <1>3, <1>12 DEF ComputeFails, vars, MemoTypes, BlockRunsInside
<1>13. ASSUME NEW p \in Procs, LeaveBlock(p) \/ Killed(p) PROVE MemoIInv'
  BY <1>2, <1>3, <1>13 DEF LeaveBlock, Killed, ReadTime, Crash, Leave, MemoTypes,
                           BlockRunsInside, TypeOK
<1> QED
  BY <1>4, <1>5, <1>6, <1>7, <1>8, <1>9, <1>10, <1>11, <1>12, <1>13 DEF MemoNext

LEMMA MemoInvariance == MemoSpec => []MemoIInv
BY MemoInitIInv, MemoNextIInv, PTL DEF MemoSpec

\* The types of the memoizer, and the block runs exactly while its process is
\* inside synchronize, for any number of processes.
THEOREM MemoTypeCorrect == MemoSpec => []MemoTypeOK
<1>1. MemoIInv => MemoTypeOK
  BY DEF MemoIInv, IInv, MemoTypes, BlockRunsInside, MemoTypeOK
<1> QED
  BY <1>1, MemoInvariance, PTL

\* Between two expirations everybody is served one value, unless a computation
\* outlived its lock (distributed_memoizer.rb:12-18).
THEOREM ValueKept == MemoSpec => ReplacedOnlyAfterOverrun
<1> DEFINE A == memo # NoValue /\ memo' \notin {memo, NoValue} => overran'
<1>1. MemoIInv /\ [MemoNext]_allVars => [A]_allVars
  <2> SUFFICES ASSUME MemoIInv, MemoNext, memo # NoValue, memo' \notin {memo, NoValue}
               PROVE  overran'
    OBVIOUS
  <2>1. PICK p \in Procs : Compute(p)
    BY DEF MemoNext, MemoExpires, memoVars, Memoize, Enter, Get, ComputeFails, LeaveBlock, Killed
  <2>2. CASE now > expireTime[p]
    BY <2>1, <2>2 DEF Compute
  <2>3. CASE ~(now > expireTime[p])
    <3>1. p \in InDate /\ block[p] = "compute"
      BY <2>1, <2>3 DEF Compute, MemoIInv, IInv, TypeOK, OutstandingHasTime, BlockRunsInside,
                        InDate, Outstanding
    <3>2. overran
      BY <3>1 DEF MemoIInv, ComputesOnce
    <3> QED
      BY <2>1, <3>2 DEF Compute
  <2> QED
    BY <2>2, <2>3
<1> QED
  BY <1>1, MemoInvariance, PTL DEF MemoSpec, ReplacedOnlyAfterOverrun
=============================================================================
