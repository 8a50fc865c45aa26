----------------------- MODULE DistributedMutex_proofs -----------------------
(***************************************************************************)
(* For any set of processes and any validities: synchronize is mutually    *)
(* exclusive between processes whose lock has not expired, and its scripts *)
(* implement a lease lock.                                                 *)
(***************************************************************************)
EXTENDS DistributedMutex, TLAPS

\* get_lock returned a number to whoever is past it
OutstandingHasTime == \A p \in Outstanding : expireTime[p] \in Nat

\* Mutual exclusion is not inductive by itself.  A step keeps it because an
\* in-date holder can see its own expire time in the key (so nobody else gets
\* the lock), and because outstanding expire times differ (so a late unlock
\* deletes nobody else's).
IInv ==
    /\ TypeOK
    /\ OutstandingHasTime
    /\ HolderOwnsKey
    /\ ExpireTimesDiffer

LEMMA InitIInv == Init => IInv
<1> SUFFICES ASSUME Init PROVE IInv
  OBVIOUS
<1>1. TypeOK
  <2>1. 0 \in 0..CheckReadonlyAttempts
    BY AttemptsAssumption
  <2>2. now \in Nat /\ key \in Nat \cup {NoKey}
    BY DEF Init
  <2>3. /\ pc \in [Procs -> States]
        /\ validity \in [Procs -> Nat]
        /\ attempts \in [Procs -> 0..CheckReadonlyAttempts]
        /\ expireTime \in [Procs -> Nat \cup {NoKey}]
        /\ currentTime \in [Procs -> Nat]
    BY <2>1 DEF Init, States
  <2>4. /\ redisReadonly \in BOOLEAN
        /\ seenReadonly \in [Procs -> BOOLEAN]
        /\ warned \in [Procs -> BOOLEAN]
    BY DEF Init
  <2>5. \A p \in Procs : pc[p] \notin {"critical", "unlock"} /\ expireTime[p] = NoKey
    BY DEF Init
  <2> QED
    BY <2>2, <2>3, <2>4, <2>5 DEF TypeOK
<1>2. Outstanding = {}
  BY DEF Init, Outstanding
<1> QED
  BY <1>1, <1>2 DEF IInv, OutstandingHasTime, HolderOwnsKey, ExpireTimesDiffer, InDate

\* Every step keeps the types.
LEMMA TypeStep == TypeOK /\ [Next]_vars => TypeOK'
<1> SUFFICES ASSUME TypeOK, [Next]_vars PROVE TypeOK'
  OBVIOUS
<1> USE DEF TypeOK, States, NoKey
<1>1. CASE Tick
  BY <1>1 DEF Tick
<1>2. CASE KeyTTL
  BY <1>2 DEF KeyTTL, KeyMayVanish
<1>3. CASE ToggleReadonly
  BY <1>3 DEF ToggleReadonly
<1>4. ASSUME NEW p \in Procs, Step(p) PROVE TypeOK'
  <2>1. ASSUME NEW v \in Validities, Begin(p, v) PROVE TypeOK'
    BY <2>1, ValiditiesAssumption DEF Begin, redisVars
  <2>2. CASE Lock(p)
    BY <2>2, AttemptsAssumption DEF Lock
  <2>3. CASE FailedAttempt(p)
    BY <2>3, AttemptsAssumption DEF FailedAttempt, Leave, NextAttempt, redisVars
  <2>4. CASE ReadTime(p)
    BY <2>4 DEF ReadTime, redisVars
  <2>5. CASE Unlock(p)
    BY <2>5, AttemptsAssumption DEF Unlock, Leave
  <2>6. CASE Crash(p)
    BY <2>6, AttemptsAssumption DEF Crash, Leave, redisVars
  <2>7. CASE RecentlyReadonly(p)
    BY <2>7 DEF RecentlyReadonly, redisVars
  <2> QED
    BY <1>4, <2>1, <2>2, <2>3, <2>4, <2>5, <2>6, <2>7 DEF Step
<1>5. CASE UNCHANGED vars
  BY <1>5 DEF vars
<1> QED
  BY <1>1, <1>2, <1>3, <1>4, <1>5 DEF Next

\* Every step keeps the inductive invariant.
LEMMA StepIInv == IInv /\ [Next]_vars => IInv'
<1> SUFFICES ASSUME IInv, [Next]_vars PROVE IInv'
  OBVIOUS
<1> USE DEF IInv, OutstandingHasTime, HolderOwnsKey, ExpireTimesDiffer,
            Outstanding, InDate
<1>0. TypeOK'
  BY TypeStep
<1> USE DEF TypeOK, NoKey
<1>1. CASE Tick
  BY <1>0, <1>1 DEF Tick
<1>2. CASE KeyTTL
  BY <1>0, <1>2 DEF KeyTTL, KeyMayVanish
<1>3. CASE ToggleReadonly
  BY <1>0, <1>3 DEF ToggleReadonly
<1>4. ASSUME NEW p \in Procs, Step(p) PROVE IInv'
  <2>1. ASSUME NEW v \in Validities, Begin(p, v) PROVE IInv'
    BY <1>0, <2>1 DEF Begin, redisVars
  <2>2. CASE Lock(p)
    <3>1. \A q \in Outstanding : expireTime[q] < now
      BY <2>2 DEF Lock, CanLock, Locked
    <3>2. /\ key' = expireTime'[p]
          /\ now' = now
          /\ Outstanding' = Outstanding \cup {p}
          /\ expireTime'[p] \in Nat
          /\ expireTime'[p] >= now
          /\ \A q \in Procs \ {p} : expireTime'[q] = expireTime[q]
      BY <2>2 DEF Lock
    <3> QED
      BY <1>0, <3>1, <3>2
  <2>3. CASE FailedAttempt(p)
    <3>1. /\ Outstanding' = Outstanding
          /\ now' = now /\ key' = key
          /\ \A q \in Outstanding : expireTime'[q] = expireTime[q]
      BY <2>3 DEF FailedAttempt, Leave, NextAttempt, redisVars
    <3> QED
      BY <1>0, <3>1
  <2>4. CASE ReadTime(p)
    BY <1>0, <2>4 DEF ReadTime, redisVars
  <2>5. CASE Unlock(p)
    <3>1. /\ Outstanding' = Outstanding \ {p}
          /\ p \in Outstanding
          /\ now' = now
          /\ \A q \in Procs \ {p} : expireTime'[q] = expireTime[q]
      BY <2>5 DEF Unlock, Leave
    <3>2. key' = key \/ key = expireTime[p]
      BY <2>5 DEF Unlock, CanUnlock
    <3> QED
      BY <1>0, <3>1, <3>2
  <2>6. CASE Crash(p)
    <3>1. /\ Outstanding' = Outstanding \ {p}
          /\ now' = now /\ key' = key
          /\ \A q \in Procs \ {p} : expireTime'[q] = expireTime[q]
      BY <2>6 DEF Crash, Leave, redisVars
    <3> QED
      BY <1>0, <3>1
  <2>7. CASE RecentlyReadonly(p)
    BY <1>0, <2>7 DEF RecentlyReadonly, redisVars
  <2> QED
    BY <1>4, <2>1, <2>2, <2>3, <2>4, <2>5, <2>6, <2>7 DEF Step
<1>5. CASE UNCHANGED vars
  BY <1>0, <1>5 DEF vars
<1> QED
  BY <1>1, <1>2, <1>3, <1>4, <1>5 DEF Next

\* IInv is inductive, hence invariant.
LEMMA Invariance == Spec => []IInv
<1> QED
  BY InitIInv, StepIInv, PTL DEF Spec

\* The types of the mutex's variables, for any constants.
THEOREM TypeCorrect == Spec => []TypeOK
<1>1. IInv => TypeOK
  BY DEF IInv
<1> QED
  BY <1>1, Invariance, PTL

\* Two processes are never both inside synchronize with a lock that has not
\* expired.
THEOREM Exclusion == Spec => []MutualExclusion
<1>1. IInv => MutualExclusion
  BY DEF IInv, MutualExclusion, HolderOwnsKey, ExpireTimesDiffer, InDate, Outstanding
<1> QED
  BY <1>1, Invariance, PTL

\* A holder in date finds its own expire time in the key, whatever other
\* holders, late unlocks and dead processes did to the key before.
THEOREM KeyIsHolders == Spec => []HolderOwnsKey
<1>1. IInv => HolderOwnsKey
  BY DEF IInv
<1> QED
  BY <1>1, Invariance, PTL

\* No late unlock can take another holder's key for its own: the expire times
\* of outstanding locks differ.
THEOREM LocksDiffer == Spec => []ExpireTimesDiffer
<1>1. IInv => ExpireTimesDiffer
  BY DEF IInv
<1> QED
  BY <1>1, Invariance, PTL

\* Only the holder's own unlock, or the clock, changes the key of a lock that
\* has not expired.
THEOREM OnlyHolder == Spec => OnlyHolderReleases
<1> DEFINE A == \A p \in InDate :
                  key' # key => \/ pc[p] = "unlock" /\ pc'[p] = "idle"
                                \/ now' > expireTime[p]
<1>1. IInv /\ [Next]_vars => [A]_vars
  <2> SUFFICES ASSUME IInv, Next, NEW p \in InDate, key' # key
               PROVE  \/ pc[p] = "unlock" /\ pc'[p] = "idle"
                      \/ now' > expireTime[p]
    OBVIOUS
  <2>1. /\ p \in Procs /\ key = expireTime[p] /\ now <= key /\ now \in Nat /\ key \in Nat
        /\ pc[p] \in {"critical", "unlock"}
    BY DEF IInv, TypeOK, OutstandingHasTime, HolderOwnsKey, InDate, Outstanding
  <2>2. CASE Tick
    BY <2>1, <2>2 DEF Tick
  <2>3. CASE KeyTTL
    BY <2>1, <2>3 DEF KeyTTL, KeyMayVanish
  <2>4. CASE ToggleReadonly
    BY <2>4 DEF ToggleReadonly
  <2>5. ASSUME NEW q \in Procs, Step(q) PROVE pc[p] = "unlock" /\ pc'[p] = "idle"
    <3>1. CASE Lock(q)
      BY <2>1, <3>1 DEF Lock, CanLock, Locked
    <3>2. CASE Unlock(q)
      <4>1. expireTime[q] = expireTime[p] /\ q \in Outstanding
        BY <2>1, <3>2 DEF Unlock, CanUnlock, Outstanding
      <4>2. q = p
        BY <4>1 DEF IInv, ExpireTimesDiffer, InDate
      <4> QED
        BY <2>1, <3>2, <4>2 DEF Unlock, Leave, IInv, TypeOK
    <3>3. CASE ~Lock(q) /\ ~Unlock(q)
      BY <2>5, <3>3 DEF Step, Begin, FailedAttempt, ReadTime, Crash, RecentlyReadonly, redisVars
    <3> QED
      BY <3>1, <3>2, <3>3
  <2> QED
    BY <2>2, <2>3, <2>4, <2>5 DEF Next
<1> QED
  BY <1>1, Invariance, PTL DEF Spec, OnlyHolderReleases

-----------------------------------------------------------------------------
(* The refinement: the barred variables of LeaseLock *)

Until == IF Locked THEN key ELSE NoKey
Holders == {p \in Outstanding : Locked /\ key = expireTime[p]}

\* Every step of the mutex is a step of the lease lock, or none.
LEMMA StepLease == IInv /\ [Next]_vars => [Lease!Next]_(Lease!leaseVars)
<1> SUFFICES ASSUME IInv, [Next]_vars
             PROVE  \/ Lease!Next
                    \/ now' = now /\ Until' = Until /\ Holders' = Holders
  BY DEF Lease!leaseVars, Until, Holders
<1> USE DEF IInv, TypeOK, NoKey, Lease!NoLease, Locked, Until, Holders, Outstanding
<1>1. CASE Tick
  <2>1. Lease!Tick
    BY <1>1 DEF Tick, Lease!Tick
  <2> QED
    BY <2>1 DEF Lease!Next
<1>2. CASE KeyTTL
  BY <1>2 DEF KeyTTL, KeyMayVanish
<1>3. CASE ToggleReadonly
  BY <1>3 DEF ToggleReadonly
<1>4. ASSUME NEW p \in Procs, Step(p)
      PROVE  \/ Lease!Next
             \/ now' = now /\ Until' = Until /\ Holders' = Holders
  <2>1. ASSUME NEW v \in Validities, Begin(p, v) PROVE Until' = Until /\ Holders' = Holders /\ now' = now
    BY <2>1 DEF Begin, redisVars
  <2>2. CASE Lock(p)
    <3>1. Until = NoKey /\ Until' = now + validity[p] /\ now' = now
      BY <2>2 DEF Lock, CanLock
    <3>2. \A q \in Outstanding : expireTime[q] < now
      BY <2>2 DEF Lock, CanLock, OutstandingHasTime, HolderOwnsKey, InDate
    <3>3. Holders' = {p}
      BY <2>2, <3>2 DEF Lock
    <3>4. Lease!Grant(p)
      BY <3>1, <3>3 DEF Lease!Grant
    <3> QED
      BY <3>4 DEF Lease!Next
  <2>3. CASE FailedAttempt(p)
    BY <2>3 DEF FailedAttempt, Leave, NextAttempt, redisVars
  <2>4. CASE ReadTime(p)
    BY <2>4 DEF ReadTime, redisVars
  <2>5. CASE Unlock(p)
    <3>1. CASE p \in Holders /\ ~redisReadonly
      <4>1. Until' = NoKey /\ Holders' = {}
        BY <2>5, <3>1 DEF Unlock, CanUnlock, Leave
      <4>2. Lease!Release(p)
        BY <2>5, <3>1, <4>1 DEF Unlock, Lease!Release
      <4> QED
        BY <4>2 DEF Lease!Next
    <3>2. CASE p \in Holders /\ redisReadonly
      <4>1. Until' = Until /\ Holders' = Holders \ {p} /\ now' = now
        BY <2>5, <3>2 DEF Unlock, CanUnlock, Leave
      <4>2. Lease!Abandon(p)
        BY <3>2, <4>1 DEF Lease!Abandon
      <4> QED
        BY <4>2 DEF Lease!Next
    <3>3. CASE p \notin Holders
      <4>1. key' = key \/ ~Locked
        BY <2>5, <3>3 DEF Unlock, CanUnlock
      <4>2. Until' = Until /\ now' = now
        BY <2>5, <4>1 DEF Unlock
      <4>3. Holders' = Holders
        BY <2>5, <3>3, <4>1 DEF Unlock, Leave
      <4> QED
        BY <4>2, <4>3
    <3> QED
      BY <3>1, <3>2, <3>3
  <2>6. CASE Crash(p)
    <3>1. Until' = Until /\ Holders' = Holders \ {p} /\ now' = now
      BY <2>6 DEF Crash, Leave, redisVars
    <3>2. p \in Holders => Lease!Abandon(p)
      BY <3>1 DEF Lease!Abandon
    <3> QED
      BY <3>1, <3>2 DEF Lease!Next
  <2>7. CASE RecentlyReadonly(p)
    BY <2>7 DEF RecentlyReadonly, redisVars
  <2> QED
    BY <1>4, <2>1, <2>2, <2>3, <2>4, <2>5, <2>6, <2>7 DEF Step
<1>5. CASE UNCHANGED vars
  BY <1>5 DEF vars
<1> QED
  BY <1>1, <1>2, <1>3, <1>4, <1>5 DEF Next

\* The two Lua scripts and the client around them implement the lease lock.
THEOREM LeaseRefinement == Spec => ImplementsLease
<1>1. Init => Lease!Init
  BY DEF Init, Lease!Init, Lease!NoLease, NoKey, Locked, Outstanding
<1> QED
  BY <1>1, Invariance, StepLease, PTL DEF Spec, ImplementsLease, Lease!Spec
=============================================================================
