------------------------- MODULE MCDistributedMutex -------------------------
(***************************************************************************)
(* A small instance of DistributedMutex for TLC.  Time without end and     *)
(* callers without end are cut down to finitely many calls (MaxCalls), and *)
(* to a clock that moves only while a lock is in force or its key is still *)
(* there: other seconds change nothing an attempt waits for.               *)
(***************************************************************************)
EXTENDS DistributedMutex

CONSTANT MaxCalls
VARIABLE calls      \* calls of synchronize so far

liveVars == <<vars, calls>>

LiveInit == Init /\ calls = 0

LiveBegin(p, v) == calls < MaxCalls /\ calls' = calls + 1 /\ Begin(p, v)

LiveTick == key # NoKey /\ Tick /\ UNCHANGED calls

Attempt(p) == (Lock(p) \/ FailedAttempt(p)) /\ UNCHANGED calls

LiveNext ==
    \/ LiveTick
    \/ (KeyTTL \/ ToggleReadonly) /\ UNCHANGED calls
    \/ \E p \in Procs :
          \/ \E v \in Validities : LiveBegin(p, v)
          \/ Attempt(p)
          \/ (ReadTime(p) \/ Unlock(p) \/ Crash(p) \/ RecentlyReadonly(p)) /\ UNCHANGED calls

\* The clock goes on and get_lock goes round its loop.  Nothing is assumed of
\* a process inside the block: it may stay there, or die.
LiveSpec ==
    /\ LiveInit
    /\ [][LiveNext]_liveVars
    /\ WF_liveVars(LiveTick)
    /\ \A p \in Procs : WF_liveVars(Attempt(p))

\* get_lock ends, with the lock or with Discourse::ReadOnly, although holders
\* die or never leave their block and Redis may refuse writes from some moment
\* on for ever: the key expires, and in read-only mode attempts run out.
GetLockEnds == \A p \in GlobalRedis : (pc[p] = "get_lock") ~> (pc[p] # "get_lock")
=============================================================================
