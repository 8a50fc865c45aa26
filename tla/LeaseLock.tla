------------------------------ MODULE LeaseLock ------------------------------
(***************************************************************************)
(* What a caller of DistributedMutex.synchronize may rely on, without any  *)
(* Redis: a lock is a lease.  It is granted only when no lease is in       *)
(* force, to one process, until some second; it ends when its holder gives *)
(* it back or when the clock passes that second.  A holder that dies       *)
(* abandons the lease, which then stays in force until its second.         *)
(***************************************************************************)
EXTENDS Integers

CONSTANT Procs

VARIABLES
    clock,      \* seconds
    until,      \* last second of the lease in force, NoLease when there is none
    holders     \* the processes that hold the lease in force

leaseVars == <<clock, until, holders>>

NoLease == -1

Init ==
    /\ clock \in Nat
    /\ until = NoLease
    /\ holders = {}

Grant(p) ==
    /\ until = NoLease
    /\ until' \in Nat
    /\ until' >= clock
    /\ holders' = {p}
    /\ UNCHANGED clock

Release(p) ==
    /\ p \in holders
    /\ until' = NoLease
    /\ holders' = {}
    /\ UNCHANGED clock

Abandon(p) ==
    /\ p \in holders
    /\ holders' = holders \ {p}
    /\ UNCHANGED <<clock, until>>

Tick ==
    /\ clock' = clock + 1
    /\ \/ clock' <= until /\ UNCHANGED <<until, holders>>
       \/ clock' > until /\ until' = NoLease /\ holders' = {}

Next ==
    \/ Tick
    \/ \E p \in Procs : Grant(p) \/ Release(p) \/ Abandon(p)

Spec == Init /\ [][Next]_leaseVars
=============================================================================
