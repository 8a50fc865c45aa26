------------------------ MODULE MCDistributedMemoizer ------------------------
(***************************************************************************)
(* Three processes that memoize one key.  memoize passes redis: to the     *)
(* mutex, so none of them counts as a user of the global Redis.            *)
(***************************************************************************)
EXTENDS DistributedMemoizer, TLC

CONSTANTS p1, p2, p3
MCProcs == {p1, p2, p3}
Symmetry == Permutations(MCProcs)
=============================================================================
