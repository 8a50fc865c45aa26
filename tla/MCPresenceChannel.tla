-------------------------- MODULE MCPresenceChannel --------------------------
(* Two processes; one user with two sessions and one with a single session.  *)
(* The processes may be exchanged, and so may the sessions of the first user. *)
EXTENDS PresenceChannel, TLC

CONSTANTS p1, p2, u1, u2, c1, c2, c3
MCSessions == {<<u1, c1>>, <<u1, c2>>, <<u2, c3>>}
Symmetry == Permutations({p1, p2}) \cup Permutations({c1, c2})
=============================================================================
