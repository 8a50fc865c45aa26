----------------------------- MODULE MCAuthTokens -----------------------------
(* Three requests of one browser. *)
EXTENDS AuthTokens, TLC

CONSTANTS r1, r2, r3
Symmetry == Permutations({r1, r2, r3})
=============================================================================
