------------------------------ MODULE MCDrafts ------------------------------
(* Two interchangeable windows on one draft. *)
EXTENDS Drafts, TLC

CONSTANTS w1, w2

MCWindows == {w1, w2}
WindowSymmetry == Permutations(MCWindows)
=============================================================================
