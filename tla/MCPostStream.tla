----------------------------- MODULE MCPostStream -----------------------------
(***************************************************************************)
(* Instances of PostStream for TLC.  MCPostStream: a window of two posts   *)
(* in the beginning, two more that are created, one deletion.              *)
(* MCPostStreamJump: three posts that are loaded one by one.               *)
(***************************************************************************)
EXTENDS PostStream
=============================================================================
