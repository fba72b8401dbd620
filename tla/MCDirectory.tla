---------------------------- MODULE MCDirectory ----------------------------
(***************************************************************************)
(* Values of the constants of Directory for model checking.                *)
(***************************************************************************)
EXTENDS Directory

CONSTANTS b1, b2, s1, s2
=============================================================================
