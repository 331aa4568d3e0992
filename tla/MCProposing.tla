----------------------------- MODULE MCProposing -----------------------------
(***************************************************************************)
(* A small instance of Proposing for TLC.  A confidence of 120 percent     *)
(* stands for those that are out of range, and NaN for what is not finite. *)
(***************************************************************************)
EXTENDS Proposing

CONSTANTS c1, c2, NaN
=============================================================================
