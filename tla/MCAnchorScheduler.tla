-------------------------- MODULE MCAnchorScheduler --------------------------
(***************************************************************************)
(* Small instances of AnchorScheduler for TLC.                             *)
(***************************************************************************)
EXTENDS AnchorScheduler

CONSTANTS host, operator, d1, d2
=============================================================================
