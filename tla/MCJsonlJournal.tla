--------------------------- MODULE MCJsonlJournal ---------------------------
(***************************************************************************)
(* Small instances of JsonlJournal for TLC.                                *)
(***************************************************************************)
EXTENDS JsonlJournal, TLC

CONSTANTS x, y

\* The two deliberations are alike.
Symmetry == Permutations({x, y})
=============================================================================
