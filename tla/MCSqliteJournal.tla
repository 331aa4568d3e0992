--------------------------- MODULE MCSqliteJournal ---------------------------
(***************************************************************************)
(* Small instances of SqliteJournal for TLC.                               *)
(***************************************************************************)
EXTENDS SqliteJournal, TLC

CONSTANTS x, y

\* The two deliberations are alike.
Symmetry == Permutations({x, y})
=============================================================================
