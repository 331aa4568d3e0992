--------------------------- MODULE MCCalibration ---------------------------
(***************************************************************************)
(* A small instance of Calibration for TLC: one deliberation the agent     *)
(* initiates and one it takes part in, one peer in another domain.         *)
(***************************************************************************)
EXTENDS Calibration

CONSTANTS self, peer, s1, s2, s3

MCDomainOf == [a \in {self, peer} |-> IF a = self THEN "code" ELSE "tests"]

\* Two successes that differ in the fifth decimal, and another.
MCDecimals == [s \in {s1, s2, s3} |-> IF s = s3 THEN "0" ELSE "1"]

\* What outcomes say is only compared.
Symmetry == Permutations({s1, s2})
=============================================================================
