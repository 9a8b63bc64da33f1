------------------------------- MODULE MCIntake -------------------------------
(* A resumable upload of a file in chunks, completed by two callers, with  *)
(* another upload of the same content.                                     *)
EXTENDS Intake, TLC

CONSTANTS c1, c2, v1

Symmetry == Permutations(Callers)

=============================================================================
