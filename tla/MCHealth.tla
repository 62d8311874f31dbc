------------------------------ MODULE MCHealth ------------------------------
(* Instances of Health for TLC. *)
EXTENDS Health, TLC

\* Setters are only compared for equality.
HealthSymmetry == Permutations(Setters)
=============================================================================
