----------------------------- MODULE MCReadiness -----------------------------
(* Instances of Readiness for TLC. *)
EXTENDS Readiness
=============================================================================
