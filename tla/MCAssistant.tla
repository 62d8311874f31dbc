----------------------------- MODULE MCAssistant -----------------------------
(* Instances of Assistant for TLC. *)
EXTENDS Assistant
=============================================================================
