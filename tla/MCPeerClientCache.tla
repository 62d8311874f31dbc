-------------------------- MODULE MCPeerClientCache --------------------------
(* Instances of PeerClientCache for TLC. *)
EXTENDS PeerClientCache
==============================================================================
