---------------------------- MODULE MCPeerHashes ----------------------------
(* Instances of PeerHashes for TLC. *)
EXTENDS PeerHashes
=============================================================================
