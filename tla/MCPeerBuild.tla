----------------------------- MODULE MCPeerBuild -----------------------------
(* Instances of PeerBuild for TLC. *)
EXTENDS PeerBuild, TLC

CONSTANTS x   \* a peer name

Entry(name, kind, url) == [name |-> name, kind |-> kind, url |-> url]

\* No peer; one of each kind; one name twice, with different kinds; a peer
\* without URL; a peer without name.
SomeTopologies ==
    {<<>>,
     <<Entry(x, "", TRUE)>>,
     <<Entry(x, "External", TRUE)>>,
     <<Entry(x, "External", TRUE), Entry(x, "Managed", TRUE)>>,
     <<Entry(x, "Managed", FALSE), Entry(Blank, "External", TRUE)>>}

\* Two keys that differ in case only, and a bad value.
SomeHeaders ==
    {[key |-> "key", lower |-> "key", okKey |-> TRUE, okValue |-> TRUE],
     [key |-> "Key", lower |-> "key", okKey |-> TRUE, okValue |-> TRUE],
     [key |-> "other", lower |-> "other", okKey |-> TRUE, okValue |-> FALSE]}

\* Goroutines are only compared for equality.
BuildSymmetry == Permutations(Goroutines)
=============================================================================
