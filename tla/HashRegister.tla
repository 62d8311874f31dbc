---------------------------- MODULE HashRegister ----------------------------
(***************************************************************************)
(* What recordPeerHash (pkg/client/hash.go) promises the broker that reads *)
(* the peer-hashes file: the file is a register holding one entry per      *)
(* peer.  A call takes effect at one instant and changes only its own      *)
(* peer's entry, or it fails and changes nothing.  A process clears the    *)
(* register once, before its first call takes effect; the clearing is best *)
(* effort.  A restart drops the calls under way and keeps the register.    *)
(***************************************************************************)
CONSTANTS Goroutines, Peers, Entry, NoEntry, NoCall

VARIABLES
    reg,      \* the entry of each peer, or NoEntry
    pending,  \* the call each goroutine has under way, or NoCall
    ret,      \* what its last call returned: "none", "nil" or "err"
    cleared   \* this process has tried to clear the register

vars == <<reg, pending, ret, cleared>>

Empty == [p \in Peers |-> NoEntry]

Init ==
    /\ reg = Empty
    /\ pending = [g \in Goroutines |-> NoCall]
    /\ ret = [g \in Goroutines |-> "none"]
    /\ cleared = FALSE

Call(g) ==
    /\ pending[g] = NoCall
    /\ \E p \in Peers, v \in Entry :
          pending' = [pending EXCEPT ![g] = [peer |-> p, val |-> v]]
    /\ ret' = [ret EXCEPT ![g] = "none"]
    /\ UNCHANGED <<reg, cleared>>

\* The card cannot be hashed, or there is no pod and so no broker.
ReturnEarly(g) ==
    /\ pending[g] = NoCall
    /\ \E r \in {"nil", "err"} : ret' = [ret EXCEPT ![g] = r]
    /\ UNCHANGED <<reg, pending, cleared>>

Clear ==
    /\ ~ cleared
    /\ cleared' = TRUE
    /\ reg' \in {Empty, reg}
    /\ UNCHANGED <<pending, ret>>

TakeEffect(g) ==
    /\ pending[g] # NoCall
    /\ cleared
    /\ reg' = [reg EXCEPT ![pending[g].peer] = pending[g].val]
    /\ pending' = [pending EXCEPT ![g] = NoCall]
    /\ ret' = [ret EXCEPT ![g] = "nil"]
    /\ UNCHANGED cleared

Fail(g) ==
    /\ pending[g] # NoCall
    /\ cleared
    /\ pending' = [pending EXCEPT ![g] = NoCall]
    /\ ret' = [ret EXCEPT ![g] = "err"]
    /\ UNCHANGED <<reg, cleared>>

Restart ==
    /\ pending' = [g \in Goroutines |-> NoCall]
    /\ ret' = [g \in Goroutines |-> "none"]
    /\ cleared' = FALSE
    /\ UNCHANGED reg

Next ==
    \/ \E g \in Goroutines : Call(g) \/ ReturnEarly(g) \/ TakeEffect(g) \/ Fail(g)
    \/ Clear
    \/ Restart

Spec == Init /\ [][Next]_vars
=============================================================================
