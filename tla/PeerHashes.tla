----------------------------- MODULE PeerHashes -----------------------------
(***************************************************************************)
(* The peer-hashes file (pkg/client/hash.go): recordPeerHash, called by    *)
(* the builders of peer clients, reads the file, sets one peer's entry and *)
(* replaces the file through a temporary one.  peerHashesMu serialises     *)
(* this, peerHashesInit removes the file of an earlier process once.  Any  *)
(* file operation may fail, the process may crash between any two steps    *)
(* and be restarted, and the broker may read the file at any time.         *)
(***************************************************************************)
EXTENDS Integers

CONSTANTS
    Goroutines,      \* callers of recordPeerHash
    Peers,           \* peer names
    Hashes,          \* digests of AgentCards
    NoEntry,         \* the file has no entry for a peer
    Absent,          \* there is no such file
    Torn,            \* a file that holds less than was to be written
    NoCall,          \* a goroutine that is in no call
    Nobody,          \* peerHashesMu is free
    MaxIncarnation   \* bound: processes that run one after the other

\* An entry of the file.  incarnation stands for observedAt: it tells which
\* process wrote the entry.
Entry    == [hash : Hashes, incarnation : 1 .. MaxIncarnation]
Contents == [Peers -> Entry \cup {NoEntry}]
Call     == [peer : Peers, val : Entry]

ASSUME HashesAssumption ==
    /\ MaxIncarnation \in Nat \ {0}
    /\ NoEntry \notin Entry
    /\ Absent # Torn
    /\ Absent \notin Contents
    /\ Torn \notin Contents
    /\ NoCall \notin Call
    /\ Nobody \notin Goroutines

VARIABLES
    file,           \* what is at peerHashesPath
    tmp,            \* the temporary file of each goroutine
    peerHashesInit, \* the sync.Once: "new", "running" or "done"
    peerHashesMu,   \* its holder, or Nobody
    pc,             \* where each goroutine is
    call,           \* its arguments, or NoCall once the outcome is known
    hashes,         \* the map it read and updated
    ret,            \* what its last call returned
    inPod,          \* POD_NAME is set
    incarnation,    \* number of this process
    clearFailed,    \* history: this process could not remove the old file
    recorded        \* history: peers this process recorded successfully

fileVars == <<file, tmp>>
callVars == <<pc, call, hashes, ret>>
procVars == <<inPod, incarnation>>
pastVars == <<clearFailed, recorded>>
vars     == <<fileVars, peerHashesInit, peerHashesMu, callVars, procVars,
              pastVars>>

Empty == [p \in Peers |-> NoEntry]

Init ==
    /\ file = Absent
    /\ tmp = [g \in Goroutines |-> Absent]
    /\ peerHashesInit = "new"
    /\ peerHashesMu = Nobody
    /\ pc = [g \in Goroutines |-> "idle"]
    /\ call = [g \in Goroutines |-> NoCall]
    /\ hashes = [g \in Goroutines |-> Empty]
    /\ ret = [g \in Goroutines |-> "none"]
    /\ inPod \in BOOLEAN
    /\ incarnation = 1
    /\ clearFailed = FALSE
    /\ recorded = {}

Goto(g, from, to) ==
    /\ pc[g] = from
    /\ pc' = [pc EXCEPT ![g] = to]

------------------------------------------------------------------------------
(***************************************************************************)
(* recordPeerHash.                                                         *)
(***************************************************************************)

\* Mutant: observedAt keeps its zero value.
Begin_ZeroTime(g, p, h) ==
    /\ inPod
    /\ Goto(g, "idle", "init")
    /\ call' = [call EXCEPT ![g] =
           [peer |-> p, val |-> [hash |-> h, incarnation |-> 0]]]
    /\ ret' = [ret EXCEPT ![g] = "none"]
    /\ UNCHANGED <<fileVars, peerHashesInit, peerHashesMu, hashes, procVars,
                   pastVars>>

\* In a pod, the card is hashed and observedAt taken.
Begin(g, p, h) ==
    /\ inPod
    /\ Goto(g, "idle", "init")
    /\ call' = [call EXCEPT ![g] =
           [peer |-> p, val |-> [hash |-> h, incarnation |-> incarnation]]]
    /\ ret' = [ret EXCEPT ![g] = "none"]
    /\ UNCHANGED <<fileVars, peerHashesInit, peerHashesMu, hashes, procVars,
                   pastVars>>

\* Outside a pod nothing is done; a card that cannot be hashed is an error.
ReturnEarly(g) ==
    /\ pc[g] = "idle"
    /\ ret' = [ret EXCEPT ![g] = IF inPod THEN "err" ELSE "nil"]
    /\ UNCHANGED <<fileVars, peerHashesInit, peerHashesMu, pc, call, hashes,
                   procVars, pastVars>>

\* peerHashesInit.Do, first caller: it runs the closure.
BeginClear(g) ==
    /\ Goto(g, "init", "clear")
    /\ peerHashesInit = "new"
    /\ peerHashesInit' = "running"
    /\ UNCHANGED <<fileVars, peerHashesMu, call, hashes, ret, procVars,
                   pastVars>>

\* os.Remove(peerHashesPath), its error ignored.
Remove(g) ==
    /\ Goto(g, "clear", "lock")
    /\ peerHashesInit' = "done"
    /\ \/ file' = Absent /\ UNCHANGED clearFailed
       \/ file # Absent /\ clearFailed' = TRUE /\ UNCHANGED file
    /\ UNCHANGED <<tmp, peerHashesMu, call, hashes, ret, procVars, recorded>>

\* Mutant: a flag in place of the sync.Once, set before the file is removed.
JoinClear_NoWait(g) ==
    /\ Goto(g, "init", "lock")
    /\ peerHashesInit # "new"
    /\ UNCHANGED <<fileVars, peerHashesInit, peerHashesMu, call, hashes, ret,
                   procVars, pastVars>>

\* peerHashesInit.Do, any other caller: it waits until the closure has run.
JoinClear(g) ==
    /\ Goto(g, "init", "lock")
    /\ peerHashesInit = "done"
    /\ UNCHANGED <<fileVars, peerHashesInit, peerHashesMu, call, hashes, ret,
                   procVars, pastVars>>

\* Mutant: the lock excludes nobody (a read lock, or one per peer).
Lock_Shared(g) ==
    /\ Goto(g, "lock", "read")
    /\ peerHashesMu' = g
    /\ UNCHANGED <<fileVars, peerHashesInit, call, hashes, ret, procVars,
                   pastVars>>

Lock(g) ==
    /\ Goto(g, "lock", "read")
    /\ peerHashesMu = Nobody
    /\ peerHashesMu' = g
    /\ UNCHANGED <<fileVars, peerHashesInit, call, hashes, ret, procVars,
                   pastVars>>

\* readPeerHashes, then hashes[name] = entry.  A file that is not there is an
\* empty map, one that is not JSON an error.
Read(g) ==
    /\ Goto(g, "read", "create")
    /\ file # Torn
    /\ LET old == IF file = Absent THEN Empty ELSE file
       IN  hashes' = [hashes EXCEPT
               ![g] = [old EXCEPT ![call[g].peer] = call[g].val]]
    /\ UNCHANGED <<fileVars, peerHashesInit, peerHashesMu, call, ret, procVars,
                   pastVars>>

\* Mutant: the file is truncated and written in place.
CreateTemp_InPlace(g) ==
    /\ Goto(g, "create", "write")
    /\ tmp' = [tmp EXCEPT ![g] = Torn]
    /\ file' = Torn
    /\ UNCHANGED <<peerHashesInit, peerHashesMu, call, hashes, ret, procVars,
                   pastVars>>

\* writePeerHashes: os.CreateTemp makes an empty file next to the real one.
CreateTemp(g) ==
    /\ Goto(g, "create", "write")
    /\ tmp' = [tmp EXCEPT ![g] = Torn]
    /\ UNCHANGED <<file, peerHashesInit, peerHashesMu, call, hashes, ret, procVars,
                   pastVars>>

\* tmp.Write, tmp.Close and os.Chmod succeed.
WriteTemp(g) ==
    /\ Goto(g, "write", "rename")
    /\ tmp' = [tmp EXCEPT ![g] = hashes[g]]
    /\ UNCHANGED <<file, peerHashesInit, peerHashesMu, call, hashes, ret, procVars,
                   pastVars>>

\* os.Rename: the temporary file becomes the file.
Rename(g) ==
    /\ Goto(g, "rename", "unlock")
    /\ file' = tmp[g]
    /\ tmp' = [tmp EXCEPT ![g] = Absent]
    /\ ret' = [ret EXCEPT ![g] = "nil"]
    /\ recorded' = recorded \cup {call[g].peer}
    /\ call' = [call EXCEPT ![g] = NoCall]
    /\ UNCHANGED <<peerHashesInit, peerHashesMu, hashes, procVars, clearFailed>>

\* Mutants of Fail: it leaves the temporary file; it tries again while
\* it holds the lock.
Fail_KeepsTemp(g) ==
    /\ pc[g] \in {"read", "create", "write", "rename"}
    /\ pc' = [pc EXCEPT ![g] = "unlock"]
    /\ ret' = [ret EXCEPT ![g] = "err"]
    /\ call' = [call EXCEPT ![g] = NoCall]
    /\ UNCHANGED <<fileVars, peerHashesInit, peerHashesMu, hashes, procVars,
                   pastVars>>
Fail_Retries(g) ==
    /\ pc[g] \in {"read", "create", "write", "rename"}
    /\ pc' = [pc EXCEPT ![g] = "read"]
    /\ tmp' = [tmp EXCEPT ![g] = Absent]
    /\ UNCHANGED <<file, peerHashesInit, peerHashesMu, call, hashes, ret,
                   procVars, pastVars>>

\* A file operation fails: the temporary file, if there is one, is removed
\* and the error returned.
Fail(g) ==
    /\ pc[g] \in {"read", "create", "write", "rename"}
    /\ pc' = [pc EXCEPT ![g] = "unlock"]
    /\ tmp' = [tmp EXCEPT ![g] = Absent]
    /\ ret' = [ret EXCEPT ![g] = "err"]
    /\ call' = [call EXCEPT ![g] = NoCall]
    /\ UNCHANGED <<file, peerHashesInit, peerHashesMu, hashes, procVars,
                   pastVars>>

\* The deferred peerHashesMu.Unlock, on every path.
Unlock(g) ==
    /\ Goto(g, "unlock", "idle")
    /\ peerHashesMu' = Nobody
    /\ UNCHANGED <<fileVars, peerHashesInit, call, hashes, ret, procVars,
                   pastVars>>

------------------------------------------------------------------------------

\* The process ends between any two steps and a new one starts: the file stays
\* and memory does not.  A temporary file stays as well, under a name that
\* nothing reads again, and leaves the model.
Crash ==
    /\ incarnation < MaxIncarnation
    /\ incarnation' = incarnation + 1
    /\ tmp' = [g \in Goroutines |-> Absent]
    /\ peerHashesInit' = "new"
    /\ peerHashesMu' = Nobody
    /\ pc' = [g \in Goroutines |-> "idle"]
    /\ call' = [g \in Goroutines |-> NoCall]
    /\ hashes' = [g \in Goroutines |-> Empty]
    /\ ret' = [g \in Goroutines |-> "none"]
    /\ clearFailed' = FALSE
    /\ recorded' = {}
    /\ UNCHANGED <<file, inPod>>

\* A step of a call that is under way.
CallStep(g) ==
    \/ BeginClear(g)
    \/ Remove(g)
    \/ JoinClear(g)
    \/ Lock(g)
    \/ Read(g)
    \/ CreateTemp(g)
    \/ WriteTemp(g)
    \/ Rename(g)
    \/ Fail(g)
    \/ Unlock(g)

Next ==
    \/ \E g \in Goroutines :
          \/ CallStep(g)
          \/ ReturnEarly(g)
          \/ \E p \in Peers, h \in Hashes : Begin(g, p, h)
    \/ Crash

Spec == Init /\ [][Next]_vars

\* Goroutines in a call are scheduled; sync.Mutex hands the lock to a waiter
\* that has starved (1 ms), so that Lock is strongly fair.  Nobody has to call
\* and the process need not crash.
FairSpec ==
    /\ Spec
    /\ \A g \in Goroutines : WF_vars(CallStep(g)) /\ SF_vars(Lock(g))

------------------------------------------------------------------------------
(***************************************************************************)
(* Properties.                                                             *)
(***************************************************************************)

\* Every variable has its type.
TypeOK ==
    /\ file \in Contents \cup {Absent, Torn}
    /\ tmp \in [Goroutines -> Contents \cup {Absent, Torn}]
    /\ peerHashesInit \in {"new", "running", "done"}
    /\ peerHashesMu \in Goroutines \cup {Nobody}
    /\ pc \in [Goroutines -> {"idle", "init", "clear", "lock", "read",
                              "create", "write", "rename", "unlock"}]
    /\ call \in [Goroutines -> Call \cup {NoCall}]
    /\ hashes \in [Goroutines -> Contents]
    /\ ret \in [Goroutines -> {"none", "nil", "err"}]
    /\ inPod \in BOOLEAN
    /\ incarnation \in 1 .. MaxIncarnation
    /\ clearFailed \in BOOLEAN
    /\ recorded \subseteq Peers

\* writePeerHashes: "a concurrent reader (the broker) never observes a
\* half-written file", whatever step the writers are at and after any crash.
NeverTorn == file # Torn

\* An entry this process recorded stays until it is recorded again: neither
\* a concurrent update of another peer nor the clearing of the old file
\* loses it.
RecordedStays ==
    \A p \in recorded :
        file # Absent /\ file[p] # NoEntry /\ file[p].incarnation = incarnation

\* Once this process has cleared the file, no entry of an earlier process is
\* in it, unless os.Remove failed.
NoStaleEntry ==
    peerHashesInit = "done" /\ ~ clearFailed /\ file # Absent =>
        \A p \in Peers : file[p] # NoEntry => file[p].incarnation = incarnation

\* A temporary file exists only while its writer holds peerHashesMu and is on
\* the way to the rename: a call that has returned leaves none behind, and a
\* crash at most one.
OneTempFile ==
    \A g \in Goroutines : tmp[g] # Absent =>
        peerHashesMu = g /\ pc[g] \in {"write", "rename"}

\* "A stale file from a previous process incarnation must never be read as
\* current by the broker": whatever the broker can read was written by this
\* process.
StaleNeverRead ==
    file \in Contents =>
        \A p \in Peers : file[p] # NoEntry => file[p].incarnation = incarnation

\* Every call returns or dies with its process: nobody waits for ever for
\* peerHashesInit or peerHashesMu, whatever fails.
CallsReturn ==
    \A g \in Goroutines : (pc[g] # "idle") ~> (pc[g] = "idle")

------------------------------------------------------------------------------
(***************************************************************************)
(* recordPeerHash implements the atomic register.  A call is pending until *)
(* its outcome is known: at the rename or at the operation that fails.     *)
(***************************************************************************)
Register == INSTANCE HashRegister WITH
    reg     <- IF file = Absent THEN Empty ELSE file,
    pending <- call,
    cleared <- (peerHashesInit = "done")

\* The calls take effect one at a time, each at one instant, and a failed one
\* not at all.
ImplementsRegister == Register!Spec
=============================================================================
