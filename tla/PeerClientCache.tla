--------------------------- MODULE PeerClientCache ---------------------------
(***************************************************************************)
(* The process-wide cache of peer clients (pkg/client/cache.go) together   *)
(* with the build it guards (pkg/client/client.go) and the hash it records *)
(* (pkg/client/hash.go).                                                   *)
(*                                                                         *)
(* Any number of goroutines call PeerClientWithCardHeaders concurrently,   *)
(* others call ForgetPeer, and peers change their AgentCard at any time.   *)
(* A critical section of peerClientsMu is one action; everything outside   *)
(* it interleaves.  The peer-hashes file is the atomic register that       *)
(* module PeerHashes is shown to implement.                                *)
(***************************************************************************)
EXTENDS Integers

CONSTANTS
    Goroutines,  \* callers of PeerClient / PeerClientWithCardHeaders
    Peers,       \* peer names
    NoPeer,      \* the argument of a goroutine that is in no call
    MaxEntries,  \* bound: clientCacheEntry values ever allocated
    MaxCard,     \* bound: times a peer's AgentCard changes
    InCluster,   \* POD_NAME is set, so that hashes are recorded
    MayPanic     \* whether a build may panic (e.g. in a caller's option)

ASSUME CacheAssumption ==
    /\ NoPeer \notin Peers
    /\ MaxEntries \in Nat
    /\ MaxCard \in Nat
    /\ InCluster \in BOOLEAN
    /\ MayPanic \in BOOLEAN

Entries    == 1 .. MaxEntries   \* addresses of clientCacheEntry values
NoEntry    == 0                 \* the map has no value for a name
Unresolved == -1                \* no AgentCard
Cards      == 0 .. MaxCard      \* versions of a peer's AgentCard

VARIABLES
    peerClients, \* the map: peer name -> entry, or NoEntry
    entry,       \* the clientCacheEntry values by address
    nextEntry,   \* next address to allocate
    pc,          \* where each goroutine is
    arg,         \* the name it called with
    held,        \* the entry it looked up
    ret,         \* what its last call returned
    liveCard,    \* the AgentCard each peer serves now
    hashes,      \* peer-hashes file: the card whose hash is recorded
    forgotten,   \* history: entries that ForgetPeer removed
    reported,    \* history: entries whose error some call has returned
    lastForget,  \* history: the card that was live at the last ForgetPeer
    floor,       \* history: lastForget of its peer when the call began
    busyForget   \* history: ForgetPeer ran while a call could still build

cacheVars == <<peerClients, entry, nextEntry>>
callVars  == <<pc, arg, held, ret, floor>>
pastVars  == <<forgotten, reported, lastForget, busyForget>>
vars      == <<cacheVars, callVars, pastVars, liveCard, hashes>>

(***************************************************************************)
(* once: the entry's sync.Once.  outcome stands for the pair client, err:  *)
(* "none" is nil, nil.  card is the AgentCard the build resolved, and      *)
(* recorded says that its hash reached the file.                           *)
(***************************************************************************)
Entry == [once: {"new", "running", "done"}, outcome: {"none", "ok", "err"},
          card: Cards \cup {Unresolved}, recorded: BOOLEAN]

NewEntry == [once |-> "new", outcome |-> "none",
             card |-> Unresolved, recorded |-> FALSE]

BuildSteps == {"resolve", "construct", "record"}

\* The goroutine is running the build of its entry, or may still do so.
MayBuild(g) == pc[g] \in {"once"} \cup BuildSteps

Goto(g, from, to) ==
    /\ pc[g] = from
    /\ pc' = [pc EXCEPT ![g] = to]

Init ==
    /\ peerClients = [p \in Peers |-> NoEntry]
    /\ entry = [e \in Entries |-> NewEntry]
    /\ nextEntry = 1
    /\ pc = [g \in Goroutines |-> "idle"]
    /\ arg = [g \in Goroutines |-> NoPeer]
    /\ held = [g \in Goroutines |-> NoEntry]
    /\ ret = [g \in Goroutines |-> "none"]
    /\ liveCard = [p \in Peers |-> 0]
    /\ hashes = [p \in Peers |-> Unresolved]
    /\ forgotten = {}
    /\ reported = {}
    /\ lastForget = [p \in Peers |-> 0]
    /\ floor = [g \in Goroutines |-> 0]
    /\ busyForget = [p \in Peers |-> FALSE]

------------------------------------------------------------------------------
(***************************************************************************)
(* PeerClientWithCardHeaders.                                              *)
(***************************************************************************)

\* Under peerClientsMu: find the entry of p or put a new one in the map.
Lookup(g, p) ==
    /\ Goto(g, "idle", "once")
    /\ \/ /\ peerClients[p] # NoEntry
          /\ UNCHANGED <<peerClients, nextEntry>>
       \/ /\ peerClients[p] = NoEntry
          /\ nextEntry \in Entries
          /\ peerClients' = [peerClients EXCEPT ![p] = nextEntry]
          /\ nextEntry' = nextEntry + 1
    /\ arg' = [arg EXCEPT ![g] = p]
    /\ held' = [held EXCEPT ![g] = peerClients'[p]]
    /\ ret' = [ret EXCEPT ![g] = "none"]
    /\ floor' = [floor EXCEPT ![g] = lastForget[p]]
    /\ UNCHANGED <<entry, pastVars, liveCard, hashes>>

\* once.Do, first caller: it runs the build, the others block.
BeginBuild(g) ==
    /\ Goto(g, "once", "resolve")
    /\ entry[held[g]].once = "new"
    /\ entry' = [entry EXCEPT ![held[g]].once = "running"]
    /\ UNCHANGED <<peerClients, nextEntry, arg, held, ret, floor, pastVars,
                   liveCard, hashes>>

\* once.Do, any other caller: it returns when the build is over.
JoinBuild(g) ==
    /\ Goto(g, "once", "check")
    /\ entry[held[g]].once = "done"
    /\ UNCHANGED <<cacheVars, arg, held, ret, floor, pastVars, liveCard,
                   hashes>>

\* newForPeerCardHeaders up to resolver.Resolve: the peer answers with its card.
ResolveCard(g) ==
    /\ Goto(g, "resolve", "construct")
    /\ entry' = [entry EXCEPT ![held[g]].card = liveCard[arg[g]]]
    /\ UNCHANGED <<peerClients, nextEntry, arg, held, ret, floor, pastVars,
                   liveCard, hashes>>

\* a2aclient.NewFromCard succeeds.
NewFromCard(g) ==
    /\ Goto(g, "construct", "record")
    /\ UNCHANGED <<cacheVars, arg, held, ret, floor, pastVars, liveCard,
                   hashes>>

\* Mutant: a hand-rolled once that forgets to release its waiters on an error.
BuildFails_WaitersStuck(g) ==
    /\ pc[g] \in {"resolve", "construct"}
    /\ pc' = [pc EXCEPT ![g] = "check"]
    /\ entry' = [entry EXCEPT ![held[g]].outcome = "err"]
    /\ UNCHANGED <<peerClients, nextEntry, arg, held, ret, floor, pastVars,
                   liveCard, hashes>>

\* Bad headers, unknown peer, failed or cancelled card request, or no usable
\* interface on the card: the closure ends with entry.err set.
BuildFails(g) ==
    /\ pc[g] \in {"resolve", "construct"}
    /\ pc' = [pc EXCEPT ![g] = "check"]
    /\ entry' = [entry EXCEPT ![held[g]] =
           [@ EXCEPT !.once = "done", !.outcome = "err"]]
    /\ UNCHANGED <<peerClients, nextEntry, arg, held, ret, floor, pastVars,
                   liveCard, hashes>>

\* A caller's option panics in NewFromCard and the panic leaves the closure
\* (a request handler may well recover it): sync.Once counts the call
\* as done, entry.client and entry.err keep their zero values.
BuildPanics(g) ==
    /\ MayPanic
    /\ Goto(g, "construct", "idle")
    /\ entry' = [entry EXCEPT ![held[g]].once = "done"]
    /\ arg' = [arg EXCEPT ![g] = NoPeer]
    /\ ret' = [ret EXCEPT ![g] = "panic"]
    /\ UNCHANGED <<peerClients, nextEntry, held, floor, pastVars, liveCard,
                   hashes>>

\* Mutant: the hash is taken from a second card request.
RecordPeerHash_OfLiveCard(g) ==
    /\ Goto(g, "record", "check")
    /\ \E written \in BOOLEAN :
          /\ written => InCluster
          /\ entry' = [entry EXCEPT ![held[g]] =
                 [@ EXCEPT !.once = "done", !.outcome = "ok",
                           !.recorded = written]]
          /\ hashes' = IF written
                       THEN [hashes EXCEPT ![arg[g]] = liveCard[arg[g]]]
                       ELSE hashes
    /\ UNCHANGED <<peerClients, nextEntry, arg, held, ret, floor, pastVars,
                   liveCard>>

\* The last step of the closure: record the hash (best effort, and only in a
\* pod), then the once is done and the client visible.
RecordPeerHash(g) ==
    /\ Goto(g, "record", "check")
    /\ \E written \in BOOLEAN :
          /\ written => InCluster
          /\ entry' = [entry EXCEPT ![held[g]] =
                 [@ EXCEPT !.once = "done", !.outcome = "ok",
                           !.recorded = written]]
          /\ hashes' = IF written
                       THEN [hashes EXCEPT ![arg[g]] = entry[held[g]].card]
                       ELSE hashes
    /\ UNCHANGED <<peerClients, nextEntry, arg, held, ret, floor, pastVars,
                   liveCard>>

\* return entry.client, nil
ReturnClient(g) ==
    /\ Goto(g, "check", "idle")
    /\ entry[held[g]].outcome # "err"
    /\ ret' = [ret EXCEPT ![g] = IF entry[held[g]].outcome = "ok"
                                 THEN "client" ELSE "nil"]
    /\ arg' = [arg EXCEPT ![g] = NoPeer]
    /\ UNCHANGED <<cacheVars, held, floor, pastVars, liveCard, hashes>>

\* Mutants of forgetEntry: it deletes whatever entry the name has now; it
\* is not called at all; it stores a nil entry in place of delete.
forgetEntry_AnyEntry(p, e) ==
    peerClients' = [peerClients EXCEPT ![p] = NoEntry]
forgetEntry_Missing(p, e) ==
    peerClients' = peerClients
forgetEntry_StoresNil(p, e) ==
    peerClients' = [peerClients EXCEPT ![p] = IF @ = e THEN -1 ELSE @]

\* Under peerClientsMu: drop the name only if it still maps to e.
forgetEntry(p, e) ==
    peerClients' = [peerClients EXCEPT ![p] = IF @ = e THEN NoEntry ELSE @]

\* entry.err # nil: evict, then return the error.
ReturnError(g) ==
    /\ Goto(g, "check", "idle")
    /\ entry[held[g]].outcome = "err"
    /\ forgetEntry(arg[g], held[g])
    /\ ret' = [ret EXCEPT ![g] = "error"]
    /\ arg' = [arg EXCEPT ![g] = NoPeer]
    /\ reported' = reported \cup {held[g]}
    /\ UNCHANGED <<entry, nextEntry, held, floor, forgotten, lastForget,
                   busyForget, liveCard, hashes>>

------------------------------------------------------------------------------

\* Mutant: ForgetPeer leaves an entry alone whose build is under way.
ForgetPeer_SkipsRunning(p) ==
    /\ peerClients' = [peerClients EXCEPT
           ![p] = IF @ # NoEntry /\ entry[@].once = "running" THEN @ ELSE NoEntry]
    /\ forgotten' = forgotten \cup ({peerClients[p]} \ {NoEntry})
    /\ lastForget' = [lastForget EXCEPT ![p] = liveCard[p]]
    /\ busyForget' = [busyForget EXCEPT
           ![p] = @ \/ \E g \in Goroutines : arg[g] = p /\ MayBuild(g)]
    /\ UNCHANGED <<entry, nextEntry, callVars, reported, liveCard, hashes>>

\* ForgetPeer, by any goroutine: delete(peerClients, name).
ForgetPeer(p) ==
    /\ peerClients' = [peerClients EXCEPT ![p] = NoEntry]
    /\ forgotten' = forgotten \cup ({peerClients[p]} \ {NoEntry})
    /\ lastForget' = [lastForget EXCEPT ![p] = liveCard[p]]
    /\ busyForget' = [busyForget EXCEPT
           ![p] = @ \/ \E g \in Goroutines : arg[g] = p /\ MayBuild(g)]
    /\ UNCHANGED <<entry, nextEntry, callVars, reported, liveCard, hashes>>

\* The peer replaces its AgentCard.
ChangeCard(p) ==
    /\ liveCard[p] < MaxCard
    /\ liveCard' = [liveCard EXCEPT ![p] = @ + 1]
    /\ UNCHANGED <<cacheVars, callVars, pastVars, hashes>>

\* A step of a call that is under way.
CallStep(g) ==
    \/ BeginBuild(g)
    \/ JoinBuild(g)
    \/ ResolveCard(g)
    \/ NewFromCard(g)
    \/ BuildFails(g)
    \/ BuildPanics(g)
    \/ RecordPeerHash(g)
    \/ ReturnClient(g)
    \/ ReturnError(g)

Next ==
    \/ \E g \in Goroutines : CallStep(g) \/ \E p \in Peers : Lookup(g, p)
    \/ \E p \in Peers : ForgetPeer(p) \/ ChangeCard(p)

Spec == Init /\ [][Next]_vars

\* Goroutines that are in a call are scheduled, and a build ends: the card
\* request has a timeout.  Nobody has to start a call or to forget a peer.
FairSpec == Spec /\ \A g \in Goroutines : WF_vars(CallStep(g))

------------------------------------------------------------------------------
(***************************************************************************)
(* Properties.                                                             *)
(***************************************************************************)

\* Every variable has its type.
TypeOK ==
    /\ peerClients \in [Peers -> Entries \cup {NoEntry}]
    /\ entry \in [Entries -> Entry]
    /\ nextEntry \in 1 .. MaxEntries + 1
    /\ pc \in [Goroutines -> {"idle", "once", "check"} \cup BuildSteps]
    /\ arg \in [Goroutines -> Peers \cup {NoPeer}]
    /\ held \in [Goroutines -> Entries \cup {NoEntry}]
    /\ ret \in [Goroutines -> {"none", "client", "nil", "error", "panic"}]
    /\ liveCard \in [Peers -> Cards]
    /\ hashes \in [Peers -> Cards \cup {Unresolved}]
    /\ forgotten \subseteq Entries
    /\ reported \subseteq Entries
    /\ lastForget \in [Peers -> Cards]
    /\ floor \in [Goroutines -> Cards]
    /\ busyForget \in [Peers -> BOOLEAN]

\* A client that was built stays in the cache until ForgetPeer drops it, so
\* that a peer has at most one client that was not forgotten: no failed build
\* and no race of first callers replaces or evicts it.
BuiltClientKept ==
    \A e \in Entries :
        entry[e].outcome = "ok" /\ e \notin forgotten
            => \E p \in Peers : peerClients[p] = e

\* An error that some call has returned is never served again: the entry that
\* failed is out of the cache, so the next call makes a fresh attempt.
FailureNotCached ==
    \A e \in reported : \A p \in Peers : peerClients[p] # e

\* ForgetPeer takes effect: a call that began after ForgetPeer(p) returned
\* never yields a client built from a card older than the one that was live
\* at that moment, whatever builds were in flight.
ForgetTakesEffect ==
    \A g \in Goroutines :
        ret[g] = "client" => entry[held[g]].card >= floor[g]

\* The hash the broker compares is the one of the card the cached client was
\* built from, for every peer that was never forgotten while a call for it
\* could still build.
HashMatchesCachedClient ==
    \A p \in Peers :
        LET e == peerClients[p] IN
        (/\ e # NoEntry
         /\ ~ busyForget[p]
         /\ entry[e].outcome = "ok"
         /\ entry[e].recorded) => hashes[p] = entry[e].card

\* A call that returns no error returns a client.
NilErrorMeansClient == \A g \in Goroutines : ret[g] # "nil"

\* Every call returns: a caller blocked in once.Do is released whether the
\* build it waits for succeeds, fails or panics.
CallsReturn ==
    \A g \in Goroutines : (pc[g] # "idle") ~> (pc[g] = "idle")
==============================================================================
