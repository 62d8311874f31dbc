------------------------------ MODULE PeerBuild ------------------------------
(***************************************************************************)
(* Peer discovery (pkg/client/client.go, topology.go, headers.go): what    *)
(* PeerURL, Peers, ResolveAgentCard and newForPeerCardHeaders do with the  *)
(* topology file, the headers they are given and the environment variable  *)
(* KYNOMESH_INSECURE_TLS_PEERS.                                            *)
(*                                                                         *)
(* Any number of goroutines make calls.  They share the topology, which    *)
(* the first of them loads, and the environment, which may change at any   *)
(* time and which one build reads up to four times.                        *)
(***************************************************************************)
EXTENDS Integers, Sequences

CONSTANTS
    Goroutines,     \* callers
    Peers,          \* peer names; Blank may be one
    Blank,          \* the empty string
    Topologies,     \* what the topology file may hold
    Headers,        \* header entries a caller may pass
    NoPeer,         \* a peer that was not found
    MaxEnvChanges   \* bound: changes of the environment variable

\* A peer of the topology; url says that it has a URL.
Peer == [name: Peers, kind: {"", "Managed", "External"}, url: BOOLEAN]

\* An entry of a header map: its key, the key in lower case, and whether key
\* and value match their patterns (a "grpc-" key does not).
Header == [key: STRING, lower: STRING, okKey: BOOLEAN, okValue: BOOLEAN]

ASSUME BuildAssumption ==
    /\ NoPeer \notin Peer
    /\ Topologies \subseteq Seq(Peer)
    /\ Headers \subseteq Header
    /\ MaxEnvChanges \in Nat

Ops        == {"PeerURL", "Peers", "ResolveAgentCard", "newForPeer"}
LoadErrors == {"not available", "unreadable"}
Errors     == LoadErrors \cup {"bad headers", "not found", "no URL",
                               "resolve failed", "create failed"}
Places     == {"idle", "headers", "load", "read", "lookup", "resolver",
               "header client", "header warning", "resolve", "transports",
               "create"}

VARIABLES
    env,            \* names listed in InsecureTLSPeersEnv, trimmed
    envChanges,     \* history: how often it changed
    topologyOnce,   \* "new", "running" or "done"
    cachedTopology, \* the peers
    cachedErr,      \* "nil", or why they could not be loaded
    pc,             \* where each goroutine is
    call            \* its call, under way or the last one

vars == <<env, envChanges, topologyOnce, cachedTopology, cachedErr, pc, call>>
sharedVars == <<env, envChanges, topologyOnce, cachedTopology, cachedErr>>

(***************************************************************************)
(* A call: its arguments; the headers still to be checked and the names    *)
(* seen; the peer it looked up, or the names Peers returned; of the card   *)
(* request, whether it skips TLS verification, follows redirects, and was  *)
(* sent; whether the transports skip verification; the warnings logged;    *)
(* the result.  listed is history: the names the environment variable has  *)
(* held since the call began, and stable that it did not change.           *)
(***************************************************************************)
NewCall(op, name, headers) ==
    [op |-> op, name |-> name, headers |-> headers, todo |-> headers,
     seen |-> {}, peer |-> NoPeer, names |-> <<>>, skipCard |-> FALSE,
     redirects |-> TRUE, sent |-> FALSE, skipCalls |-> FALSE, warned |-> {},
     result |-> "none", listed |-> env, stable |-> TRUE]

\* An unset variable reads as one empty token.
Init ==
    /\ env \in SUBSET (Peers \cup {Blank}) \ {{}}
    /\ envChanges = 0
    /\ topologyOnce = "new"
    /\ cachedTopology = <<>>
    /\ cachedErr = "nil"
    /\ pc = [g \in Goroutines |-> "idle"]
    /\ call = [g \in Goroutines |-> NewCall("Peers", Blank, {})]

\* Goroutine g goes from one place to another and its call becomes c.
Step(g, from, to, c) ==
    /\ pc[g] = from
    /\ pc' = [pc EXCEPT ![g] = to]
    /\ call' = [call EXCEPT ![g] = c]

\* The call returns; "ok" is a nil error.
Return(g, from, r) == Step(g, from, "idle", [call[g] EXCEPT !.result = r])

Call(g, op, name, headers) ==
    /\ op # "newForPeer" => headers = {}
    /\ op = "Peers" => name = Blank
    /\ Step(g, "idle", IF op = "newForPeer" THEN "headers" ELSE "load",
            NewCall(op, name, headers))
    /\ UNCHANGED sharedVars

\* Another part of the program sets the environment variable.
SetEnv(names) ==
    /\ envChanges < MaxEnvChanges
    /\ names # env
    /\ env' = names
    /\ envChanges' = envChanges + 1
    /\ call' = [g \in Goroutines |->
           IF pc[g] = "idle" THEN call[g]
           ELSE [call[g] EXCEPT !.listed = @ \cup names, !.stable = FALSE]]
    /\ UNCHANGED <<topologyOnce, cachedTopology, cachedErr, pc>>

------------------------------------------------------------------------------
(***************************************************************************)
(* validateHeaders: the entries of the map in any order.                   *)
(***************************************************************************)

\* Mutant: keys that differ in case only count as different.
Duplicate_Exact(h, seen) == h.key \in seen

\* The key was seen, in whatever case.
Duplicate(h, seen) == h.lower \in seen

\* Mutant: keys are remembered as they are written.
CheckHeader_KeepsCase(g) ==
    /\ \E h \in call[g].todo :
          IF ~ h.okKey \/ ~ h.okValue \/ Duplicate(h, call[g].seen)
          THEN Return(g, "headers", "bad headers")
          ELSE Step(g, "headers", "headers",
                    [call[g] EXCEPT !.todo = @ \ {h}, !.seen = @ \cup {h.key}])
    /\ UNCHANGED sharedVars

\* The next entry is in order, or the call fails.
CheckHeader(g) ==
    /\ \E h \in call[g].todo :
          IF ~ h.okKey \/ ~ h.okValue \/ Duplicate(h, call[g].seen)
          THEN Return(g, "headers", "bad headers")
          ELSE Step(g, "headers", "headers",
                    [call[g] EXCEPT !.todo = @ \ {h}, !.seen = @ \cup {h.lower}])
    /\ UNCHANGED sharedVars

HeadersChecked(g) ==
    /\ call[g].todo = {}
    /\ Step(g, "headers", "load", call[g])
    /\ UNCHANGED sharedVars

------------------------------------------------------------------------------
(***************************************************************************)
(* loadTopology and lookupPeer.                                            *)
(***************************************************************************)

\* topologyOnce.Do calls its function ...
BeginLoad(g) ==
    /\ topologyOnce = "new"
    /\ Step(g, "load", "read", call[g])
    /\ topologyOnce' = "running"
    /\ UNCHANGED <<env, envChanges, cachedTopology, cachedErr>>

\* ... which is readTopology: the file is there, or it is not, or it cannot be
\* read or decoded ...
FinishLoad(g) ==
    /\ Step(g, "read", "lookup", call[g])
    /\ topologyOnce' = "done"
    /\ \/ cachedTopology' \in Topologies /\ cachedErr' = "nil"
       \/ cachedTopology' = <<>> /\ cachedErr' \in LoadErrors
    /\ UNCHANGED <<env, envChanges>>

\* Mutant: a goroutine that comes second does not wait for the first.
MayJoin_Early == topologyOnce # "new"

\* Do has nothing to do.
MayJoin == topologyOnce = "done"

\* ... or waits until it was called.
JoinLoad(g) ==
    /\ MayJoin
    /\ Step(g, "load", "lookup", call[g])
    /\ UNCHANGED sharedVars

\* The entries of topology t with that name, and the first of them.
Matches(t, name) == {i \in DOMAIN t : t[i].name = name}
FirstMatch(t, name) ==
    t[CHOOSE i \in Matches(t, name) : \A j \in Matches(t, name) : i =< j]

LoadFailed(g) ==
    /\ cachedErr # "nil"
    /\ Return(g, "lookup", cachedErr)
    /\ UNCHANGED sharedVars

\* Peers returns the names.
PeerNames(g) ==
    /\ cachedErr = "nil"
    /\ call[g].op = "Peers"
    /\ Step(g, "lookup", "idle",
            [call[g] EXCEPT !.result = "ok",
                !.names = [i \in DOMAIN cachedTopology |-> cachedTopology[i].name]])
    /\ UNCHANGED sharedVars

PeerNotFound(g) ==
    /\ cachedErr = "nil"
    /\ call[g].op # "Peers"
    /\ Matches(cachedTopology, call[g].name) = {}
    /\ Return(g, "lookup", "not found")
    /\ UNCHANGED sharedVars

\* The peer is found.  PeerURL returns its URL, if it has one; only newForPeer
\* goes on without.
PeerFound(g) ==
    /\ cachedErr = "nil"
    /\ call[g].op # "Peers"
    /\ Matches(cachedTopology, call[g].name) # {}
    /\ LET p     == FirstMatch(cachedTopology, call[g].name)
           found == [call[g] EXCEPT !.peer = p]
       IN IF call[g].op # "newForPeer" /\ ~ p.url
          THEN Step(g, "lookup", "idle", [found EXCEPT !.result = "no URL"])
          ELSE IF call[g].op = "PeerURL"
          THEN Step(g, "lookup", "idle", [found EXCEPT !.result = "ok"])
          ELSE Step(g, "lookup", "resolver", found)
    /\ UNCHANGED sharedVars

------------------------------------------------------------------------------
(***************************************************************************)
(* The card request and the client.  Each evaluation of skipsTLSVerify     *)
(* reads the environment anew.                                             *)
(***************************************************************************)

isManaged(p) == p.kind \in {"", "Managed"}

\* Mutant: the empty token is kept.
insecureTLSPeers_Empty == env

\* The names listed; empty tokens name no peer.
insecureTLSPeers == env \ {Blank}

skipsTLSVerify(p) == isManaged(p) \/ p.name \in insecureTLSPeers

ChooseResolver(g) ==
    /\ Step(g, "resolver",
            IF call[g].headers = {} THEN "resolve" ELSE "header client",
            [call[g] EXCEPT !.skipCard = skipsTLSVerify(call[g].peer)])
    /\ UNCHANGED sharedVars

\* Mutant: the client for headers verifies every peer.
noRedirectClient_Verifies(c, skip) ==
    [c EXCEPT !.skipCard = FALSE, !.redirects = FALSE]

\* The card request goes through a client that follows no redirect.
noRedirectClient(c, skip) == [c EXCEPT !.skipCard = skip, !.redirects = FALSE]

\* With headers there is another resolver ...
HeaderClient(g) ==
    /\ Step(g, "header client", "header warning",
            noRedirectClient(call[g], skipsTLSVerify(call[g].peer)))
    /\ UNCHANGED sharedVars

\* ... and a warning that they can be read on the way.
HeaderWarning(g) ==
    /\ Step(g, "header warning", "resolve",
            [call[g] EXCEPT !.warned =
                IF skipsTLSVerify(call[g].peer) THEN {"headers"} ELSE {}])
    /\ UNCHANGED sharedVars

\* resolver.Resolve gets the card.
Resolve(g) ==
    /\ pc[g] = "resolve"
    /\ call[g].peer.url
    /\ LET sent == [call[g] EXCEPT !.sent = TRUE] IN
       IF call[g].op = "newForPeer"
       THEN Step(g, "resolve", "transports", sent)
       ELSE Step(g, "resolve", "idle", [sent EXCEPT !.result = "ok"])
    /\ UNCHANGED sharedVars

\* It fails; without a URL nothing is sent.
ResolveFails(g) ==
    /\ Step(g, "resolve", "idle",
            [call[g] EXCEPT !.sent = call[g].peer.url,
                            !.result = "resolve failed"])
    /\ UNCHANGED sharedVars

\* Transports without verification, and a warning if the peer is External.
Transports(g) ==
    /\ LET skip == skipsTLSVerify(call[g].peer)
           warn == IF skip /\ ~ isManaged(call[g].peer) THEN {"external"} ELSE {}
       IN Step(g, "transports", "create",
               [call[g] EXCEPT !.skipCalls = skip, !.warned = @ \cup warn])
    /\ UNCHANGED sharedVars

\* a2aclient.NewFromCard
Create(g) ==
    /\ \E r \in {"ok", "create failed"} : Return(g, "create", r)
    /\ UNCHANGED sharedVars

Next ==
    \/ \E names \in SUBSET (Peers \cup {Blank}) \ {{}} : SetEnv(names)
    \/ \E g \in Goroutines :
          \/ \E op \in Ops, name \in Peers \cup {Blank}, hs \in SUBSET Headers :
                Call(g, op, name, hs)
          \/ CheckHeader(g) \/ HeadersChecked(g)
          \/ BeginLoad(g) \/ FinishLoad(g) \/ JoinLoad(g)
          \/ LoadFailed(g) \/ PeerNames(g) \/ PeerNotFound(g) \/ PeerFound(g)
          \/ ChooseResolver(g) \/ HeaderClient(g) \/ HeaderWarning(g)
          \/ Resolve(g) \/ ResolveFails(g) \/ Transports(g) \/ Create(g)

Spec == Init /\ [][Next]_vars

------------------------------------------------------------------------------
(***************************************************************************)
(* Properties.                                                             *)
(***************************************************************************)

\* Every variable has its type.
TypeOK ==
    /\ env \subseteq Peers \cup {Blank}
    /\ envChanges \in 0 .. MaxEnvChanges
    /\ topologyOnce \in {"new", "running", "done"}
    /\ cachedTopology \in Topologies \cup {<<>>}
    /\ cachedErr \in LoadErrors \cup {"nil"}
    /\ pc \in [Goroutines -> Places]
    /\ DOMAIN call = Goroutines
    /\ \A g \in Goroutines :
          LET c == call[g] IN
          /\ c.op \in Ops
          /\ c.name \in Peers \cup {Blank}
          /\ c.headers \subseteq Headers /\ c.todo \subseteq c.headers
          /\ c.seen = {h.lower : h \in c.headers \ c.todo}
          /\ c.peer \in Peer \cup {NoPeer}
          /\ c.names \in Seq(Peers)
          /\ c.result \in Errors \cup {"none", "ok"}
          /\ c.warned \subseteq {"headers", "external"}
          /\ c.listed \subseteq Peers \cup {Blank}
          /\ {c.skipCard, c.skipCalls, c.redirects, c.sent, c.stable} \subseteq BOOLEAN

\* What a header map should be: every key and value well formed, and no two
\* keys equal up to case.
Acceptable(headers) ==
    /\ \A h \in headers : h.okKey /\ h.okValue
    /\ \A h, k \in headers : h.lower = k.lower => h = k

\* validateHeaders accepts exactly the maps that are acceptable, in whatever
\* order Go iterates over them, and "a bad header never reaches the wire".
HeadersVerdict ==
    \A g \in Goroutines :
        /\ ~ Acceptable(call[g].headers) =>
              /\ ~ call[g].sent
              /\ call[g].result \in {"none", "bad headers"}
        /\ call[g].result = "bad headers" => ~ Acceptable(call[g].headers)

\* Goroutine g's call has an answer from the topology.
Answered(g) ==
    \/ pc[g] = "idle" /\ call[g].result \notin {"none", "bad headers"}
    \/ call[g].peer # NoPeer

\* All answers come from one reading of the topology file: either every call
\* fails with the same load error or none does, Peers lists a name if and only
\* if a lookup finds it, and two lookups of a name find the same entry.
OneTopology ==
    \A g, h \in Goroutines :
        Answered(g) /\ Answered(h) =>
            /\ call[g].result \in LoadErrors => call[h].result = call[g].result
            /\ call[g].op = "Peers" /\ call[h].op # "Peers" =>
                  (call[h].peer # NoPeer <=>
                      \E i \in DOMAIN call[g].names : call[g].names[i] = call[h].name)
            /\ call[g].op # "Peers" /\ call[h].op # "Peers"
                  /\ call[g].name = call[h].name => call[g].peer = call[h].peer

\* A build during which the environment did not change is of one mind: the
\* card request, the transports and the warnings agree on whether the peer is
\* verified.
StableBuildAgrees ==
    \A g \in Goroutines :
        LET c == call[g] IN
        c.op = "newForPeer" /\ c.result = "ok" /\ c.stable =>
            /\ c.skipCard = c.skipCalls
            /\ "headers" \in c.warned <=> c.headers # {} /\ c.skipCard
            /\ "external" \in c.warned <=> c.skipCalls /\ ~ isManaged(c.peer)

\* However the environment changes during a call, no connection to an External
\* peer goes unverified unless the environment has listed its name since the
\* call began, and the empty name is never listed.
UnverifiedOnlyIfListed ==
    \A g \in Goroutines :
        LET c == call[g] IN
        c.skipCard \/ c.skipCalls =>
            isManaged(c.peer) \/ c.name \in c.listed \ {Blank}
=============================================================================
