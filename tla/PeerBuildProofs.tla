--------------------------- MODULE PeerBuildProofs ---------------------------
(***************************************************************************)
(* Proofs about PeerBuild for any number of goroutines, peers, headers and *)
(* changes of the environment, and any topology file.                      *)
(***************************************************************************)
EXTENDS PeerBuild, TLAPS, WellFoundedInduction

CallRecord ==
    [op: Ops, name: Peers \cup {Blank}, headers: SUBSET Headers,
     todo: SUBSET Headers, seen: SUBSET STRING, peer: Peer \cup {NoPeer},
     names: Seq(Peers), skipCard: BOOLEAN, redirects: BOOLEAN, sent: BOOLEAN,
     skipCalls: BOOLEAN, warned: SUBSET {"headers", "external"},
     result: Errors \cup {"none", "ok"}, listed: SUBSET (Peers \cup {Blank}),
     stable: BOOLEAN]

\* The types again, with calls as records.
RecordInv ==
    /\ env \in SUBSET (Peers \cup {Blank})
    /\ envChanges \in 0 .. MaxEnvChanges
    /\ topologyOnce \in {"new", "running", "done"}
    /\ cachedTopology \in Seq(Peer) /\ cachedTopology \in Topologies \cup {<<>>}
    /\ cachedErr \in LoadErrors \cup {"nil"}
    /\ pc \in [Goroutines -> Places]
    /\ call \in [Goroutines -> CallRecord]

BeforeLookup == {"headers", "load", "read", "lookup"}
AfterLookup  == {"resolver", "header client", "header warning", "resolve",
                 "transports", "create"}

(***************************************************************************)
(* What holds of a call c whose goroutine is at p, while the once is once, *)
(* the topology t, its error err, and the environment e.                   *)
(***************************************************************************)

\* The headers seen so far are acceptable, and the call goes on only when all
\* were seen.
HeaderInv(p, c) ==
    /\ c.todo \subseteq c.headers
    /\ c.seen = {h.lower : h \in c.headers \ c.todo}
    /\ Acceptable(c.headers \ c.todo)
    /\ p \notin {"idle", "headers"} => c.todo = {}
    /\ p = "headers" => ~ c.sent
    /\ p # "idle" => c.result = "none"
    /\ c.sent \/ c.result \notin {"none", "bad headers"} => c.todo = {}
    /\ c.result = "bad headers" => ~ Acceptable(c.headers)

\* What the call has learned is what the topology says: nothing before the
\* lookup, and nothing while the topology is not loaded.
LookupInv(p, c, once, t, err) ==
    /\ p = "read" => once = "running"
    /\ p \in AfterLookup \cup {"lookup"} => once = "done"
    /\ p \in BeforeLookup => c.peer = NoPeer
    /\ p \in AfterLookup => c.peer # NoPeer
    /\ p # "idle" => c.names = <<>>
    /\ c.op = "Peers" => c.peer = NoPeer
    /\ c.result \in {"none", "bad headers"} \cup LoadErrors => c.names = <<>>
    /\ c.peer # NoPeer =>
          /\ once = "done" /\ err = "nil"
          /\ Matches(t, c.name) # {}
          /\ c.peer = FirstMatch(t, c.name)
    /\ p = "idle" /\ c.result \notin {"none", "bad headers"} =>
          /\ once = "done"
          /\ err # "nil" => c.result = err
          /\ err = "nil" =>
                /\ c.result \notin LoadErrors
                /\ IF c.op = "Peers"
                   THEN c.names = [i \in DOMAIN t |-> t[i].name]
                   ELSE c.peer = NoPeer => Matches(t, c.name) = {}

\* Whether c's peer goes unverified, by the names c has seen listed.
Skips(c) == isManaged(c.peer) \/ c.peer.name \in c.listed \ {Blank}

\* A decision not to verify rests on a name that was listed; while the
\* environment does not change, all decisions are the same.
DecisionInv(p, c, e) ==
    /\ p # "idle" => e \subseteq c.listed /\ (c.stable => c.listed = e)
    /\ p \in BeforeLookup \cup {"resolver"} =>
          ~ c.skipCard /\ ~ c.skipCalls /\ c.warned = {}
    /\ p \in {"header client", "header warning"} => c.warned = {} /\ c.headers # {}
    /\ c.skipCard \/ c.skipCalls =>
          isManaged(c.peer) \/ c.name \in c.listed \ {Blank}
    /\ c.stable =>
          /\ p \in AfterLookup \ {"resolver"} => (c.skipCard <=> Skips(c))
          /\ p \in {"resolve", "transports"} =>
                /\ "headers" \in c.warned <=> c.headers # {} /\ c.skipCard
                /\ "external" \notin c.warned
          /\ p = "create" \/ (c.op = "newForPeer" /\ c.result = "ok") =>
                /\ c.skipCard <=> c.skipCalls
                /\ "headers" \in c.warned <=> c.headers # {} /\ c.skipCard
                /\ "external" \in c.warned <=> c.skipCalls /\ ~ isManaged(c.peer)

\* One goroutine at most reads the file, and only it is past the once before
\* that is done.
OnceInv == \A g, h \in Goroutines : pc[g] = "read" /\ pc[h] = "read" => g = h

BuildInv ==
    /\ RecordInv /\ OnceInv
    /\ \A g \in Goroutines :
          /\ HeaderInv(pc[g], call[g])
          /\ LookupInv(pc[g], call[g], topologyOnce, cachedTopology, cachedErr)
          /\ DecisionInv(pc[g], call[g], env)

\* The least-number principle, as the library's theorem on well-founded
\* relations has it.
LEMMA LeastNumber ==
  ASSUME NEW T \in SUBSET Nat, T # {}
  PROVE  \E i \in T : \A j \in T : i =< j
  <1> DEFINE R == OpToRel(<, Nat)
  <1>1. PICK i \in T : \A j \in T : ~ (<<j, i>> \in R)
    <2>1. IsWellFoundedOn(R, Nat)
      BY NatLessThanWellFounded
    <2> HIDE DEF R
    <2> QED
      BY <2>1, WFMin
  <1>2. ASSUME NEW j \in T PROVE i =< j
    <2>1. ~ (<<j, i>> \in {ss \in Nat \X Nat : ss[1] < ss[2]})
      BY <1>1 DEF OpToRel
    <2>2. ~ (j < i)
      BY <2>1
    <2> QED
      BY <2>2
  <1> QED
    BY <1>2

\* What lookupPeer finds is an entry of the topology with the name looked up.
LEMMA FirstMatchFacts ==
  ASSUME NEW t \in Seq(Peer), NEW name, Matches(t, name) # {}
  PROVE  FirstMatch(t, name) \in Peer /\ FirstMatch(t, name).name = name
  <1>1. PICK i \in Matches(t, name) : \A j \in Matches(t, name) : i =< j
    <2>1. Matches(t, name) \subseteq Nat
      BY DEF Matches
    <2> QED
      BY <2>1, LeastNumber
  <1> DEFINE k == CHOOSE n \in Matches(t, name) : \A j \in Matches(t, name) : n =< j
  <1>2. k \in Matches(t, name)
    BY <1>1
  <1>3. k \in DOMAIN t /\ t[k].name = name
    BY <1>2 DEF Matches
  <1> HIDE DEF k
  <1>4. t[k] \in Peer
    BY <1>3
  <1> QED
    BY <1>3, <1>4 DEF FirstMatch, k

\* A step of one goroutine that touches nothing shared keeps the invariant if
\* it keeps it for the goroutine's own call.
LEMMA LocalStep ==
  ASSUME BuildInv, NEW g \in Goroutines, NEW from,
         NEW to \in Places \ {"read"}, NEW c \in CallRecord,
         Step(g, from, to, c), UNCHANGED sharedVars,
         HeaderInv(to, c),
         LookupInv(to, c, topologyOnce, cachedTopology, cachedErr),
         DecisionInv(to, c, env)
  PROVE  BuildInv'
  <1>1. /\ pc \in [Goroutines -> Places] /\ call \in [Goroutines -> CallRecord]
        /\ pc' = [pc EXCEPT ![g] = to] /\ call' = [call EXCEPT ![g] = c]
        /\ UNCHANGED <<env, envChanges, topologyOnce, cachedTopology, cachedErr>>
    BY DEF BuildInv, RecordInv, Step, sharedVars
  <1>2. RecordInv'
    BY <1>1 DEF BuildInv, RecordInv
  <1>3. OnceInv'
    BY <1>1 DEF BuildInv, OnceInv
  <1>4. ASSUME NEW k \in Goroutines
        PROVE  /\ HeaderInv(pc'[k], call'[k])
               /\ LookupInv(pc'[k], call'[k], topologyOnce', cachedTopology',
                            cachedErr')
               /\ DecisionInv(pc'[k], call'[k], env')
    <2>1. CASE k = g
      <3>1. pc'[k] = to /\ call'[k] = c
        BY <1>1, <2>1
      <3> QED
        BY <1>1, <3>1
    <2>2. CASE k # g
      <3>1. pc'[k] = pc[k] /\ call'[k] = call[k]
        BY <1>1, <2>2
      <3> QED
        BY <1>1, <3>1 DEF BuildInv
    <2> QED
      BY <2>1, <2>2
  <1> QED
    BY <1>2, <1>3, <1>4 DEF BuildInv


\* A call that has begun.
LEMMA NewCallInv ==
  ASSUME NEW op \in Ops, NEW name \in Peers \cup {Blank}, NEW hs \in SUBSET Headers,
         env \subseteq Peers \cup {Blank}
  PROVE  /\ NewCall(op, name, hs) \in CallRecord
         /\ NewCall(op, name, hs).op = op /\ NewCall(op, name, hs).headers = hs
         /\ NewCall(op, name, hs).todo = hs /\ NewCall(op, name, hs).seen = {}
         /\ NewCall(op, name, hs).peer = NoPeer /\ NewCall(op, name, hs).names = <<>>
         /\ ~ NewCall(op, name, hs).skipCard /\ ~ NewCall(op, name, hs).skipCalls
         /\ ~ NewCall(op, name, hs).sent /\ NewCall(op, name, hs).warned = {}
         /\ NewCall(op, name, hs).result = "none"
         /\ NewCall(op, name, hs).listed = env /\ NewCall(op, name, hs).stable
  BY DEF NewCall, CallRecord, Errors

\* The initial state satisfies the invariant.
LEMMA InitInv == Init => BuildInv
  <1> SUFFICES ASSUME Init PROVE BuildInv
    OBVIOUS
  <1> DEFINE c == NewCall("Peers", Blank, {})
  <1>1. env \subseteq Peers \cup {Blank}
    BY DEF Init
  <1>2. /\ c \in CallRecord /\ c.headers = {} /\ c.todo = {} /\ c.seen = {}
        /\ c.peer = NoPeer /\ c.names = <<>> /\ ~ c.skipCard /\ ~ c.skipCalls
        /\ ~ c.sent /\ c.result = "none"
    BY <1>1, NewCallInv DEF Ops
  <1>3. /\ envChanges = 0 /\ topologyOnce = "new" /\ cachedTopology = <<>>
        /\ cachedErr = "nil" /\ pc = [g \in Goroutines |-> "idle"]
        /\ call = [g \in Goroutines |-> c]
    BY DEF Init
  <1> HIDE DEF c
  <1>4. RecordInv
    BY <1>1, <1>2, <1>3, BuildAssumption DEF RecordInv, Places
  <1>5. HeaderInv("idle", c)
    BY <1>2 DEF HeaderInv, Acceptable
  <1>6. LookupInv("idle", c, "new", <<>>, "nil")
    BY <1>2 DEF LookupInv, AfterLookup, BeforeLookup
  <1>7. DecisionInv("idle", c, env)
    BY <1>2 DEF DecisionInv, AfterLookup, BeforeLookup
  <1> QED
    BY <1>3, <1>4, <1>5, <1>6, <1>7 DEF BuildInv, OnceInv

\* A goroutine makes a call.
LEMMA CallInv ==
  ASSUME BuildInv, NEW g \in Goroutines, NEW op \in Ops,
         NEW name \in Peers \cup {Blank}, NEW hs \in SUBSET Headers,
         Call(g, op, name, hs)
  PROVE  BuildInv'
  <1> DEFINE c  == NewCall(op, name, hs)
             to == IF op = "newForPeer" THEN "headers" ELSE "load"
  <1>1. env \subseteq Peers \cup {Blank}
    BY DEF BuildInv, RecordInv
  <1>2. /\ c \in CallRecord /\ c.headers = hs /\ c.todo = hs /\ c.seen = {}
        /\ c.peer = NoPeer /\ c.names = <<>> /\ ~ c.skipCard /\ ~ c.skipCalls
        /\ ~ c.sent /\ c.warned = {} /\ c.result = "none" /\ c.op = op
        /\ c.listed = env
    BY <1>1, NewCallInv
  <1>3. /\ Step(g, "idle", to, c) /\ UNCHANGED sharedVars
        /\ to \in {"headers", "load"}
        /\ to = "load" => hs = {}
    BY DEF Call
  <1> HIDE DEF c, to
  <1>4. HeaderInv(to, c)
    BY <1>2, <1>3 DEF HeaderInv, Acceptable
  <1>5. LookupInv(to, c, topologyOnce, cachedTopology, cachedErr)
    BY <1>2, <1>3 DEF LookupInv, AfterLookup, BeforeLookup
  <1>6. DecisionInv(to, c, env)
    BY <1>2, <1>3 DEF DecisionInv, AfterLookup, BeforeLookup
  <1> QED
    BY <1>2, <1>3, <1>4, <1>5, <1>6, LocalStep DEF Places


\* What the invariant says of one goroutine.
LEMMA OwnCall ==
  ASSUME BuildInv, NEW g \in Goroutines
  PROVE  /\ call[g] \in CallRecord /\ pc[g] \in Places
         /\ HeaderInv(pc[g], call[g])
         /\ LookupInv(pc[g], call[g], topologyOnce, cachedTopology, cachedErr)
         /\ DecisionInv(pc[g], call[g], env)
  BY DEF BuildInv, RecordInv

\* A call that returns keeps all but its result.
LEMMA ResultFacts ==
  ASSUME NEW c \in CallRecord, NEW r \in Errors \cup {"none", "ok"}
  PROVE  LET d == [c EXCEPT !.result = r]
         IN  /\ d \in CallRecord /\ d.result = r
             /\ d.op = c.op /\ d.name = c.name /\ d.headers = c.headers
             /\ d.todo = c.todo /\ d.seen = c.seen /\ d.peer = c.peer
             /\ d.names = c.names /\ d.skipCard = c.skipCard
             /\ d.sent = c.sent /\ d.skipCalls = c.skipCalls
             /\ d.warned = c.warned /\ d.listed = c.listed /\ d.stable = c.stable
  BY DEF CallRecord

\* validateHeaders takes the next entry: what it has accepted stays acceptable,
\* and an entry it rejects makes the whole map unacceptable.
LEMMA CheckHeaderInv ==
  ASSUME BuildInv, NEW g \in Goroutines, CheckHeader(g)
  PROVE  BuildInv'
  <1> DEFINE c == call[g]
  <1>1. /\ c \in CallRecord /\ pc[g] = "headers"
        /\ HeaderInv("headers", c)
        /\ LookupInv("headers", c, topologyOnce, cachedTopology, cachedErr)
        /\ DecisionInv("headers", c, env)
    BY OwnCall DEF CheckHeader, Return, Step
  <1>2. PICK h \in c.todo :
          IF ~ h.okKey \/ ~ h.okValue \/ Duplicate(h, c.seen)
          THEN Return(g, "headers", "bad headers")
          ELSE Step(g, "headers", "headers",
                    [c EXCEPT !.todo = @ \ {h}, !.seen = @ \cup {h.lower}])
    BY DEF CheckHeader
  <1>3. UNCHANGED sharedVars
    BY DEF CheckHeader
  <1> HIDE DEF c
  <1>4. /\ c.headers \subseteq Headers /\ c.todo \subseteq c.headers
        /\ c.seen = {k.lower : k \in c.headers \ c.todo}
        /\ Acceptable(c.headers \ c.todo)
        /\ ~ c.sent /\ c.result = "none"
    BY <1>1 DEF HeaderInv, CallRecord
  <1>5. h \in c.headers /\ h.lower \in STRING
    BY <1>2, <1>4, BuildAssumption DEF Header
  <1>6. CASE ~ h.okKey \/ ~ h.okValue \/ Duplicate(h, c.seen)
    <2> DEFINE d == [c EXCEPT !.result = "bad headers"]
    <2>1. ~ Acceptable(c.headers)
      <3>1. CASE ~ h.okKey \/ ~ h.okValue
        BY <1>5, <3>1 DEF Acceptable
      <3>2. CASE h.lower \in c.seen
        <4>1. PICK k \in c.headers \ c.todo : k.lower = h.lower
          BY <1>4, <3>2
        <4>2. k # h
          BY <1>2, <4>1
        <4> QED
          BY <1>5, <4>1, <4>2 DEF Acceptable
      <3> QED
        BY <1>6, <3>1, <3>2 DEF Duplicate
    <2>2. /\ d \in CallRecord /\ d.result = "bad headers"
          /\ d.op = c.op /\ d.name = c.name /\ d.headers = c.headers
          /\ d.todo = c.todo /\ d.seen = c.seen /\ d.peer = c.peer
          /\ d.names = c.names /\ d.skipCard = c.skipCard
          /\ d.sent = c.sent /\ d.skipCalls = c.skipCalls
          /\ d.warned = c.warned /\ d.listed = c.listed /\ d.stable = c.stable
      BY <1>1, ResultFacts DEF Errors
    <2>3. Step(g, "headers", "idle", d)
      BY <1>2, <1>6 DEF Return, c
    <2> HIDE DEF d
    <2>4. HeaderInv("idle", d)
      BY <1>4, <2>1, <2>2 DEF HeaderInv
    <2>5. LookupInv("idle", d, topologyOnce, cachedTopology, cachedErr)
      BY <1>1, <2>2 DEF LookupInv, BeforeLookup, AfterLookup
    <2>6. DecisionInv("idle", d, env)
      BY <1>1, <2>2 DEF DecisionInv, BeforeLookup, AfterLookup
    <2> QED
      BY <1>3, <2>2, <2>3, <2>4, <2>5, <2>6, LocalStep DEF Places
  <1>7. CASE ~ (~ h.okKey \/ ~ h.okValue \/ Duplicate(h, c.seen))
    <2> DEFINE d == [c EXCEPT !.todo = @ \ {h}, !.seen = @ \cup {h.lower}]
    <2>1. /\ d \in CallRecord
          /\ d.todo = c.todo \ {h} /\ d.seen = c.seen \cup {h.lower}
          /\ d.op = c.op /\ d.name = c.name /\ d.headers = c.headers
          /\ d.peer = c.peer /\ d.names = c.names /\ d.skipCard = c.skipCard
          /\ d.sent = c.sent /\ d.skipCalls = c.skipCalls
          /\ d.warned = c.warned /\ d.result = c.result
          /\ d.listed = c.listed /\ d.stable = c.stable
      BY <1>1, <1>5 DEF CallRecord
    <2>2. Step(g, "headers", "headers", d)
      BY <1>2, <1>7
    <2> HIDE DEF d
    <2>3. d.headers \ d.todo = (c.headers \ c.todo) \cup {h}
      BY <1>2, <1>4, <2>1
    <2>4. d.seen = {k.lower : k \in d.headers \ d.todo}
      BY <1>4, <2>1, <2>3
    <2>5. Acceptable(d.headers \ d.todo)
      <3>1. h.okKey /\ h.okValue /\ h.lower \notin c.seen
        BY <1>7 DEF Duplicate
      <3>2. \A k \in c.headers \ c.todo : k.lower # h.lower
        BY <1>4, <3>1
      <3> QED
        BY <1>4, <2>3, <3>1, <3>2 DEF Acceptable
    <2>6. HeaderInv("headers", d)
      BY <1>4, <2>1, <2>4, <2>5 DEF HeaderInv
    <2>7. LookupInv("headers", d, topologyOnce, cachedTopology, cachedErr)
      BY <1>1, <2>1 DEF LookupInv, BeforeLookup, AfterLookup
    <2>8. DecisionInv("headers", d, env)
      BY <1>1, <2>1 DEF DecisionInv, BeforeLookup, AfterLookup
    <2> QED
      BY <1>3, <2>1, <2>2, <2>6, <2>7, <2>8, LocalStep DEF Places
  <1> QED
    BY <1>6, <1>7

\* The steps that leave the call as it is: the headers are checked, or the
\* topology is there.
LEMMA ProceedInv ==
  ASSUME BuildInv, NEW g \in Goroutines, HeadersChecked(g) \/ JoinLoad(g)
  PROVE  BuildInv'
  <1> DEFINE c == call[g]
  <1>1. /\ c \in CallRecord
        /\ HeaderInv(pc[g], c)
        /\ LookupInv(pc[g], c, topologyOnce, cachedTopology, cachedErr)
        /\ DecisionInv(pc[g], c, env)
    BY OwnCall
  <1>2. CASE HeadersChecked(g)
    <2>1. /\ Step(g, "headers", "load", c) /\ UNCHANGED sharedVars
          /\ c.todo = {} /\ pc[g] = "headers"
      BY <1>2 DEF HeadersChecked, Step
    <2> HIDE DEF c
    <2>2. HeaderInv("load", c)
      BY <1>1, <2>1 DEF HeaderInv
    <2>3. /\ LookupInv("load", c, topologyOnce, cachedTopology, cachedErr)
          /\ DecisionInv("load", c, env)
      BY <1>1, <2>1 DEF LookupInv, DecisionInv, BeforeLookup, AfterLookup
    <2> QED
      BY <1>1, <2>1, <2>2, <2>3, LocalStep DEF Places
  <1>3. CASE JoinLoad(g)
    <2>1. /\ Step(g, "load", "lookup", c) /\ UNCHANGED sharedVars
          /\ topologyOnce = "done" /\ pc[g] = "load"
      BY <1>3 DEF JoinLoad, MayJoin, Step
    <2> HIDE DEF c
    <2>2. HeaderInv("lookup", c)
      BY <1>1, <2>1 DEF HeaderInv
    <2>3. /\ LookupInv("lookup", c, topologyOnce, cachedTopology, cachedErr)
          /\ DecisionInv("lookup", c, env)
      BY <1>1, <2>1 DEF LookupInv, DecisionInv, BeforeLookup, AfterLookup
    <2> QED
      BY <1>1, <2>1, <2>2, <2>3, LocalStep DEF Places
  <1> QED
    BY <1>2, <1>3


\* lookupPeer and Peers: the call learns what the loaded topology says.
LEMMA LookupStepInv ==
  ASSUME BuildInv, NEW g \in Goroutines,
         LoadFailed(g) \/ PeerNames(g) \/ PeerNotFound(g) \/ PeerFound(g)
  PROVE  BuildInv'
  <1> DEFINE c == call[g]
  <1>1. /\ c \in CallRecord /\ pc[g] = "lookup" /\ UNCHANGED sharedVars
        /\ HeaderInv("lookup", c)
        /\ LookupInv("lookup", c, topologyOnce, cachedTopology, cachedErr)
        /\ DecisionInv("lookup", c, env)
    BY OwnCall DEF LoadFailed, PeerNames, PeerNotFound, PeerFound, Return, Step
  <1>2. /\ cachedTopology \in Seq(Peer) /\ cachedErr \in LoadErrors \cup {"nil"}
    BY DEF BuildInv, RecordInv
  <1>3. /\ topologyOnce = "done" /\ c.peer = NoPeer /\ c.names = <<>>
        /\ c.todo = {} /\ c.result = "none"
        /\ ~ c.skipCard /\ ~ c.skipCalls /\ c.warned = {}
    BY <1>1 DEF HeaderInv, LookupInv, DecisionInv, BeforeLookup, AfterLookup
  <1>4. ASSUME NEW r \in Errors, Step(g, "lookup", "idle", [c EXCEPT !.result = r]),
               r # "bad headers", cachedErr # "nil" => r = cachedErr,
               cachedErr = "nil" => /\ r \notin LoadErrors /\ c.op # "Peers"
                                    /\ Matches(cachedTopology, c.name) = {}
        PROVE  BuildInv'
    <2> DEFINE d == [c EXCEPT !.result = r]
    <2>1. /\ d \in CallRecord /\ d.result = r
          /\ d.op = c.op /\ d.name = c.name /\ d.headers = c.headers
          /\ d.todo = c.todo /\ d.seen = c.seen /\ d.peer = c.peer
          /\ d.names = c.names /\ d.skipCard = c.skipCard
          /\ d.sent = c.sent /\ d.skipCalls = c.skipCalls
          /\ d.warned = c.warned /\ d.listed = c.listed /\ d.stable = c.stable
      BY <1>1, ResultFacts
    <2> HIDE DEF c, d
    <2>2. HeaderInv("idle", d)
      BY <1>1, <1>3, <1>4, <2>1 DEF HeaderInv
    <2>3. LookupInv("idle", d, topologyOnce, cachedTopology, cachedErr)
      BY <1>1, <1>3, <1>4, <2>1 DEF LookupInv, BeforeLookup, AfterLookup
    <2>4. DecisionInv("idle", d, env)
      BY <1>1, <1>3, <1>4, <2>1
         DEF DecisionInv, BeforeLookup, AfterLookup, Errors, LoadErrors
    <2> QED
      BY <1>1, <1>4, <2>1, <2>2, <2>3, <2>4, LocalStep DEF Places, d
  <1>5. CASE LoadFailed(g)
    BY <1>2, <1>4, <1>5 DEF LoadFailed, Return, Errors, LoadErrors
  <1>6. CASE PeerNotFound(g)
    BY <1>4, <1>6 DEF PeerNotFound, Return, Errors, LoadErrors
  <1>7. CASE PeerNames(g)
    <2> DEFINE ns == [i \in DOMAIN cachedTopology |-> cachedTopology[i].name]
               d  == [c EXCEPT !.result = "ok", !.names = ns]
    <2>1. /\ cachedErr = "nil" /\ c.op = "Peers" /\ Step(g, "lookup", "idle", d)
      BY <1>7 DEF PeerNames
    <2>2. ns \in Seq(Peers)
      <3>1. /\ Len(cachedTopology) \in Nat
            /\ DOMAIN cachedTopology = 1 .. Len(cachedTopology)
        BY <1>2
      <3>2. ASSUME NEW i \in DOMAIN cachedTopology
            PROVE  cachedTopology[i].name \in Peers
        <4>1. cachedTopology[i] \in Peer
          BY <1>2
        <4> QED
          BY <4>1 DEF Peer
      <3>3. ns \in [1 .. Len(cachedTopology) -> Peers]
        BY <3>1, <3>2
      <3> QED
        BY <3>1, <3>3
    <2> HIDE DEF ns
    <2>3. /\ d \in CallRecord /\ d.result = "ok" /\ d.names = ns
          /\ d.op = c.op /\ d.name = c.name /\ d.headers = c.headers
          /\ d.todo = c.todo /\ d.seen = c.seen /\ d.peer = c.peer
          /\ d.skipCard = c.skipCard
          /\ d.sent = c.sent /\ d.skipCalls = c.skipCalls
          /\ d.warned = c.warned /\ d.listed = c.listed /\ d.stable = c.stable
      BY <1>1, <2>2 DEF CallRecord
    <2> HIDE DEF c, d
    <2>4. HeaderInv("idle", d)
      BY <1>1, <1>3, <2>3 DEF HeaderInv
    <2>5. LookupInv("idle", d, topologyOnce, cachedTopology, cachedErr)
      BY <1>1, <1>3, <2>1, <2>3
         DEF LookupInv, BeforeLookup, AfterLookup, LoadErrors, ns
    <2>6. DecisionInv("idle", d, env)
      BY <1>1, <1>3, <2>1, <2>3 DEF DecisionInv, BeforeLookup, AfterLookup
    <2> QED
      BY <1>1, <2>1, <2>3, <2>4, <2>5, <2>6, LocalStep DEF Places
  <1>8. CASE PeerFound(g)
    <2> DEFINE p == FirstMatch(cachedTopology, c.name)
    <2>1. /\ cachedErr = "nil" /\ c.op # "Peers"
          /\ Matches(cachedTopology, c.name) # {}
      BY <1>8 DEF PeerFound
    <2>2. p \in Peer /\ p # NoPeer
      BY <1>2, <2>1, FirstMatchFacts, BuildAssumption
    <2> HIDE DEF p
    <2>3. PICK to \in {"idle", "resolver"}, r \in {"none", "ok", "no URL"} :
              /\ Step(g, "lookup", to, [c EXCEPT !.peer = p, !.result = r])
              /\ to = "resolver" => r = "none"
              /\ to = "idle" /\ r # "no URL" => c.op # "newForPeer" /\ r = "ok"
      <3> DEFINE found == [c EXCEPT !.peer = p]
      <3>1. found.result = "none" /\ found = [c EXCEPT !.peer = p, !.result = "none"]
        BY <1>1, <1>3 DEF CallRecord
      <3>2. /\ [found EXCEPT !.result = "ok"] = [c EXCEPT !.peer = p, !.result = "ok"]
            /\ [found EXCEPT !.result = "no URL"]
                  = [c EXCEPT !.peer = p, !.result = "no URL"]
        OBVIOUS
      <3>3. CASE c.op # "newForPeer" /\ ~ p.url
        <4>1. Step(g, "lookup", "idle", [found EXCEPT !.result = "no URL"])
          BY <1>8, <3>3 DEF PeerFound, p
        <4> QED
          BY <3>2, <4>1
      <3>4. CASE ~ (c.op # "newForPeer" /\ ~ p.url) /\ c.op = "PeerURL"
        <4>1. Step(g, "lookup", "idle", [found EXCEPT !.result = "ok"])
          BY <1>8, <3>4 DEF PeerFound, p
        <4> QED
          BY <3>2, <3>4, <4>1
      <3>5. CASE ~ (c.op # "newForPeer" /\ ~ p.url) /\ c.op # "PeerURL"
        <4>1. Step(g, "lookup", "resolver", found)
          BY <1>8, <3>5 DEF PeerFound, p
        <4> QED
          BY <3>1, <4>1
      <3> QED
        BY <3>3, <3>4, <3>5
    <2> DEFINE d == [c EXCEPT !.peer = p, !.result = r]
    <2>4. /\ d \in CallRecord /\ d.result = r /\ d.peer = p
          /\ d.op = c.op /\ d.name = c.name /\ d.headers = c.headers
          /\ d.todo = c.todo /\ d.seen = c.seen
          /\ d.names = c.names /\ d.skipCard = c.skipCard
          /\ d.sent = c.sent /\ d.skipCalls = c.skipCalls
          /\ d.warned = c.warned /\ d.listed = c.listed /\ d.stable = c.stable
      BY <1>1, <2>2 DEF CallRecord, Errors
    <2> HIDE DEF c, d
    <2>5. HeaderInv(to, d)
      BY <1>1, <1>3, <2>3, <2>4 DEF HeaderInv
    <2>6. LookupInv(to, d, topologyOnce, cachedTopology, cachedErr)
      BY <1>1, <1>3, <2>1, <2>2, <2>3, <2>4
         DEF LookupInv, BeforeLookup, AfterLookup, LoadErrors, p
    <2>7. DecisionInv(to, d, env)
      BY <1>1, <1>3, <2>3, <2>4 DEF DecisionInv, BeforeLookup, AfterLookup
    <2> QED
      BY <1>1, <2>3, <2>4, <2>5, <2>6, <2>7, LocalStep DEF Places, d
  <1> QED
    BY <1>5, <1>6, <1>7, <1>8


\* A step of a build past the lookup: what it decides now agrees with what the
\* environment has listed since the call began, and while that is stable, with
\* what the build decided before.
LEMMA SkipFacts ==
  ASSUME BuildInv, NEW g \in Goroutines, pc[g] \in AfterLookup
  PROVE  /\ call[g].peer \in Peer /\ call[g].peer.name = call[g].name
         /\ skipsTLSVerify(call[g].peer) \in BOOLEAN
         /\ skipsTLSVerify(call[g].peer) =>
               isManaged(call[g].peer) \/ call[g].name \in call[g].listed \ {Blank}
         /\ call[g].stable => (skipsTLSVerify(call[g].peer) <=> Skips(call[g]))
         /\ call[g].todo = {} /\ call[g].result = "none"
  <1>1. /\ call[g] \in CallRecord
        /\ HeaderInv(pc[g], call[g])
        /\ LookupInv(pc[g], call[g], topologyOnce, cachedTopology, cachedErr)
        /\ DecisionInv(pc[g], call[g], env)
    BY OwnCall
  <1>2. cachedTopology \in Seq(Peer)
    BY DEF BuildInv, RecordInv
  <1>3. /\ Matches(cachedTopology, call[g].name) # {}
        /\ call[g].peer = FirstMatch(cachedTopology, call[g].name)
    BY <1>1 DEF LookupInv
  <1>4. call[g].peer \in Peer /\ call[g].peer.name = call[g].name
    BY <1>2, <1>3, FirstMatchFacts
  <1>5. env \subseteq call[g].listed /\ (call[g].stable => call[g].listed = env)
    BY <1>1 DEF DecisionInv, AfterLookup
  <1>6. call[g].todo = {} /\ call[g].result = "none"
    BY <1>1 DEF HeaderInv, AfterLookup
  <1> QED
    BY <1>4, <1>5, <1>6 DEF skipsTLSVerify, insecureTLSPeers, Skips, isManaged

\* The steps of a build past the lookup.
LEMMA BuildStepInv ==
  ASSUME BuildInv, NEW g \in Goroutines,
         \/ ChooseResolver(g) \/ HeaderClient(g) \/ HeaderWarning(g)
         \/ Resolve(g) \/ ResolveFails(g) \/ Transports(g) \/ Create(g)
  PROVE  BuildInv'
  <1> DEFINE c == call[g]
             skip == skipsTLSVerify(c.peer)
  <1>1. /\ c \in CallRecord /\ pc[g] \in AfterLookup /\ UNCHANGED sharedVars
        /\ HeaderInv(pc[g], c)
        /\ LookupInv(pc[g], c, topologyOnce, cachedTopology, cachedErr)
        /\ DecisionInv(pc[g], c, env)
    BY OwnCall
       DEF ChooseResolver, HeaderClient, HeaderWarning, Resolve, ResolveFails,
           Transports, Create, Return, Step, AfterLookup
  <1>2. /\ c.peer \in Peer /\ c.peer.name = c.name
        /\ skip \in BOOLEAN
        /\ skip => isManaged(c.peer) \/ c.name \in c.listed \ {Blank}
        /\ c.stable => (skip <=> Skips(c))
        /\ c.todo = {} /\ c.result = "none"
    BY <1>1, SkipFacts
  <1>3. c.peer # NoPeer /\ topologyOnce = "done" /\ c.op # "Peers"
        /\ cachedErr = "nil"
    BY <1>1 DEF LookupInv
  <1> HIDE DEF c, skip
  <1> DEFINE Kept(d) ==
        /\ d \in CallRecord
        /\ d.op = c.op /\ d.name = c.name /\ d.headers = c.headers
        /\ d.todo = c.todo /\ d.seen = c.seen /\ d.peer = c.peer
        /\ d.names = c.names /\ d.listed = c.listed /\ d.stable = c.stable
  <1>4. ASSUME NEW to \in AfterLookup \cup {"idle"}, NEW d, Kept(d),
               Step(g, pc[g], to, d), DecisionInv(to, d, env),
               d.result \in Errors \cup {"none", "ok"},
               d.result \notin LoadErrors \cup {"bad headers"},
               to # "idle" => d.result = "none"
        PROVE  BuildInv'
    <2>1. HeaderInv(to, d)
      BY <1>1, <1>2, <1>4 DEF HeaderInv, AfterLookup
    <2>2. LookupInv(to, d, topologyOnce, cachedTopology, cachedErr)
      BY <1>1, <1>2, <1>3, <1>4 DEF LookupInv, BeforeLookup, AfterLookup
    <2> QED
      BY <1>1, <1>4, <2>1, <2>2, LocalStep DEF Places, AfterLookup
  <1>5. CASE ChooseResolver(g)
    <2> DEFINE d  == [c EXCEPT !.skipCard = skip]
               to == IF c.headers = {} THEN "resolve" ELSE "header client"
    <2>1. Step(g, "resolver", to, d) /\ pc[g] = "resolver"
      BY <1>5 DEF ChooseResolver, Step, c, skip
    <2>2. /\ Kept(d) /\ d.skipCard = skip
          /\ d.skipCalls = c.skipCalls /\ d.warned = c.warned /\ d.result = c.result
      BY <1>1, <1>2 DEF CallRecord
    <2>3. /\ to \in {"resolve", "header client"}
          /\ to = "resolve" <=> c.headers = {}
      OBVIOUS
    <2> HIDE DEF d, to
    <2>4. ~ c.skipCard /\ ~ c.skipCalls /\ c.warned = {}
      BY <1>1, <2>1 DEF DecisionInv, BeforeLookup
    <2>5. DecisionInv(to, d, env)
      BY <1>1, <1>2, <2>1, <2>2, <2>3, <2>4
         DEF DecisionInv, BeforeLookup, AfterLookup, Skips
    <2> QED
      BY <1>2, <1>4, <2>1, <2>2, <2>3, <2>5 DEF AfterLookup, Errors, LoadErrors
  <1>6. CASE HeaderClient(g)
    <2> DEFINE d == [c EXCEPT !.skipCard = skip, !.redirects = FALSE]
    <2>1. Step(g, "header client", "header warning", d) /\ pc[g] = "header client"
      BY <1>6 DEF HeaderClient, noRedirectClient, Step, c, skip
    <2>2. /\ Kept(d) /\ d.skipCard = skip
          /\ d.skipCalls = c.skipCalls /\ d.warned = c.warned /\ d.result = c.result
      BY <1>1, <1>2 DEF CallRecord
    <2> HIDE DEF d
    <2>3. DecisionInv("header warning", d, env)
      BY <1>1, <1>2, <2>1, <2>2
         DEF DecisionInv, BeforeLookup, AfterLookup, Skips
    <2> QED
      BY <1>2, <1>4, <2>1, <2>2, <2>3 DEF AfterLookup, Errors, LoadErrors
  <1>7. CASE HeaderWarning(g)
    <2> DEFINE w == IF skip THEN {"headers"} ELSE {}
               d == [c EXCEPT !.warned = w]
    <2>1. Step(g, "header warning", "resolve", d) /\ pc[g] = "header warning"
      BY <1>7 DEF HeaderWarning, Step, c, skip
    <2>2. /\ Kept(d) /\ d.warned = w
          /\ d.skipCard = c.skipCard /\ d.skipCalls = c.skipCalls
          /\ d.result = c.result
      BY <1>1, <1>2 DEF CallRecord
    <2>3. /\ "headers" \in w <=> skip
          /\ "external" \notin w
      OBVIOUS
    <2> HIDE DEF d, w
    <2>4. DecisionInv("resolve", d, env)
      BY <1>1, <1>2, <2>1, <2>2, <2>3
         DEF DecisionInv, BeforeLookup, AfterLookup, Skips
    <2> QED
      BY <1>2, <1>4, <2>1, <2>2, <2>4 DEF AfterLookup, Errors, LoadErrors
  <1>8. CASE Resolve(g)
    <2> DEFINE to == IF c.op = "newForPeer" THEN "transports" ELSE "idle"
               r  == IF c.op = "newForPeer" THEN "none" ELSE "ok"
               d  == [c EXCEPT !.sent = TRUE, !.result = r]
    <2>1. Step(g, "resolve", to, d) /\ pc[g] = "resolve"
      <3> DEFINE sent == [c EXCEPT !.sent = TRUE]
      <3>1. [sent EXCEPT !.result = "ok"] = [c EXCEPT !.sent = TRUE, !.result = "ok"]
        OBVIOUS
      <3>2. sent = [c EXCEPT !.sent = TRUE, !.result = "none"]
        BY <1>1, <1>2 DEF CallRecord
      <3>3. IF c.op = "newForPeer"
            THEN Step(g, "resolve", "transports", sent)
            ELSE Step(g, "resolve", "idle", [sent EXCEPT !.result = "ok"])
        BY <1>8 DEF Resolve, c
      <3>4. pc[g] = "resolve"
        BY <1>8 DEF Resolve
      <3> QED
        BY <3>1, <3>2, <3>3, <3>4
    <2>2. /\ Kept(d) /\ d.result = r
          /\ d.skipCard = c.skipCard /\ d.skipCalls = c.skipCalls
          /\ d.warned = c.warned
      BY <1>1 DEF CallRecord, Errors
    <2>3. /\ to \in {"transports", "idle"} /\ r \in {"none", "ok"}
          /\ to = "transports" => r = "none"
          /\ r = "ok" => c.op # "newForPeer"
      OBVIOUS
    <2> HIDE DEF d, r, to
    <2>4. DecisionInv(to, d, env)
      BY <1>1, <1>2, <2>1, <2>2, <2>3
         DEF DecisionInv, BeforeLookup, AfterLookup, Skips
    <2> QED
      BY <1>4, <2>1, <2>2, <2>3, <2>4 DEF AfterLookup, Errors, LoadErrors
  <1>9. CASE ResolveFails(g)
    <2> DEFINE d == [c EXCEPT !.sent = c.peer.url, !.result = "resolve failed"]
    <2>1. Step(g, "resolve", "idle", d) /\ pc[g] = "resolve"
      BY <1>9 DEF ResolveFails, Step, c
    <2>2. /\ Kept(d) /\ d.result = "resolve failed"
          /\ d.skipCard = c.skipCard /\ d.skipCalls = c.skipCalls
          /\ d.warned = c.warned
      BY <1>1, <1>2 DEF CallRecord, Errors, Peer
    <2> HIDE DEF d
    <2>3. DecisionInv("idle", d, env)
      BY <1>1, <1>2, <2>1, <2>2
         DEF DecisionInv, BeforeLookup, AfterLookup, Skips
    <2> QED
      BY <1>4, <2>1, <2>2, <2>3 DEF AfterLookup, Errors, LoadErrors
  <1>10. CASE Transports(g)
    <2> DEFINE warn == IF skip /\ ~ isManaged(c.peer) THEN {"external"} ELSE {}
               d == [c EXCEPT !.skipCalls = skip, !.warned = @ \cup warn]
    <2>1. Step(g, "transports", "create", d) /\ pc[g] = "transports"
      BY <1>10 DEF Transports, Step, c, skip
    <2>2. /\ Kept(d) /\ d.skipCalls = skip /\ d.warned = c.warned \cup warn
          /\ d.skipCard = c.skipCard /\ d.result = c.result
      BY <1>1, <1>2 DEF CallRecord
    <2>3. /\ "headers" \notin warn
          /\ "external" \in warn <=> skip /\ ~ isManaged(c.peer)
      OBVIOUS
    <2> HIDE DEF d, warn
    <2>4. DecisionInv("create", d, env)
      BY <1>1, <1>2, <2>1, <2>2, <2>3
         DEF DecisionInv, BeforeLookup, AfterLookup, Skips
    <2> QED
      BY <1>2, <1>4, <2>1, <2>2, <2>4 DEF AfterLookup, Errors, LoadErrors
  <1>11. CASE Create(g)
    <2>1. PICK r \in {"ok", "create failed"} :
              Step(g, "create", "idle", [c EXCEPT !.result = r])
      BY <1>11 DEF Create, Return, c
    <2> DEFINE d == [c EXCEPT !.result = r]
    <2>2. /\ Kept(d) /\ d.result = r
          /\ d.skipCard = c.skipCard /\ d.skipCalls = c.skipCalls
          /\ d.warned = c.warned /\ pc[g] = "create"
      BY <1>1, <2>1, ResultFacts DEF Errors, Step
    <2>3. Step(g, "create", "idle", d)
      BY <2>1
    <2> HIDE DEF d
    <2>4. DecisionInv("idle", d, env)
      BY <1>1, <1>2, <2>1, <2>2
         DEF DecisionInv, BeforeLookup, AfterLookup, Skips
    <2> QED
      BY <1>4, <2>1, <2>2, <2>3, <2>4 DEF AfterLookup, Errors, LoadErrors
  <1> QED
    BY <1>5, <1>6, <1>7, <1>8, <1>9, <1>10, <1>11


\* The environment changes: the calls under way have seen both values, and are
\* no longer stable.
LEMMA SetEnvInv ==
  ASSUME BuildInv, NEW names \in SUBSET (Peers \cup {Blank}), SetEnv(names)
  PROVE  BuildInv'
  <1>1. /\ env' = names /\ envChanges' = envChanges + 1
        /\ envChanges < MaxEnvChanges
        /\ UNCHANGED <<topologyOnce, cachedTopology, cachedErr, pc>>
        /\ call' = [g \in Goroutines |->
               IF pc[g] = "idle" THEN call[g]
               ELSE [call[g] EXCEPT !.listed = @ \cup names, !.stable = FALSE]]
    BY DEF SetEnv
  <1>2. ASSUME NEW g \in Goroutines
        PROVE  /\ call'[g] \in CallRecord
               /\ HeaderInv(pc[g], call'[g])
               /\ LookupInv(pc[g], call'[g], topologyOnce, cachedTopology,
                            cachedErr)
               /\ DecisionInv(pc[g], call'[g], names)
    <2> DEFINE c == call[g]
               d == [c EXCEPT !.listed = @ \cup names, !.stable = FALSE]
    <2>1. /\ c \in CallRecord /\ HeaderInv(pc[g], c)
          /\ LookupInv(pc[g], c, topologyOnce, cachedTopology, cachedErr)
          /\ DecisionInv(pc[g], c, env)
      BY OwnCall
    <2>2. CASE pc[g] = "idle"
      <3>1. call'[g] = c
        BY <1>1, <2>2
      <3> HIDE DEF c
      <3>2. DecisionInv(pc[g], c, names)
        BY <2>1, <2>2 DEF DecisionInv, BeforeLookup, AfterLookup
      <3> QED
        BY <2>1, <3>1, <3>2
    <2>3. CASE pc[g] # "idle"
      <3>1. call'[g] = d
        BY <1>1, <2>3
      <3>2. /\ d \in CallRecord /\ d.result = c.result
            /\ d.op = c.op /\ d.name = c.name /\ d.headers = c.headers
            /\ d.todo = c.todo /\ d.seen = c.seen /\ d.peer = c.peer
            /\ d.names = c.names /\ d.skipCard = c.skipCard
            /\ d.sent = c.sent /\ d.skipCalls = c.skipCalls
            /\ d.warned = c.warned /\ d.listed = c.listed \cup names
            /\ ~ d.stable
        BY <2>1 DEF CallRecord
      <3> HIDE DEF c, d
      <3>3. HeaderInv(pc[g], d)
        BY <2>1, <3>2 DEF HeaderInv
      <3>4. LookupInv(pc[g], d, topologyOnce, cachedTopology, cachedErr)
        BY <2>1, <3>2 DEF LookupInv, BeforeLookup, AfterLookup
      <3>5. DecisionInv(pc[g], d, names)
        BY <2>1, <3>2 DEF DecisionInv, BeforeLookup, AfterLookup
      <3> QED
        BY <3>1, <3>2, <3>3, <3>4, <3>5
    <2> QED
      BY <2>2, <2>3
  <1>3. RecordInv'
    <2>1. call' \in [Goroutines -> CallRecord]
      BY <1>1, <1>2
    <2>2. envChanges' \in 0 .. MaxEnvChanges
      <3>1. envChanges \in 0 .. MaxEnvChanges
        BY DEF BuildInv, RecordInv
      <3>2. MaxEnvChanges \in Nat
        BY BuildAssumption
      <3>3. envChanges' = envChanges + 1 /\ envChanges < MaxEnvChanges
        BY <1>1
      <3> QED
        BY <3>1, <3>2, <3>3
    <2> QED
      BY <1>1, <2>1, <2>2 DEF BuildInv, RecordInv
  <1>4. OnceInv'
    BY <1>1 DEF BuildInv, OnceInv
  <1> QED
    BY <1>1, <1>2, <1>3, <1>4 DEF BuildInv

\* The first goroutine enters topologyOnce.Do, and leaves it with the topology,
\* or the error, that all calls will see.  Nobody has an answer before.
LEMMA LoadInv ==
  ASSUME BuildInv, NEW g \in Goroutines, BeginLoad(g) \/ FinishLoad(g)
  PROVE  BuildInv'
  <1> USE DEF BuildInv
  <1>1. /\ env' = env /\ envChanges' = envChanges
        /\ call' = [call EXCEPT ![g] = call[g]]
        /\ pc' = [pc EXCEPT ![g] = pc'[g]]
        /\ pc \in [Goroutines -> Places] /\ call \in [Goroutines -> CallRecord]
    BY DEF BeginLoad, FinishLoad, Step, RecordInv
  <1>2. call' = call
    BY <1>1
  <1>3. \/ /\ BeginLoad(g) /\ topologyOnce = "new" /\ topologyOnce' = "running"
           /\ pc[g] = "load" /\ pc'[g] = "read"
           /\ UNCHANGED <<cachedTopology, cachedErr>>
        \/ /\ FinishLoad(g) /\ topologyOnce = "running" /\ topologyOnce' = "done"
           /\ pc[g] = "read" /\ pc'[g] = "lookup"
           /\ cachedTopology' \in Topologies \cup {<<>>}
           /\ cachedErr' \in LoadErrors \cup {"nil"}
    BY <1>1 DEF BeginLoad, FinishLoad, Step, LookupInv, Places
  <1>4. \A k \in Goroutines \ {g} : pc'[k] = pc[k]
    BY <1>1
  <1>5. RecordInv'
    <2>1. cachedTopology' \in Topologies \cup {<<>>}
      BY <1>3 DEF RecordInv
    <2>2. cachedTopology' \in Seq(Peer)
      <3>1. Topologies \subseteq Seq(Peer) /\ <<>> \in Seq(Peer)
        BY BuildAssumption
      <3> QED
        BY <2>1, <3>1
    <2>3. pc' \in [Goroutines -> Places]
      BY <1>1, <1>3 DEF Places
    <2>4. /\ topologyOnce' \in {"new", "running", "done"}
          /\ cachedErr' \in LoadErrors \cup {"nil"}
      BY <1>3 DEF RecordInv
    <2> QED
      BY <1>1, <1>2, <2>1, <2>2, <2>3, <2>4 DEF RecordInv
  <1>6. \A k \in Goroutines : pc[k] = "read" => topologyOnce = "running"
    BY DEF LookupInv
  <1>7. OnceInv'
    BY <1>3, <1>4, <1>6 DEF OnceInv
  <1>8. ASSUME NEW k \in Goroutines
        PROVE  /\ HeaderInv(pc'[k], call[k])
               /\ LookupInv(pc'[k], call[k], topologyOnce', cachedTopology',
                            cachedErr')
               /\ DecisionInv(pc'[k], call[k], env)
    <2> DEFINE c == call[k]
    <2>1. /\ HeaderInv(pc[k], c)
          /\ LookupInv(pc[k], c, topologyOnce, cachedTopology, cachedErr)
          /\ DecisionInv(pc[k], c, env) /\ pc[k] \in Places
      BY OwnCall
    <2>2. \/ pc'[k] = pc[k] /\ pc[k] # "read"
          \/ pc[k] = "load" /\ pc'[k] = "read" /\ topologyOnce' = "running"
          \/ pc[k] = "read" /\ pc'[k] = "lookup" /\ topologyOnce' = "done"
      BY <1>3, <1>4, <1>6 DEF OnceInv
    <2>3. topologyOnce # "done" /\ topologyOnce' \in {"running", "done"}
      BY <1>3
    <2> HIDE DEF c, BuildInv
    <2>4. HeaderInv(pc'[k], c)
      BY <2>1, <2>2 DEF HeaderInv
    <2>5. DecisionInv(pc'[k], c, env)
      BY <2>1, <2>2 DEF DecisionInv, BeforeLookup, AfterLookup
    <2>6. /\ c.peer = NoPeer
          /\ pc[k] \in {"idle", "headers", "load", "read"}
          /\ pc[k] = "idle" => c.result \in {"none", "bad headers"}
      BY <2>1, <2>3 DEF LookupInv, BeforeLookup, AfterLookup, Places
    <2>7. LookupInv(pc'[k], c, topologyOnce', cachedTopology', cachedErr')
      BY <2>1, <2>2, <2>3, <2>6 DEF LookupInv, BeforeLookup, AfterLookup
    <2> QED
      BY <2>4, <2>5, <2>7 DEF c
  <1> QED
    BY <1>1, <1>2, <1>5, <1>7, <1>8

\* Every step keeps the invariant.
LEMMA StepInv == BuildInv /\ [Next]_vars => BuildInv'
  <1> SUFFICES ASSUME BuildInv, [Next]_vars PROVE BuildInv'
    OBVIOUS
  <1>1. ASSUME NEW names \in SUBSET (Peers \cup {Blank}) \ {{}}, SetEnv(names)
        PROVE  BuildInv'
    BY <1>1, SetEnvInv
  <1>2. ASSUME NEW g \in Goroutines, NEW op \in Ops,
               NEW name \in Peers \cup {Blank}, NEW hs \in SUBSET Headers,
               Call(g, op, name, hs)
        PROVE  BuildInv'
    BY <1>2, CallInv
  <1>3. ASSUME NEW g \in Goroutines,
               \/ CheckHeader(g) \/ HeadersChecked(g)
               \/ BeginLoad(g) \/ FinishLoad(g) \/ JoinLoad(g)
        PROVE  BuildInv'
    BY <1>3, CheckHeaderInv, ProceedInv, LoadInv
  <1>4. ASSUME NEW g \in Goroutines,
               LoadFailed(g) \/ PeerNames(g) \/ PeerNotFound(g) \/ PeerFound(g)
        PROVE  BuildInv'
    BY <1>4, LookupStepInv
  <1>5. ASSUME NEW g \in Goroutines,
               \/ ChooseResolver(g) \/ HeaderClient(g) \/ HeaderWarning(g)
               \/ Resolve(g) \/ ResolveFails(g) \/ Transports(g) \/ Create(g)
        PROVE  BuildInv'
    BY <1>5, BuildStepInv
  <1>6. CASE UNCHANGED vars
    <2>1. UNCHANGED <<env, envChanges, topologyOnce, cachedTopology, cachedErr,
                      pc, call>>
      BY <1>6 DEF vars
    <2> QED
      BY <2>1 DEF BuildInv, RecordInv, OnceInv
  <1> QED
    BY <1>1, <1>2, <1>3, <1>4, <1>5, <1>6 DEF Next

\* BuildInv is an invariant of PeerBuild.
THEOREM BuildInvariant == Spec => []BuildInv
  BY InitInv, StepInv, PTL DEF Spec


\* Type correctness of PeerBuild.
THEOREM TypeCorrect == Spec => []TypeOK
  <1>1. BuildInv => TypeOK
    <2> SUFFICES ASSUME BuildInv PROVE TypeOK
      OBVIOUS
    <2>1. ASSUME NEW g \in Goroutines
          PROVE  LET c == call[g] IN
                 /\ c.op \in Ops
                 /\ c.name \in Peers \cup {Blank}
                 /\ c.headers \subseteq Headers /\ c.todo \subseteq c.headers
                 /\ c.seen = {h.lower : h \in c.headers \ c.todo}
                 /\ c.peer \in Peer \cup {NoPeer}
                 /\ c.names \in Seq(Peers)
                 /\ c.result \in Errors \cup {"none", "ok"}
                 /\ c.warned \subseteq {"headers", "external"}
                 /\ c.listed \subseteq Peers \cup {Blank}
                 /\ {c.skipCard, c.skipCalls, c.redirects, c.sent, c.stable}
                       \subseteq BOOLEAN
      <3>1. call[g] \in CallRecord
        BY OwnCall
      <3>2. /\ call[g].todo \subseteq call[g].headers
            /\ call[g].seen = {h.lower : h \in call[g].headers \ call[g].todo}
        BY OwnCall DEF HeaderInv
      <3> QED
        BY <3>1, <3>2 DEF CallRecord
    <2>2. DOMAIN call = Goroutines
      BY DEF BuildInv, RecordInv
    <2> QED
      BY <2>1, <2>2 DEF TypeOK, BuildInv, RecordInv
  <1> QED
    BY BuildInvariant, <1>1, PTL

\* validateHeaders accepts a header map if and only if it is acceptable, and no
\* request is sent with one that is not, for any set of headers.
THEOREM HeadersAreChecked == Spec => []HeadersVerdict
  <1>1. BuildInv => HeadersVerdict
    <2> SUFFICES ASSUME BuildInv, NEW g \in Goroutines
                 PROVE  /\ ~ Acceptable(call[g].headers) =>
                              /\ ~ call[g].sent
                              /\ call[g].result \in {"none", "bad headers"}
                        /\ call[g].result = "bad headers" =>
                              ~ Acceptable(call[g].headers)
      BY DEF HeadersVerdict
    <2>1. HeaderInv(pc[g], call[g])
      BY OwnCall
    <2>2. call[g].todo = {} => Acceptable(call[g].headers)
      <3>1. call[g].headers \ {} = call[g].headers
        OBVIOUS
      <3> QED
        BY <2>1, <3>1 DEF HeaderInv
    <2> QED
      BY <2>1, <2>2 DEF HeaderInv
  <1> QED
    BY BuildInvariant, <1>1, PTL

\* All answers come from one reading of the topology file, whoever reads it and
\* however it ends.
THEOREM AnswersAgree == Spec => []OneTopology
  <1>1. BuildInv => OneTopology
    <2> SUFFICES ASSUME BuildInv, NEW g \in Goroutines, NEW h \in Goroutines,
                        Answered(g), Answered(h)
                 PROVE
            /\ call[g].result \in LoadErrors => call[h].result = call[g].result
            /\ call[g].op = "Peers" /\ call[h].op # "Peers" =>
                  (call[h].peer # NoPeer <=>
                      \E i \in DOMAIN call[g].names : call[g].names[i] = call[h].name)
            /\ call[g].op # "Peers" /\ call[h].op # "Peers"
                  /\ call[g].name = call[h].name => call[g].peer = call[h].peer
      BY DEF OneTopology
    <2> DEFINE t == cachedTopology
               ns == [i \in DOMAIN t |-> t[i].name]
    <2>1. ASSUME NEW k \in Goroutines, Answered(k)
          PROVE  LET c == call[k] IN
                 /\ c.result \in LoadErrors => cachedErr # "nil"
                 /\ cachedErr # "nil" =>
                       c.result = cachedErr /\ c.peer = NoPeer /\ c.names = <<>>
                 /\ cachedErr = "nil" /\ c.op = "Peers" => c.names = ns
                 /\ cachedErr = "nil" /\ c.op # "Peers" =>
                       (c.peer = NoPeer <=> Matches(t, c.name) = {})
                 /\ c.peer # NoPeer => c.peer = FirstMatch(t, c.name)
      <3> DEFINE c == call[k]
      <3>1. /\ LookupInv(pc[k], c, topologyOnce, t, cachedErr)
            /\ HeaderInv(pc[k], c)
            /\ c \in CallRecord /\ pc[k] \in Places
        BY OwnCall
      <3>2. cachedErr \in LoadErrors \cup {"nil"}
        BY DEF BuildInv, RecordInv
      <3>3. \/ pc[k] = "idle" /\ c.result \notin {"none", "bad headers"}
            \/ c.peer # NoPeer
        BY <2>1 DEF Answered
      <3> HIDE DEF c
      <3>4. c.peer # NoPeer => cachedErr = "nil" /\ Matches(t, c.name) # {}
                               /\ c.peer = FirstMatch(t, c.name)
        BY <3>1 DEF LookupInv
      <3>5. c.result \in LoadErrors => cachedErr # "nil"
        BY <3>1, <3>3 DEF LookupInv, HeaderInv, LoadErrors
      <3>6. cachedErr # "nil" =>
                c.result = cachedErr /\ c.peer = NoPeer /\ c.names = <<>>
        BY <3>1, <3>2, <3>3, <3>4 DEF LookupInv
      <3>7. cachedErr = "nil" /\ c.op = "Peers" => c.names = ns
        BY <3>1, <3>3 DEF LookupInv
      <3>8. cachedErr = "nil" /\ c.op # "Peers" =>
                (c.peer = NoPeer <=> Matches(t, c.name) = {})
        BY <3>1, <3>3, <3>4 DEF LookupInv
      <3> QED
        BY <3>4, <3>5, <3>6, <3>7, <3>8 DEF c
    <2>2. call[g].result \in LoadErrors => call[h].result = call[g].result
      BY <2>1
    <2>3. ASSUME call[g].op = "Peers", call[h].op # "Peers"
          PROVE  call[h].peer # NoPeer <=>
                     \E i \in DOMAIN call[g].names : call[g].names[i] = call[h].name
      <3>1. CASE cachedErr # "nil"
        <4>1. call[g].names = <<>> /\ call[h].peer = NoPeer
          BY <2>1, <3>1
        <4> QED
          BY <4>1
      <3>2. CASE cachedErr = "nil"
        <4>1. /\ call[g].names = ns
              /\ call[h].peer = NoPeer <=> Matches(t, call[h].name) = {}
          BY <2>1, <2>3, <3>2
        <4>2. Matches(t, call[h].name) # {} <=> \E i \in DOMAIN ns : ns[i] = call[h].name
          BY DEF Matches
        <4> QED
          BY <4>1, <4>2
      <3> QED
        BY <3>1, <3>2
    <2>4. ASSUME call[g].op # "Peers", call[h].op # "Peers",
                 call[g].name = call[h].name
          PROVE  call[g].peer = call[h].peer
      BY <2>1, <2>4
    <2> QED
      BY <2>2, <2>3, <2>4
  <1> QED
    BY BuildInvariant, <1>1, PTL

\* A build during which the environment did not change decides once and for all
\* whether the peer is verified.
THEOREM StableBuildsAgree == Spec => []StableBuildAgrees
  <1>1. BuildInv => StableBuildAgrees
    <2> SUFFICES ASSUME BuildInv, NEW g \in Goroutines,
                        call[g].op = "newForPeer", call[g].result = "ok",
                        call[g].stable
                 PROVE  /\ call[g].skipCard = call[g].skipCalls
                        /\ "headers" \in call[g].warned
                              <=> call[g].headers # {} /\ call[g].skipCard
                        /\ "external" \in call[g].warned
                              <=> call[g].skipCalls /\ ~ isManaged(call[g].peer)
      BY DEF StableBuildAgrees
    <2>1. DecisionInv(pc[g], call[g], env)
      BY OwnCall
    <2>2. call[g].skipCard \in BOOLEAN /\ call[g].skipCalls \in BOOLEAN
      BY OwnCall DEF CallRecord
    <2> QED
      BY <2>1, <2>2 DEF DecisionInv
  <1> QED
    BY BuildInvariant, <1>1, PTL

\* No External peer goes unverified unless the environment has listed its name
\* since the call began.
THEOREM VerifiedUnlessListed == Spec => []UnverifiedOnlyIfListed
  <1>1. BuildInv => UnverifiedOnlyIfListed
    BY OwnCall DEF UnverifiedOnlyIfListed, DecisionInv
  <1> QED
    BY BuildInvariant, <1>1, PTL
=============================================================================
