# kynomesh-go: TLA+ models and proofs

TLA+ modules for the parts of the SDK whose correctness depends on
interleavings, failures and restarts, TLC configurations that check them on
small instances, and TLAPS proofs that hold for every value of the constants.
`PROJECT.json` maps each definition to the lines it models.

## The system

| Component | State | Operations | What is hard |
|---|---|---|---|
| Peer client cache (`pkg/client/cache.go`) | map name → entry; per entry a `sync.Once`, client, error | `PeerClient`, `PeerClientWithCardHeaders`, `ForgetPeer` | concurrent first callers, a failed build and late evictions, `ForgetPeer` during a build, a panic in the once |
| Client construction (`client.go`) | the environment variable `KYNOMESH_INSECURE_TLS_PEERS` | `newForPeerCardHeaders`, `ResolveAgentCard`, `PeerURL`, `Peers` | the environment may change between its up to four readings in one build |
| Peer-hashes file (`hash.go`) | a JSON file the broker reads, a clear-once, a mutex | `recordPeerHash` | read-modify-write, crash between any two steps, files of an earlier process |
| Card headers (`headers.go`) | none | `validateHeaders` | verdict under random map order |
| Topology (`topology.go`) | parsed file or error, once per process | `lookupPeer`, `peerURL`, `peerNames` | racing first callers, cached failure |
| Health (`pkg/server/health.go`) | an atomic status, the attached gRPC health server | `SetServing`, `attach`, two probes | two copies of one status without a common lock |
| Start (`server.go`, `listener.go`) | two listeners, two serving goroutines, a channel, a timer | `Start` | select, partial failure of the start, shutdown order and time limits, stale sockets |
| Server-info (`serverinfo.go`) | a JSON file the broker reads | `Write` | atomic replacement, staleness |
| Handler stack (`handler.go`) | mux, gRPC server | `buildStack` | a transport listed twice |
| Examples (`examples/`) | questions under way | executors of coordinator, searcher, slow agent, hello world | a worker that stops or dies while it works |

The agent calls `Start`, which attaches the `Health` to a new gRPC server,
opens the listeners, writes server-info for the broker in the same pod and
serves. Its executor calls `PeerClient` for other agents; the cache builds one
client per peer and, in a pod, records the hash of the AgentCard it was built
from, which the broker compares with the peer's live card. Other goroutines of
the program, such as the README's `watchHealth`, share the `Health` with `Start`.

What makes each part correct:

* cache: one client per peer until it is forgotten, errors not cached,
  `ForgetPeer` effective, the recorded hash that of the client in use, every
  caller released;
* hashes: whole file at all times, no lost update, nothing of an earlier
  process, calls atomic;
* construction: bad headers never leave, all lookups agree on one topology, a
  build is of one mind about TLS verification, and only listed External peers
  go unverified;
* health: both probes tell the same, and not ready once a shutdown has begun;
* start: nothing left open, no error lost, requests drained, readiness flipped
  first, server-info only for bound sockets, `Start` returns;
* examples: every question gets an answer or an error.

## Modules

| Module | Models | Run from |
|---|---|---|
| `PeerClientCache` | `cache.go` and the build it guards | `MCPeerClientCache` |
| `PeerClientCacheProofs` | inductive invariant and proofs | – |
| `HashRegister` | what `recordPeerHash` promises: an atomic register | through `PeerHashes` |
| `PeerHashes` | `hash.go`, step by step | `MCPeerHashes` |
| `PeerHashesProofs` | inductive invariant, proofs, refinement | – |
| `Health` | `health.go`, step by step | `MCHealth` |
| `HealthProofs` | inductive invariant and proofs | – |
| `StartLifecycle` | what `Start` promises: the phases it goes through | through `Server` and `Readiness` |
| `Server` | `Start`, handlers, listeners, server-info, serving goroutines | `MCServer` |
| `ServerProofs` | inductive invariant, proofs, refinement | – |
| `Readiness` | `Health` composed with `StartLifecycle` and watchers | `MCReadiness` |
| `ReadinessProofs` | inductive invariant and proofs on top of `HealthProofs` | – |
| `PeerBuild` | `client.go`, `topology.go`, `headers.go` | `MCPeerBuild` |
| `PeerBuildProofs` | inductive invariant and proofs | – |
| `Assistant` | the example agents on top of `Server` | `MCAssistant` |
| `AssistantProofs` | inductive invariant and proofs on top of `ServerProofs` | – |

### PeerClientCache

A critical section of `peerClientsMu` is one action (`Lookup`, `forgetEntry`
inside `ReturnError`, `ForgetPeer`). `BeginBuild` and `JoinBuild` are the two
ways through `once.Do`. The build is `ResolveCard`, `NewFromCard`,
`RecordPeerHash`, or ends in `BuildFails` or `BuildPanics`; bad headers, an
unknown peer, a failed or cancelled request and an unusable card are all
`BuildFails`. A panic can only come from a caller's option, in `NewFromCard`.
An AgentCard is a version number that `ChangeCard` increases. `hashes` is the
peer-hashes file as the atomic register that `PeerHashes` implements; recording
is best effort, so it may also not happen. Recording and the end of the once
are one step: nothing reads the entry in between. The variables marked history
(`forgotten`, `reported`, `lastForget`, `floor`, `busyForget`) only serve the
properties.

### PeerHashes and HashRegister

`recordPeerHash` in steps: hash, clear-once (`BeginClear`, `Remove`,
`JoinClear`), `Lock`, `Read`, `CreateTemp`, `WriteTemp` (write, close, chmod),
`Rename`, `Unlock`. `Fail` is the error of any file operation after the lock.
`Remove` may fail, as its error is ignored. `Crash` ends the process between
any two steps and starts the next one; the file stays. An entry carries the
number of the process that wrote it, in the place of `observedAt`. `Torn` is a
file shorter than what was to be written. A crash of the whole node is not
modelled: the directory belongs to the pod. That removing a temporary file can
fail is left out. `inPod` is fixed at the start of a behaviour.

`HashRegister` has calls that take effect at one instant or fail without
effect, a best-effort `Clear` that comes before any effect, and `Restart`. The
refinement maps an absent file to the empty register, the pending call to
`call` (until the rename, or the operation that fails) and `cleared` to the
once being done.

### Health

`SetServing` is `Store`, `Load`, `Push`; `attach` is `NewServer`, `Seed`,
`Publish`. Several Starts may follow one another with one Health (concurrent
ones are not supported by the code). `Init` has a Health from `NewHealth` and
the zero value. `overlap` records whether operations overlapped since one last
began while nothing else ran.

### Server and StartLifecycle

`Start` from its argument checks to its return. `Mount` and `StackBuilt` are
`buildStack`: the card lists any transports in any order, and one that comes
twice ends the process (the mux panics, grpc-go calls `Fatalf`). Each listener
is on a Unix socket or TCP, as `resolveListener` decides. `WriteInfoTemp`,
`RenameInfo` and `ServerInfoFails` are `serverinfo.Write`; as in `PeerHashes`,
removing a temporary file does not fail. `why` tells which of the three ways out
is taken (a serve error, a shutdown that timed out, a graceful one) and `got`
the results received from `serveErr`. How `Serve`, `Close`, `Shutdown`, `Stop`
and `GracefulStop` of net/http and grpc-go behave is external, modelled as the
code uses it: a server told to stop before its goroutine called `Serve` lets
`Serve` close the listener; gRPC's `Serve` returns when `Stop` or
`GracefulStop` is over. `Restart` is a crash, or the end of the process after
`Start` returned.

`StartLifecycle` keeps of all this the phase `Start` is in and the context.
`Server` implements it (`ImplementsLifecycle`, with `Phase` as the refinement
mapping). It tells the two ways to stop apart: for the end of the context, with
the readiness set first, and for the end of a server, without.

### Readiness

`EXTENDS Health` and an instance of `StartLifecycle`. Each step of `Start` that
touches the Health is one action with it: `BeginAttach` is `CheckArgs` and the
first step of `attach`, `BeginFlip` is `SelectCtx` and the first step of
`SetServing(false)`, and `EndFlip` needs that call to have returned. The
watchers are the README's `watchHealth`: a check, whose result is acted upon in
a later step, `SetServing`, and a select between the ticker and the context. A
check fails once the context is over. `StartAgain` lets the program
call `Start` again with the Health it has. `late` has the watchers whose
`SetServing(true)` was under way when the flip began, or began later.

### PeerBuild

A call is a record with its arguments, what it has found and decided, and its
result. `validateHeaders` takes the entries in any order (`CheckHeader`).
`BeginLoad`, `FinishLoad` and `JoinLoad` are `topologyOnce.Do`. Each evaluation
of `skipsTLSVerify` is an action of its own (`ChooseResolver`, `HeaderClient`,
`HeaderWarning`, `Transports`), and `SetEnv` may come between any two. A
resolver that is given an empty URL fails. `listed` and `stable` are history.
Factory options that replace the default transports are left out.

### Assistant

`EXTENDS Server` for the worker; `ask` is where the coordinator's `Execute` for
a question is and `work` the listener on which the worker's runs. `SendMessage`
is an `Arrive` of the server, over a transport the card mounted, and `Execute`
a `Finish`. `httpSrv.Close`, `grpcServer.Stop` and the end of the process cut
connections (`Cut`), which the coordinator sees as an error. `PeerClient` may
fail or succeed at any time; that it returns is `CallsReturn` of the cache. The
delay of the slow agent may be over at any time. The coordinator's own server is
not modelled: only its executor is.

## Runs

| Run | Bounds | Shows |
|---|---|---|
| `cache` | 3 callers, 1 peer, 2 entries, 2 cards | `BuiltClientKept`, `FailureNotCached`, `ForgetTakesEffect`, `HashMatchesCachedClient`, `CallsReturn` |
| `cache_panic` | 2 callers, 1 peer | finding: nil client and nil error after a panic |
| `hashes` | 2 callers, 2 peers, 2 hashes, 2 processes | `NeverTorn`, `RecordedStays`, `NoStaleEntry`, `OneTempFile`, `ImplementsRegister`, `CallsReturn` |
| `hashes_stale` | 2 callers, 2 peers, 2 processes | finding: old entries readable after a restart |
| `health_alone` | 3 setters, 3 Starts | `AgreeWhenAlone` |
| `health_attach` | 1 setter, 1 Start | finding: flip lost to the gRPC probe |
| `readiness` | 2 watchers, 2 Starts | `DownUnlessSetLate`, `ProbesHeal` |
| `readiness_watcher` | 1 watcher, 1 Start | finding: ready again while shutting down |
| `server` | 2 requests per listener, 3 processes | `ReturnsClean`, `ErrorReported`, `NilMeansDrained`, `InfoMeansBound`, `ImplementsLifecycle`; `Returns`, if gRPC requests end |
| `server_timeout` | 1 request per listener | finding: `Start` does not return while a gRPC request lasts |
| `build` | 2 callers, 2 names, 5 topologies, 3 headers, 1 change of the environment | `HeadersVerdict`, `OneTopology`, `StableBuildAgrees`, `UnverifiedOnlyIfListed` |
| `assistant` | 1 question, 2 processes of the worker | `AcceptedIsAnswered`, `EveryQuestionReplied`, `ImplementsServer` |

Why the bounds are enough. Three callers give a builder, a caller that waits
for it and one that comes later and finds another entry; two entries make an
old and a new build of one peer; two cards tell an old client from a new one.
Peers share nothing in the cache but the map, so one is enough. Two writers of
two peers with two processes have a pair of writers at every pair of steps,
with a crash before and after the clearing; the proofs cover more. Two requests
make "some are left" different from "none". In `build`, the topologies have no
peer, a peer of each kind, one name with two kinds, a peer without URL and one
without name; the headers two keys that differ in case only and a bad value. In
`assistant`, one question meets every step of the worker's server; that several
requests drain is the business of `server`.

Bounds in the guards: `MaxEntries` (entries allocated), `MaxCard` (changes of a
card), `MaxIncarnation` and `MaxProcesses` (restarts), `MaxStarts`,
`MaxRequests`, `MaxEnvChanges`. Symmetry is used for safety runs only. The runs
of `Server`, `Readiness` and `Assistant` do not check for deadlock, since a
process whose `Start` has returned may stop; that `Start` gets there is
`Returns`.

Every property of a passing run has a mutant, an operator named after the
definition it alters (`forgetEntry_AnyEntry`), that makes TLC report it.

### Fairness

* cache: weak fairness of each call under way. The Go scheduler is fair, and a
  build ends: the HTTP client of a card request has a 30 s timeout.
* hashes: the same, and strong fairness of `Lock`: a waiter of a `sync.Mutex`
  that starves for 1 ms gets it next.
* server: weak fairness of `Start`, of the serving goroutines and of the timer.
  `DrainingSpec` adds that gRPC requests end, which the SDK does not ensure;
  HTTP requests need not, thanks to the timeout. `server_timeout` drops it.
* assistant: the fairness of `FairSpec`, of the coordinator's goroutines and of
  the worker's executor, whose wait is a timer. `ImplementsServer` shows that
  this gives `DrainingSpec`: the example agents justify the assumption.
* readiness: weak fairness of the watchers, whose checks are limited to two
  seconds and whose ticker ticks; none of `Start`.

No operation has to be called, no context has to end and no process has to
crash.

## Findings

1. A panic in a build poisons the peer's entry (`cache_panic`).
2. After a restart the broker reads old hashes until the first client is built
   (`hashes_stale`).
3. A `SetServing` during `Start`'s `attach` never reaches the gRPC probe
   (`health_attach`).
4. The README's watcher, or any `SetServing(true)` under way at or after the
   flip, makes a replica that is shutting down ready again, and then ends
   (`readiness_watcher`). `DownUnlessSetLate` shows that nothing else does.
5. The shutdown timeout does not bound `GracefulStop` (`server_timeout`).

The zero value of `Health`, which `health.go:35` says reports SERVING, is
`UNKNOWN` and not ready on either probe; `Init` of `Health` has it as a starting
state, and `AgreeWhenAlone` covers it.

Concurrent `SetServing` calls may also be ordered one way in `h.serving` and the
other way in the gRPC server and leave the probes different;
`AgreeWhenAlone` excludes exactly the two overlaps, of setters with each other
and with `attach`, and `ProbesHeal` shows that a watcher that sets its finding
after every check (not only on a change, as the comment on `watchHealth` has it)
repairs both.

Visible in the models, without a run of their own:

* when `Shutdown` times out, HTTP requests go on after `Start` has returned its
  error;
* a build runs under the first caller's context, whose cancellation fails every
  waiter;
* when the environment changes during a build, the card may be fetched without
  verification and the transports verify, or the other way round, and headers
  may go out unverified without their warning; the warning about an External
  peer is logged after the card was fetched, so not at all when that fails;
* a card that lists a transport twice ends the process.

The searcher's `lookup` iterates over a map, so a query that matches two keys
gets its hits in either order, although its comment speaks of a deterministic
response.

## Proofs

Every invariant that a passing run checks, and both refinements without
fairness, are also theorems. They hold for every value of the constants, from
the ASSUMEs of the modules only: special values differ from the ordinary ones,
bounds are natural numbers, at least one process runs, `Start` is one of the
setters of its Health, the topologies are sequences of peers, and there are
finitely many questions. TLC agrees with each inductive invariant on the bounds
of its run.

* `PeerClientCacheProofs`: `CacheInv` is inductive. `Ownership` (an entry
  belongs to one name, and calls that share an entry share the name) makes
  eviction harmless to other peers. `OnceInv` (a running build has one builder,
  an outcome comes with the end of the once) freezes a finished entry.
  `KeptInv` generalises `BuiltClientKept` to entries that are still to be
  built, as the client is not yet there when a race could evict it. `FreshInv`
  bounds the cards of entries in the map and in calls. `HashInv` says that,
  unless `ForgetPeer` overlapped a build, the entry in the map is the only one
  that can still record. The four safety properties and `TypeOK` follow.
* `PeerHashesProofs`: `HashesInv` has mutual exclusion, the clear-once, and
  `SnapshotInv`: the map a writer holds is the present file with its own entry
  replaced. That is why a rename loses nothing, and it is also the step of the
  refinement: `Rename` is the register's `TakeEffect`. `Refinement` states
  `Spec => Register!Spec`.
* `HealthProofs`: `AloneInv`, what holds while the operation that began alone
  is not overlapped, gives `AgreeWhenAlone`.

* `ServerProofs`: `ServerInv`. `StartInv` says what `Start` has opened, spawned
  and told to stop at each `pc`; `FileInv` and `ServeInv` tie sockets, files and
  listeners to it, which gives `ReturnsClean` and `InfoMeansBound`. `ResultInv`
  counts: results in the channel and received are as many as goroutines that
  ended, and the error of a failed server is among them, so that `Start` never
  takes two results for one and `ErrorReported` follows when both are nil.
  `StopInv` ties the reason to stop to the requests: one is cut only after a
  failure or a timeout, and the graceful way waits for both listeners; with
  `ReturnInv` that is `NilMeansDrained`. `Refinement` is `Spec =>
  ImplementsLifecycle`, step by step under `StopInv`, which says which phase
  (stop or abort) a `pc` belongs to.
* `ReadinessProofs`: `ReadinessImplementsHealth` shows that a step of the
  composition is a step of `Health` or none, so `HealthInv`, and with it
  `AgreeWhenAlone`, holds there without another proof. `PhaseInv` and `FlipInv`
  place `attach` and the flip in the phases of `Start`; `LateInv` generalises
  `DownUnlessSetLate` to the time while the flip is under way, where the gRPC
  status may still be the old one but nobody is about to push SERVING.
* `PeerBuildProofs`: `BuildInv` has one part per goroutine and question.
  `HeaderInv`: the headers seen so far are acceptable and the rest is still to
  do, which is independent of the order; `LookupInv`: what a call has learned is
  what the topology the once has read says; `DecisionInv`: a decision not to
  verify rests on a name listed during the call, and all decisions are one while
  the environment does not change. That `lookupPeer` finds a first match is the
  least element of a non-empty set of indices (`WFMin` of the library, so no
  induction of our own). `Matches` and `FirstMatch` take the topology as an
  argument for these proofs.
* `AssistantProofs`: `AssistantInv` extends `ServerInv`. A step of the assistant
  is a step of `Server` or none (`AssistantRunsServer`), which carries every
  theorem about `Server` over to the worker. The requests in flight are counted
  by the questions (`Cardinality` under one element more, one less, or none),
  so a request cut is a question lost and the other way round. `CleanInv` and
  `LostInv` date both histories: a process whose `Start` returned nil cut
  nothing before, by `NilMeansDrained`, and has nothing to lose when it ends
  later. `AcceptedIsAnswered` follows.

Model-checked only: the liveness properties (`CallsReturn` twice, `Returns`,
`ProbesHeal`, `EveryQuestionReplied`, and the fairness in `ImplementsServer`,
whose safety part is `AssistantRunsServer`), because fairness is out of the
prover's reach; and the properties of the violation runs, which are false.

## Not modelled

Contents of files, cards and messages, digests, JSON; logging, except the two
warnings about TLS; the routing of a request to a handler; factory options that
replace transports; the texts the example agents produce, their command lines
and the coordinator's own server; the broker, which is not in the repository.
Functions that only tests call (`resetPeerClientCache`, `resetTopologyCache`,
`resetPeerHashesState`) are left out.

## Plan

1. Done: cache, hashes with refinement, health, start and shutdown with its
   lifecycle, readiness, construction, examples, and proofs of the safety
   properties of all of them.
2. Left: action properties that say more than the invariants, such as which
   steps may move an entry of the cache or a phase of `Start` backwards, and
   their proofs from the same invariants.
