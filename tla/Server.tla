------------------------------- MODULE Server -------------------------------
(***************************************************************************)
(* server.Start (pkg/server/server.go, handler.go, listener.go and         *)
(* serverinfo.go): build the handlers, bind two listeners, tell the        *)
(* broker, serve both, and shut down when the context ends or a server     *)
(* fails.  Start, the two goroutines that serve, the shutdown timer and    *)
(* the requests interleave; any system call may fail; the process may end  *)
(* at any time and be started again, with the files it left.               *)
(***************************************************************************)
EXTENDS Integers, Sequences

CONSTANTS
    MaxRequests,   \* bound: requests in flight on one listener
    MaxProcesses   \* bound: processes that run one after the other

ASSUME ServerAssumption ==
    /\ MaxRequests \in Nat
    /\ MaxProcesses \in Nat \ {0}

Listeners  == {"http", "grpc"}
Transports == {"JSONRPC", "HTTP+JSON", "GRPC"}   \* ProtocolBinding
Results    == {"nil", "err"}                     \* an error value

VARIABLES
    pc,        \* where Start is
    mounted,   \* transports mounted so far
    network,   \* network of each listener: "unix" or "tcp"
    socket,    \* the socket file: "none", "bound", or "stale" from a crash
    ln,        \* the listener: "none", "open" or "closed"
    info,      \* server-info file: "none", "current", or "stale"
    temps,     \* temporary files: "mine" and "stale" ones
    srv,       \* its serving goroutine: "none", "spawned", "serving", "exited"
    closing,   \* servers that were told to stop
    stopped,   \* Stop or GracefulStop of the gRPC server is over
    active,    \* requests in flight
    serveErr,  \* the channel
    got,       \* results Start has received from it
    why,       \* how Start came to stop: "none", "serve", "timeout", "graceful"
    ctxDone,   \* ctx is cancelled
    expired,   \* shutdownCtx is over
    ret,       \* what Start returned
    processes, \* history: processes so far
    failed,    \* history: servers whose goroutine ended with an error
    cut        \* history: a request was cut off

netVars  == <<network, socket, ln>>
fileVars == <<info, temps>>
srvVars  == <<srv, closing, stopped, active, serveErr>>
stopVars == <<got, why, expired, ret>>
pastVars == <<processes, failed, cut>>
vars     == <<pc, mounted, netVars, fileVars, srvVars, stopVars, ctxDone,
              pastVars>>

\* resolveListener: an explicit address wins, else it depends on POD_NAME.
resolveListener(explicit, inCluster) ==
    CASE explicit = "absolute path" -> "unix"
      [] explicit = "host:port"     -> "tcp"
      [] explicit = "none"          -> IF inCluster THEN "unix" ELSE "tcp"

Everywhere(v) == [l \in Listeners |-> v]

Init ==
    /\ \E explicit \in [Listeners -> {"none", "absolute path", "host:port"}],
          inCluster \in BOOLEAN :
          network = [l \in Listeners |-> resolveListener(explicit[l], inCluster)]
    /\ socket = Everywhere("none") /\ info = "none" /\ temps = {}
    /\ processes = 1
    /\ pc = "args" /\ mounted = {}
    /\ ln = Everywhere("none") /\ srv = Everywhere("none")
    /\ active = Everywhere(0)
    /\ closing = {} /\ stopped = FALSE
    /\ serveErr = <<>> /\ got = <<>> /\ why = "none" /\ ret = "none"
    /\ ctxDone = FALSE /\ expired = FALSE
    /\ failed = {} /\ cut = FALSE

Goto(from, to) == pc = from /\ pc' = to

\* Listeners close; a Unix listener removes its socket.
Close(ls) ==
    /\ ln' = [l \in Listeners |-> IF l \in ls THEN "closed" ELSE ln[l]]
    /\ socket' = [l \in Listeners |->
           IF l \in ls /\ ln[l] = "open" THEN "none" ELSE socket[l]]
    /\ UNCHANGED network

Return(r) ==
    /\ pc' = "returned"
    /\ ret' = r

------------------------------------------------------------------------------
(***************************************************************************)
(* Start, up to the point where it serves.                                 *)
(***************************************************************************)

\* A missing executor or card is an error.
CheckArgs ==
    /\ pc = "args"
    /\ \/ pc' = "stack" /\ UNCHANGED ret
       \/ Return("err")
    /\ UNCHANGED <<mounted, netVars, fileVars, srvVars, got, why, expired,
                   ctxDone, pastVars>>

\* buildStack, one round of its loop: the next interface of the card.  Bindings
\* it does not know are skipped; the mux panics and grpc-go ends the process
\* when a transport is registered twice.
Mount(t) ==
    /\ pc = "stack"
    /\ pc' = IF t \in mounted THEN "crashed" ELSE pc
    /\ mounted' = mounted \cup {t}
    /\ UNCHANGED <<netVars, fileVars, srvVars, stopVars, ctxDone, pastVars>>

\* buildStack returns: the card lists no further interface.
StackBuilt ==
    /\ Goto("stack", "http")
    /\ UNCHANGED <<mounted, netVars, fileVars, srvVars, stopVars, ctxDone,
                   pastVars>>

\* Mutant: the server-info is written as soon as the HTTP listener is open.
AfterListen_InfoFirst(l) ==
    IF l = "http" /\ network["http"] = "unix" THEN "info"
    ELSE IF l = "http" THEN "grpc" ELSE "spawn"

\* What Start does once listener l is open.
AfterListen(l) ==
    CASE l = "http"                              -> "grpc"
      [] l = "grpc" /\ network["http"] = "unix"  -> "info"
      [] l = "grpc" /\ network["http"] # "unix"  -> "spawn"

\* newListener: a stale socket is removed first.
Listen(l) ==
    /\ Goto(l, AfterListen(l))
    /\ ln' = [ln EXCEPT ![l] = "open"]
    /\ socket' = [socket EXCEPT
           ![l] = IF network[l] = "unix" THEN "bound" ELSE @]
    /\ UNCHANGED <<mounted, network, fileVars, srvVars, stopVars, ctxDone,
                   pastVars>>

\* Mutant: the HTTP listener stays open when the gRPC one cannot be opened.
OpenBefore_None(l) == {}

\* The listeners that are open when listener l fails, which Start closes.
OpenBefore(l) == IF l = "grpc" THEN {"http"} ELSE {}

\* A step of newListener fails, after or before the stale socket was removed.
ListenFails(l) ==
    /\ pc = l
    /\ Return("err")
    /\ \E left \in {"none", socket[l]} :
          socket' = [k \in Listeners |->
              IF k = l THEN left
              ELSE IF k \in OpenBefore(l) THEN "none" ELSE socket[k]]
    /\ ln' = [k \in Listeners |-> IF k \in OpenBefore(l) THEN "closed" ELSE ln[k]]
    /\ UNCHANGED <<mounted, network, fileVars, srvVars, got, why, expired,
                   ctxDone, pastVars>>

\* writeServerInfo: a temporary file is written ...
WriteInfoTemp ==
    /\ Goto("info", "rename info")
    /\ temps' = temps \cup {"mine"}
    /\ UNCHANGED <<mounted, netVars, info, srvVars, stopVars, ctxDone, pastVars>>

\* ... and renamed to the real name.
RenameInfo ==
    /\ Goto("rename info", "spawn")
    /\ info' = "current"
    /\ temps' = temps \ {"mine"}
    /\ UNCHANGED <<mounted, netVars, srvVars, stopVars, ctxDone, pastVars>>

\* Any step of it fails: the temporary file goes, the listeners are closed.
ServerInfoFails ==
    /\ pc \in {"info", "rename info"}
    /\ Return("err")
    /\ Close(Listeners)
    /\ temps' = temps \ {"mine"}
    /\ UNCHANGED <<mounted, info, srvVars, got, why, expired, ctxDone, pastVars>>

Spawn ==
    /\ Goto("spawn", "select")
    /\ srv' = Everywhere("spawned")
    /\ UNCHANGED <<mounted, netVars, fileVars, closing, stopped, active,
                   serveErr, stopVars, ctxDone, pastVars>>

------------------------------------------------------------------------------
(***************************************************************************)
(* The goroutines that serve, in net/http and grpc-go, and the requests.   *)
(***************************************************************************)

\* Mutant: the goroutine sends its result twice.
Send_Twice(r) == serveErr' = serveErr \o <<r, r>>

\* serveErr <- r; the channel has room for both goroutines.
Send(r) == serveErr' = Append(serveErr, r)

\* Serve ends: it closes its listener, and the goroutine sends the result.
Exit(l, r) ==
    /\ srv' = [srv EXCEPT ![l] = "exited"]
    /\ Send(r)
    /\ Close({l})
    /\ UNCHANGED <<pc, mounted, fileVars, closing, stopped, active, stopVars,
                   ctxDone, processes, cut>>

\* Serve begins, unless the server was told to stop before.
BeginServe(l) ==
    /\ srv[l] = "spawned"
    /\ l \notin closing
    /\ srv' = [srv EXCEPT ![l] = "serving"]
    /\ UNCHANGED <<pc, mounted, netVars, fileVars, closing, stopped, active,
                   serveErr, stopVars, ctxDone, pastVars>>

\* Serve returns because the server was told to stop, before it began or
\* while it served: that of net/http at once, that of grpc-go when Stop or
\* GracefulStop is over.
ServeStops(l) ==
    /\ l \in closing
    /\ \/ srv[l] = "spawned"
       \/ srv[l] = "serving" /\ (l = "grpc" => stopped)
    /\ Exit(l, "nil")
    /\ UNCHANGED failed

\* Accept fails for good.
AcceptFails(l) ==
    /\ srv[l] = "serving"
    /\ l \notin closing
    /\ Exit(l, "err")
    /\ failed' = failed \cup {l}

Arrive(l) ==
    /\ srv[l] = "serving"
    /\ ln[l] = "open"
    /\ active[l] < MaxRequests
    /\ active' = [active EXCEPT ![l] = @ + 1]
    /\ UNCHANGED <<pc, mounted, netVars, fileVars, srv, closing, stopped,
                   serveErr, stopVars, ctxDone, pastVars>>

Finish(l) ==
    /\ active[l] > 0
    /\ active' = [active EXCEPT ![l] = @ - 1]
    /\ UNCHANGED <<pc, mounted, netVars, fileVars, srv, closing, stopped,
                   serveErr, stopVars, ctxDone, pastVars>>

------------------------------------------------------------------------------
(***************************************************************************)
(* Start, from the select on.  Whichever of ctx and serveErr is ready is   *)
(* taken; when both are, either.                                           *)
(***************************************************************************)

\* Server l is told to stop.  It closes a listener it has begun to serve.
TellToStop(l) ==
    /\ closing' = closing \cup {l}
    /\ IF srv[l] = "serving" THEN Close({l}) ELSE UNCHANGED netVars

\* It cuts the requests in flight.
CutOff(l) ==
    /\ active' = [active EXCEPT ![l] = 0]
    /\ cut' = (cut \/ active[l] > 0)

\* Mutant: the readiness is not set before the shutdown.
SelectCtx_NoFlip ==
    /\ Goto("select", "shutdown")
    /\ ctxDone
    /\ UNCHANGED <<mounted, netVars, fileVars, srvVars, stopVars, ctxDone,
                   pastVars>>

SelectCtx ==
    /\ Goto("select", "flip")
    /\ ctxDone
    /\ UNCHANGED <<mounted, netVars, fileVars, srvVars, stopVars, ctxDone,
                   pastVars>>

SelectServeErr ==
    /\ Goto("select", "close")
    /\ serveErr # <<>>
    /\ got' = <<Head(serveErr)>>
    /\ serveErr' = Tail(serveErr)
    /\ why' = "serve"
    /\ UNCHANGED <<mounted, netVars, fileVars, srv, closing, stopped, active,
                   expired, ret, ctxDone, pastVars>>

\* httpSrv.Close
CloseHTTP ==
    /\ Goto("close", "stop")
    /\ TellToStop("http")
    /\ CutOff("http")
    /\ UNCHANGED <<mounted, fileVars, srv, stopped, serveErr, stopVars, ctxDone,
                   processes, failed>>

\* grpcServer.Stop
StopGRPC ==
    /\ Goto("stop", "drain")
    /\ TellToStop("grpc")
    /\ CutOff("grpc")
    /\ stopped' = TRUE
    /\ UNCHANGED <<mounted, fileVars, srv, serveErr, stopVars, ctxDone,
                   processes, failed>>

\* o.health.SetServing(false) returns; module Readiness says what it does.
Flip ==
    /\ Goto("flip", "shutdown")
    /\ UNCHANGED <<mounted, netVars, fileVars, srvVars, stopVars, ctxDone,
                   pastVars>>

\* httpSrv.Shutdown closes the listener, then waits for the requests ...
BeginShutdown ==
    /\ Goto("shutdown", "wait http")
    /\ TellToStop("http")
    /\ UNCHANGED <<mounted, fileVars, srv, stopped, active, serveErr, stopVars,
                   ctxDone, pastVars>>

ShutdownDone ==
    /\ Goto("wait http", "graceful")
    /\ active["http"] = 0
    /\ UNCHANGED <<mounted, netVars, fileVars, srvVars, stopVars, ctxDone,
                   pastVars>>

\* ... until shutdownCtx is over: the timer.
Expire ==
    /\ pc = "wait http"
    /\ ~ expired
    /\ expired' = TRUE
    /\ UNCHANGED <<pc, mounted, netVars, fileVars, srvVars, got, why, ret,
                   ctxDone, pastVars>>

\* Mutant: Shutdown gets a context without a deadline.
TimedOut_Never == FALSE

\* The context given to Shutdown is over.
TimedOut == expired

ShutdownTimeout ==
    /\ Goto("wait http", "stop")
    /\ TimedOut
    /\ why' = "timeout"
    /\ UNCHANGED <<mounted, netVars, fileVars, srvVars, got, expired, ret,
                   ctxDone, pastVars>>

\* grpcServer.GracefulStop closes the listener and waits for the requests.
BeginGracefulStop ==
    /\ Goto("graceful", "wait grpc")
    /\ TellToStop("grpc")
    /\ UNCHANGED <<mounted, fileVars, srv, stopped, active, serveErr, stopVars,
                   ctxDone, pastVars>>

GracefulStopDone ==
    /\ Goto("wait grpc", "drain")
    /\ active["grpc"] = 0
    /\ stopped' = TRUE
    /\ why' = "graceful"
    /\ UNCHANGED <<mounted, netVars, fileVars, srv, closing, active, serveErr,
                   got, expired, ret, ctxDone, pastVars>>

\* Mutants: the second result is ignored; the error of Shutdown is.
Outcome_FirstOnly(results) ==
    IF why = "timeout" THEN "err" ELSE results[1]
Outcome_NoTimeout(results) ==
    IF results[1] # "nil" THEN results[1] ELSE results[2]

\* What Start returns once both results are in.
Outcome(results) ==
    CASE why = "serve"    -> results[1]
      [] why = "timeout"  -> "err"
      [] why = "graceful" -> IF results[1] # "nil" THEN results[1] ELSE results[2]

\* <-serveErr, as often as it takes to have both results.
Receive ==
    /\ pc = "drain"
    /\ serveErr # <<>>
    /\ got' = Append(got, Head(serveErr))
    /\ serveErr' = Tail(serveErr)
    /\ IF Len(got') = 2 THEN Return(Outcome(got')) ELSE UNCHANGED <<pc, ret>>
    /\ UNCHANGED <<mounted, netVars, fileVars, srv, closing, stopped, active,
                   why, expired, ctxDone, pastVars>>

------------------------------------------------------------------------------

CancelCtx ==
    /\ ~ ctxDone
    /\ ctxDone' = TRUE
    /\ UNCHANGED <<pc, mounted, netVars, fileVars, srvVars, stopVars, pastVars>>

\* The process ends, wherever it is, and another one starts with the files.
Restart ==
    /\ processes < MaxProcesses
    /\ processes' = processes + 1
    /\ socket' = [l \in Listeners |->
           IF socket[l] = "bound" THEN "stale" ELSE socket[l]]
    /\ info' = IF info = "current" THEN "stale" ELSE info
    /\ temps' = IF temps = {} THEN {} ELSE {"stale"}
    /\ pc' = "args" /\ mounted' = {}
    /\ ln' = Everywhere("none") /\ srv' = Everywhere("none")
    /\ active' = Everywhere(0)
    /\ closing' = {} /\ stopped' = FALSE
    /\ serveErr' = <<>> /\ got' = <<>> /\ why' = "none" /\ ret' = "none"
    /\ ctxDone' = FALSE /\ expired' = FALSE
    /\ failed' = {} /\ cut' = FALSE
    /\ UNCHANGED network

StartStep ==
    \/ CheckArgs
    \/ \E t \in Transports : Mount(t)
    \/ StackBuilt
    \/ \E l \in Listeners : Listen(l) \/ ListenFails(l)
    \/ WriteInfoTemp \/ RenameInfo \/ ServerInfoFails
    \/ Spawn
    \/ SelectCtx \/ SelectServeErr
    \/ CloseHTTP \/ StopGRPC
    \/ Flip \/ BeginShutdown \/ ShutdownDone \/ ShutdownTimeout
    \/ BeginGracefulStop \/ GracefulStopDone
    \/ Receive

ServeStep(l) == BeginServe(l) \/ ServeStops(l)

Next ==
    \/ StartStep
    \/ \E l \in Listeners :
          ServeStep(l) \/ AcceptFails(l) \/ Arrive(l) \/ Finish(l)
    \/ Expire
    \/ CancelCtx
    \/ Restart

Spec == Init /\ [][Next]_vars

\* Start and the serving goroutines are scheduled and the timer fires.  Nothing
\* is assumed about how long a request takes.
FairSpec ==
    /\ Spec
    /\ WF_vars(StartStep)
    /\ \A l \in Listeners : WF_vars(ServeStep(l))
    /\ WF_vars(Expire)

\* The same, and gRPC requests end.
DrainingSpec == FairSpec /\ WF_vars(Finish("grpc"))

------------------------------------------------------------------------------
(***************************************************************************)
(* Properties.                                                             *)
(***************************************************************************)

\* Every variable has its type.
TypeOK ==
    /\ pc \in {"args", "stack", "http", "grpc", "info", "rename info", "spawn",
              "select", "close", "stop", "flip", "shutdown", "wait http",
              "graceful", "wait grpc", "drain", "returned", "crashed"}
    /\ mounted \subseteq Transports
    /\ network \in [Listeners -> {"unix", "tcp"}]
    /\ socket \in [Listeners -> {"none", "bound", "stale"}]
    /\ ln \in [Listeners -> {"none", "open", "closed"}]
    /\ info \in {"none", "current", "stale"}
    /\ temps \subseteq {"mine", "stale"}
    /\ srv \in [Listeners -> {"none", "spawned", "serving", "exited"}]
    /\ closing \subseteq Listeners
    /\ stopped \in BOOLEAN
    /\ active \in [Listeners -> 0 .. MaxRequests]
    /\ serveErr \in Seq(Results) /\ Len(serveErr) =< 2
    /\ got \in Seq(Results) /\ Len(got) =< 2
    /\ why \in {"none", "serve", "timeout", "graceful"}
    /\ ctxDone \in BOOLEAN /\ expired \in BOOLEAN
    /\ ret \in Results \cup {"none"}
    /\ processes \in Nat
    /\ failed \subseteq Listeners
    /\ cut \in BOOLEAN

\* When Start has returned, on whatever path, or died while it built the
\* handlers, no goroutine of it serves, no listener is open, and no socket and
\* no temporary file of it is left.
ReturnsClean ==
    pc \in {"returned", "crashed"} =>
        /\ "mine" \notin temps
        /\ \A l \in Listeners : /\ ln[l] # "open"
                                /\ socket[l] # "bound"
                                /\ srv[l] \in {"none", "exited"}

\* Start returns nil only if neither server failed, also when a server fails
\* while the context ends and the select takes the context.
ErrorReported == ret = "nil" => failed = {}

\* Start returns nil only after every request that had begun was answered.
NilMeansDrained ==
    ret = "nil" => ~ cut /\ \A l \in Listeners : active[l] = 0

\* The broker that reads this process's server-info finds both listeners
\* bound, until Start begins to stop.
InfoMeansBound ==
    info = "current" /\ closing = {} /\ failed = {} =>
        \A l \in Listeners : ln[l] = "open"

\* Start returns after the context ends, unless it dies while it builds the
\* handlers: "Start did not return within shutdown timeout" is a failure.
Returns == ctxDone ~> (pc \in {"returned", "crashed"} \/ ~ ctxDone)

\* The phase of StartLifecycle Start is in.
Phase ==
    CASE pc \in {"http", "grpc", "info", "rename info", "spawn"} -> "bind"
      [] pc = "select" -> "serve"
      [] pc \in {"close", "stop", "shutdown", "wait http", "graceful",
                "wait grpc", "drain"} -> IF why = "serve" THEN "abort" ELSE "stop"
      [] OTHER -> pc

L == INSTANCE StartLifecycle WITH phase <- Phase

\* Start goes through the phases of StartLifecycle: it stops for the end of its
\* context only after it has set its Health, and for the end of a server
\* without.
ImplementsLifecycle == L!Spec
=============================================================================
