---------------------------- MODULE ServerProofs ----------------------------
(***************************************************************************)
(* Proofs about Server for any number of requests and processes.           *)
(***************************************************************************)
EXTENDS Server, TLAPS

BeforeSpawn == {"args", "stack", "http", "grpc", "info", "rename info", "spawn"}
Running     == {"select", "close", "stop", "flip", "shutdown", "wait http",
                "graceful", "wait grpc", "drain"}

\* Nothing of the serving part has happened yet.
Untouched ==
    /\ srv = Everywhere("none") /\ active = Everywhere(0)
    /\ closing = {} /\ stopped = FALSE
    /\ serveErr = <<>> /\ got = <<>> /\ why = "none"
    /\ failed = {} /\ cut = FALSE

\* What Start has done when it is at pc: the listeners it has opened before it
\* spawns, the servers it has told to stop after.
StartInv ==
    /\ pc \in BeforeSpawn \cup {"crashed"} => Untouched
    /\ pc \in {"args", "stack", "http", "crashed"} => ln = Everywhere("none")
    /\ pc = "grpc" => ln["http"] = "open" /\ ln["grpc"] = "none"
    /\ pc \in {"info", "rename info", "spawn"} => ln = Everywhere("open")
    /\ pc \in {"select", "close", "flip", "shutdown"} => closing = {}
    /\ pc \in {"wait http", "graceful", "stop"} => closing = {"http"}
    /\ pc \in {"wait grpc", "drain"} => closing = Listeners
    /\ pc = "drain" => stopped
    /\ pc \in Running => \A l \in Listeners : srv[l] # "none"

\* The files and sockets it owns.
FileInv ==
    /\ "mine" \in temps => pc = "rename info"
    /\ info = "current" => \/ pc \in Running \cup {"spawn"}
                           \/ pc = "returned" /\ closing = Listeners
    /\ \A l \in Listeners : socket[l] = "bound" => ln[l] = "open"

\* A serving goroutine and its listener.
ServeInv == \A l \in Listeners :
    /\ srv[l] = "spawned" => ln[l] = "open"
    /\ srv[l] = "serving" => (ln[l] = "open" <=> l \notin closing)
    /\ srv[l] = "exited"  => ln[l] = "closed" /\ (l \in closing \/ l \in failed)
    /\ l \in failed => srv[l] = "exited"

Ended(l) == IF srv[l] = "exited" THEN 1 ELSE 0

\* Every goroutine that has ended has sent one result, Start has taken it or
\* not, and the error of a server that failed is one of them.  While no server
\* was told to stop, every result is an error.
ResultInv ==
    /\ Len(serveErr) + Len(got) = Ended("http") + Ended("grpc")
    /\ failed # {} => \/ \E i \in 1 .. Len(serveErr) : serveErr[i] = "err"
                      \/ \E i \in 1 .. Len(got) : got[i] = "err"
    /\ closing = {} => \A i \in 1 .. Len(serveErr) : serveErr[i] = "err"
    /\ pc \in Running \ {"drain"} /\ why # "serve" => got = <<>>
    /\ pc \in Running => Len(got) < 2
    /\ why = "serve" => Len(got) > 0 /\ got[1] = "err"

\* Why Start stops, and what that says of the requests.
StopInv ==
    /\ pc \in {"select", "flip", "shutdown", "wait http", "graceful", "wait grpc"}
           => why = "none"
    /\ pc = "close" => why = "serve"
    /\ pc = "stop"  => why \in {"serve", "timeout"}
    /\ pc = "drain" => why # "none"
    /\ cut => why \in {"serve", "timeout"}
    /\ pc \in {"graceful", "wait grpc"} => active["http"] = 0
    /\ why = "graceful" => /\ pc \in {"drain", "returned"}
                           /\ \A l \in Listeners : active[l] = 0

\* What is left when Start has returned.
ReturnInv ==
    /\ ret # "none" => pc = "returned"
    /\ pc = "returned" =>
          \/ Untouched /\ \A l \in Listeners : ln[l] # "open"
          \/ /\ closing = Listeners
             /\ \A l \in Listeners : srv[l] = "exited"
    /\ ret = "nil" => why = "graceful" /\ failed = {}

ServerInv ==
    /\ TypeOK /\ StartInv /\ FileInv /\ ServeInv /\ ResultInv /\ StopInv
    /\ ReturnInv

\* The state server.Start begins in satisfies the invariant.
LEMMA InitInv == Init => ServerInv
  <1> SUFFICES ASSUME Init PROVE ServerInv
    OBVIOUS
  <1>1. network \in [Listeners -> {"unix", "tcp"}]
    BY DEF Init, resolveListener
  <1>2. /\ socket = Everywhere("none") /\ info = "none" /\ temps = {}
        /\ processes = 1 /\ pc = "args" /\ mounted = {}
        /\ ln = Everywhere("none") /\ Untouched
        /\ ret = "none" /\ ctxDone = FALSE /\ expired = FALSE
    BY DEF Init, Untouched
  <1>3. /\ serveErr \in Seq(Results) /\ Len(serveErr) = 0
        /\ got \in Seq(Results) /\ Len(got) = 0
    BY <1>2 DEF Untouched
  <1>4. TypeOK
    <2>1. active \in [Listeners -> 0 .. MaxRequests]
      BY <1>2, ServerAssumption DEF Untouched, Everywhere
    <2>2. /\ stopped \in BOOLEAN /\ cut \in BOOLEAN
          /\ ctxDone \in BOOLEAN /\ expired \in BOOLEAN
      BY <1>2 DEF Untouched
    <2>3. /\ socket \in [Listeners -> {"none", "bound", "stale"}]
          /\ ln \in [Listeners -> {"none", "open", "closed"}]
          /\ srv \in [Listeners -> {"none", "spawned", "serving", "exited"}]
      BY <1>2 DEF Untouched, Everywhere
    <2>4. /\ closing = {} /\ failed = {} /\ why = "none"
      BY <1>2 DEF Untouched
    <2> QED
      BY <1>1, <1>2, <1>3, <2>1, <2>2, <2>3, <2>4 DEF TypeOK
  <1>5. ResultInv
    BY <1>2, <1>3 DEF ResultInv, Untouched, Ended, Everywhere, Listeners, Running
  <1>6. StartInv /\ FileInv /\ ServeInv /\ StopInv /\ ReturnInv
    BY <1>2 DEF StartInv, FileInv, ServeInv, StopInv, ReturnInv, Untouched,
           Everywhere, BeforeSpawn, Running, Listeners
  <1> QED
    BY <1>4, <1>5, <1>6 DEF ServerInv

\* Closing listeners changes no other one, and leaves none of their sockets.
LEMMA CloseFacts ==
  ASSUME TypeOK, FileInv, NEW ls \in SUBSET Listeners, Close(ls)
  PROVE  /\ network' = network
         /\ ln' \in [Listeners -> {"none", "open", "closed"}]
         /\ socket' \in [Listeners -> {"none", "bound", "stale"}]
         /\ \A l \in ls : ln'[l] = "closed" /\ socket'[l] # "bound"
         /\ \A l \in Listeners \ ls : ln'[l] = ln[l] /\ socket'[l] = socket[l]
  BY DEF Close, TypeOK, FileInv

\* What Shutdown, GracefulStop, Close and Stop do to the server they are called
\* on, and that they leave the other one alone.
LEMMA TellFacts ==
  ASSUME TypeOK, FileInv, ServeInv, NEW l \in Listeners, TellToStop(l)
  PROVE  /\ closing' = closing \cup {l}
         /\ network' = network
         /\ ln' \in [Listeners -> {"none", "open", "closed"}]
         /\ socket' \in [Listeners -> {"none", "bound", "stale"}]
         /\ srv[l] = "serving" => ln'[l] = "closed"
         /\ srv[l] # "serving" => ln'[l] = ln[l]
         /\ \A k \in Listeners \ {l} : ln'[k] = ln[k]
         /\ \A k \in Listeners : socket'[k] = "bound" => ln'[k] = "open"
  <1>1. CASE srv[l] = "serving"
    <2>1. Close({l})
      BY <1>1 DEF TellToStop
    <2> QED
      BY <1>1, <2>1, CloseFacts DEF TellToStop, FileInv
  <1>2. CASE srv[l] # "serving"
    BY <1>2 DEF TellToStop, FileInv, TypeOK, netVars
  <1> QED
    BY <1>1, <1>2

\* Sending appends a result to serveErr and keeps the others in place.
LEMMA SendFacts ==
  ASSUME serveErr \in Seq(Results), NEW r \in Results, Send(r)
  PROVE  /\ serveErr' \in Seq(Results)
         /\ Len(serveErr') = Len(serveErr) + 1
         /\ serveErr'[Len(serveErr) + 1] = r
         /\ \A i \in 1 .. Len(serveErr) : serveErr'[i] = serveErr[i]
  BY DEF Send

\* Receiving moves the head of a channel's sequence to the end of another.
LEMMA ReceiveFacts ==
  ASSUME NEW S, NEW q \in Seq(S), NEW g \in Seq(S), q # <<>>
  PROVE  /\ Head(q) \in S /\ Head(q) = q[1] /\ Len(q) > 0
         /\ Tail(q) \in Seq(S) /\ Len(Tail(q)) = Len(q) - 1
         /\ \A i \in 1 .. Len(Tail(q)) : Tail(q)[i] = q[i + 1]
         /\ Append(g, Head(q)) \in Seq(S)
         /\ Len(Append(g, Head(q))) = Len(g) + 1
         /\ Append(g, Head(q))[Len(g) + 1] = q[1]
         /\ \A i \in 1 .. Len(g) : Append(g, Head(q))[i] = g[i]
  OBVIOUS


\* The steps of Start up to the one that spawns the serving goroutines.
LEMMA StartingInv ==
  ASSUME ServerInv,
         \/ CheckArgs \/ StackBuilt \/ \E t \in Transports : Mount(t)
         \/ \E l \in Listeners : Listen(l) \/ ListenFails(l)
         \/ WriteInfoTemp \/ RenameInfo \/ ServerInfoFails \/ Spawn
  PROVE  ServerInv'
  <1> USE DEF ServerInv, Goto, Return, netVars, fileVars, srvVars, stopVars,
              pastVars, BeforeSpawn, Running, Untouched
  <1>1. CASE CheckArgs
    <2>1. TypeOK'
      BY <1>1 DEF CheckArgs, TypeOK, Results
    <2> QED
      BY <1>1, <2>1
         DEF CheckArgs, StartInv, FileInv, ServeInv, ResultInv, StopInv,
             ReturnInv, Everywhere, Ended
  <1>2. ASSUME NEW t \in Transports, Mount(t) PROVE ServerInv'
    BY <1>2
       DEF Mount, TypeOK, StartInv, FileInv, ServeInv, ResultInv, StopInv,
           ReturnInv, Everywhere, Ended
  <1>3. CASE StackBuilt
    BY <1>3
       DEF StackBuilt, TypeOK, StartInv, FileInv, ServeInv, ResultInv, StopInv,
           ReturnInv, Everywhere, Ended
  <1>4. ASSUME NEW l \in Listeners, Listen(l) PROVE ServerInv'
    <2>1. TypeOK'
      BY <1>4 DEF Listen, AfterListen, TypeOK, Listeners
    <2>2. CASE l = "http"
      BY <1>4, <2>1, <2>2
         DEF Listen, AfterListen, TypeOK, StartInv, FileInv, ServeInv,
             ResultInv, StopInv, ReturnInv, Everywhere, Ended, Listeners
    <2>3. CASE l = "grpc"
      <3>1. /\ pc = "grpc" /\ pc' \in {"info", "spawn"}
            /\ ln' = Everywhere("open")
        BY <1>4, <2>3
           DEF Listen, AfterListen, TypeOK, StartInv, Everywhere, Listeners
      <3> QED
        BY <1>4, <2>1, <2>3, <3>1
           DEF Listen, TypeOK, StartInv, FileInv, ServeInv, ResultInv, StopInv,
               ReturnInv, Everywhere, Ended, Listeners
    <2> QED
      BY <2>2, <2>3 DEF Listeners
  <1>5. ASSUME NEW l \in Listeners, ListenFails(l) PROVE ServerInv'
    <2>1. /\ pc = l /\ ln[l] = "none" /\ socket[l] # "bound" /\ Untouched
          /\ \A k \in Listeners \ OpenBefore(l) :
                ln[k] = "none" /\ socket[k] \in {"none", "stale"}
      BY <1>5
         DEF ListenFails, TypeOK, StartInv, FileInv, OpenBefore, Listeners,
             Everywhere
    <2>2. /\ pc' = "returned" /\ ret' = "err"
          /\ UNCHANGED <<mounted, network, fileVars, srvVars, got, why, expired,
                         ctxDone, pastVars>>
      BY <1>5 DEF ListenFails
    <2>3. ln' \in [Listeners -> {"none", "closed"}]
      BY <1>5, <2>1 DEF ListenFails
    <2>4. socket' \in [Listeners -> {"none", "stale"}]
      <3>1. PICK left \in {"none", socket[l]} : socket' = [k \in Listeners |->
                IF k = l THEN left
                ELSE IF k \in OpenBefore(l) THEN "none" ELSE socket[k]]
        BY <1>5 DEF ListenFails
      <3>2. left \in {"none", "stale"}
        BY <2>1, <3>1 DEF OpenBefore, Listeners
      <3> QED
        BY <2>1, <3>1, <3>2
    <2>5. TypeOK'
      BY <2>2, <2>3, <2>4 DEF TypeOK, Results
    <2>6. StartInv' /\ FileInv' /\ ServeInv' /\ ReturnInv'
      BY <2>1, <2>2, <2>3, <2>4
         DEF TypeOK, StartInv, FileInv, ServeInv, ReturnInv, Everywhere
    <2>7. ResultInv' /\ StopInv'
      BY <2>1, <2>2 DEF ResultInv, StopInv, Ended, Everywhere
    <2> QED
      BY <2>5, <2>6, <2>7
  <1>6. CASE WriteInfoTemp
    <2>1. TypeOK'
      BY <1>6 DEF WriteInfoTemp, TypeOK
    <2> QED
      BY <1>6, <2>1
         DEF WriteInfoTemp, StartInv, FileInv, ServeInv, ResultInv, StopInv,
             ReturnInv, Everywhere, Ended
  <1>7. CASE RenameInfo
    <2>1. TypeOK'
      BY <1>7 DEF RenameInfo, TypeOK
    <2> QED
      BY <1>7, <2>1
         DEF RenameInfo, StartInv, FileInv, ServeInv, ResultInv, StopInv,
             ReturnInv, Everywhere, Ended
  <1>8. CASE ServerInfoFails
    <2>1. /\ ln' \in [Listeners -> {"none", "open", "closed"}]
          /\ socket' \in [Listeners -> {"none", "bound", "stale"}]
          /\ network' = network
          /\ \A l \in Listeners : ln'[l] = "closed" /\ socket'[l] # "bound"
      BY <1>8, CloseFacts DEF ServerInfoFails
    <2>2. TypeOK'
      BY <1>8, <2>1 DEF ServerInfoFails, TypeOK, Results
    <2> QED
      BY <1>8, <2>1, <2>2
         DEF ServerInfoFails, StartInv, FileInv, ServeInv, ResultInv, StopInv,
             ReturnInv, Everywhere, Ended
  <1>9. CASE Spawn
    BY <1>9
       DEF Spawn, TypeOK, StartInv, FileInv, ServeInv, ResultInv, StopInv,
           ReturnInv, Everywhere, Ended, Listeners
  <1> QED
    BY <1>1, <1>2, <1>3, <1>4, <1>5, <1>6, <1>7, <1>8, <1>9


\* A serving goroutine ends: with nil when its server was told to stop, else
\* with an error.
LEMMA ExitInv ==
  ASSUME ServerInv, NEW l \in Listeners, NEW r \in Results, Exit(l, r),
         srv[l] \in {"spawned", "serving"},
         r = "nil" => l \in closing /\ failed' = failed,
         r = "err" => l \notin closing /\ failed' = failed \cup {l}
  PROVE  ServerInv'
  <1> USE DEF ServerInv, fileVars, stopVars, BeforeSpawn, Running
  <1>1. /\ ln' \in [Listeners -> {"none", "open", "closed"}]
        /\ socket' \in [Listeners -> {"none", "bound", "stale"}]
        /\ network' = network
        /\ ln'[l] = "closed" /\ socket'[l] # "bound"
        /\ \A k \in Listeners \ {l} : ln'[k] = ln[k] /\ socket'[k] = socket[k]
    BY CloseFacts DEF Exit
  <1>2. /\ serveErr' \in Seq(Results)
        /\ Len(serveErr') = Len(serveErr) + 1
        /\ serveErr'[Len(serveErr) + 1] = r
        /\ \A i \in 1 .. Len(serveErr) : serveErr'[i] = serveErr[i]
    BY SendFacts DEF Exit, TypeOK
  <1>3. /\ srv' = [srv EXCEPT ![l] = "exited"]
        /\ UNCHANGED <<pc, mounted, info, temps, closing, stopped, active, got,
                       why, expired, ret, ctxDone, processes, cut>>
    BY DEF Exit
  <1>4. /\ pc \in Running \cup {"returned"} /\ pc # "returned"
        /\ failed' \subseteq Listeners
    BY DEF TypeOK, StartInv, ReturnInv, Untouched, Everywhere, Results
  <1>5. Len(serveErr) \in Nat /\ Len(got) \in Nat
    <2>1. serveErr \in Seq(Results) /\ got \in Seq(Results)
      BY DEF TypeOK
    <2> QED
      BY <2>1
  <1>6. /\ Ended(l) = 0 /\ Ended(l)' = 1
        /\ \A k \in Listeners \ {l} : Ended(k)' = Ended(k)
        /\ \A k \in Listeners : Ended(k)' \in {0, 1}
    BY <1>3 DEF TypeOK, Ended
  <1>7. Len(serveErr') + Len(got') = Ended("http")' + Ended("grpc")'
    <2>1. Len(serveErr) + Len(got) = Ended("http") + Ended("grpc")
      BY DEF ResultInv
    <2> HIDE DEF ServerInv
    <2> QED
      BY <1>2, <1>3, <1>5, <1>6, <2>1 DEF Listeners
  <1>8. TypeOK'
    <2>1. Len(serveErr') =< 2
      BY <1>2, <1>3, <1>5, <1>6, <1>7 DEF Listeners
    <2>2. srv' \in [Listeners -> {"none", "spawned", "serving", "exited"}]
      BY <1>3 DEF TypeOK
    <2>3. /\ stopped' \in BOOLEAN /\ cut' \in BOOLEAN
          /\ ctxDone' \in BOOLEAN /\ expired' \in BOOLEAN
      BY <1>3 DEF TypeOK
    <2> QED
      BY <1>1, <1>2, <1>3, <1>4, <2>1, <2>2, <2>3 DEF TypeOK
  <1>9. StartInv' /\ FileInv'
    BY <1>1, <1>3, <1>4 DEF TypeOK, StartInv, FileInv, Listeners
  <1>10. ServeInv'
    <2>1. srv'[l] = "exited" /\ \A k \in Listeners \ {l} : srv'[k] = srv[k]
      BY <1>3 DEF TypeOK
    <2>2. l \in closing \/ l \in failed'
      BY DEF Results
    <2>3. \A k \in Listeners \ {l} : k \in failed' <=> k \in failed
      BY DEF Results
    <2> QED
      BY <1>1, <1>3, <2>1, <2>2, <2>3 DEF ServeInv
  <1>11. ResultInv'
    <2>1. failed' # {} => \/ \E i \in 1 .. Len(serveErr') : serveErr'[i] = "err"
                          \/ \E i \in 1 .. Len(got') : got'[i] = "err"
      <3>1. CASE r = "err"
        BY <1>2, <1>5, <3>1
      <3>2. CASE r = "nil"
        <4>1. /\ failed # {} => \/ \E i \in 1 .. Len(serveErr) : serveErr[i] = "err"
                              \/ \E i \in 1 .. Len(got) : got[i] = "err"
              /\ failed' = failed /\ got' = got
          BY <1>3, <3>2 DEF ResultInv
        <4> HIDE DEF ServerInv
        <4> QED
          BY <1>2, <1>5, <4>1
      <3> QED
        BY <3>1, <3>2 DEF Results
    <2>2. closing' = {} => \A i \in 1 .. Len(serveErr') : serveErr'[i] = "err"
      <3>1. closing' = {} => /\ \A i \in 1 .. Len(serveErr) : serveErr[i] = "err"
                             /\ r = "err"
        BY <1>3 DEF ResultInv, Results
      <3> HIDE DEF ServerInv
      <3> QED
        BY <1>2, <1>5, <3>1
    <2> QED
      BY <1>3, <1>7, <2>1, <2>2 DEF ResultInv
  <1>12. StopInv' /\ ReturnInv'
    BY <1>3, <1>4 DEF StopInv, ReturnInv
  <1> QED
    BY <1>8, <1>9, <1>10, <1>11, <1>12

\* The steps of the serving goroutines and of the requests.
LEMMA ServingInv ==
  ASSUME ServerInv, NEW l \in Listeners,
         ServeStep(l) \/ AcceptFails(l) \/ Arrive(l) \/ Finish(l)
  PROVE  ServerInv'
  <1> USE DEF ServerInv, netVars, fileVars, stopVars, pastVars, BeforeSpawn,
              Running
  <1>1. CASE BeginServe(l)
    <2>1. /\ srv[l] = "spawned" /\ l \notin closing
          /\ srv' = [srv EXCEPT ![l] = "serving"]
          /\ UNCHANGED <<pc, mounted, netVars, fileVars, closing, stopped,
                         active, serveErr, stopVars, ctxDone, pastVars>>
      BY <1>1 DEF BeginServe
    <2>2. /\ pc \in Running \cup {"returned"} /\ pc # "returned"
      BY <2>1 DEF TypeOK, StartInv, ReturnInv, Untouched, Everywhere
    <2>3. TypeOK'
      <3>1. srv' \in [Listeners -> {"none", "spawned", "serving", "exited"}]
        BY <2>1 DEF TypeOK
      <3>2. /\ stopped' \in BOOLEAN /\ cut' \in BOOLEAN
            /\ ctxDone' \in BOOLEAN /\ expired' \in BOOLEAN
        BY <2>1 DEF TypeOK
      <3> QED
        BY <2>1, <3>1, <3>2 DEF TypeOK
    <2>4. StartInv' /\ FileInv' /\ ServeInv'
      BY <2>1, <2>2 DEF TypeOK, StartInv, FileInv, ServeInv
    <2>5. ResultInv' /\ StopInv' /\ ReturnInv'
      BY <2>1, <2>2 DEF TypeOK, ResultInv, StopInv, ReturnInv, Ended, Listeners
    <2> QED
      BY <2>3, <2>4, <2>5
  <1>2. CASE ServeStops(l)
    BY <1>2, ExitInv DEF ServeStops, Results
  <1>3. CASE AcceptFails(l)
    BY <1>3, ExitInv DEF AcceptFails, Results
  <1>4. ASSUME NEW n \in 0 .. MaxRequests,
               active' = [active EXCEPT ![l] = n],
               \/ n =< active[l]
               \/ srv[l] = "serving" /\ ln[l] = "open",
               UNCHANGED <<pc, mounted, netVars, fileVars, srv, closing, stopped,
                           serveErr, stopVars, ctxDone, pastVars>>
        PROVE  ServerInv'
    <2>1. TypeOK'
      <3>1. active' \in [Listeners -> 0 .. MaxRequests]
        BY <1>4 DEF TypeOK
      <3>2. /\ stopped' \in BOOLEAN /\ cut' \in BOOLEAN
            /\ ctxDone' \in BOOLEAN /\ expired' \in BOOLEAN
        BY <1>4 DEF TypeOK
      <3> QED
        BY <1>4, <3>1, <3>2 DEF TypeOK
    <2>2. \A k \in Listeners :
              active[k] = 0 /\ (k = l => srv[k] # "serving" \/ ln[k] # "open")
                => active'[k] = 0
      <3>1. active \in [Listeners -> 0 .. MaxRequests]
        BY DEF TypeOK
      <3> HIDE DEF ServerInv
      <3> QED
        BY <1>4, <3>1, ServerAssumption
    <2>3. Untouched => Untouched'
      <3>1. ASSUME Untouched PROVE active' = Everywhere(0)
        BY <1>4, <2>2, <3>1 DEF TypeOK, Untouched, Everywhere
      <3> QED
        BY <1>4, <3>1 DEF Untouched
    <2>4. StartInv' /\ FileInv' /\ ServeInv' /\ ResultInv'
      <3>1. StartInv' /\ FileInv' /\ ServeInv'
        BY <1>4, <2>3 DEF StartInv, FileInv, ServeInv
      <3>2. ResultInv'
        BY <1>4 DEF ResultInv, Ended
      <3> QED
        BY <3>1, <3>2
    <2>5. StopInv'
      <3>1. pc \in {"graceful", "wait grpc"} => active'["http"] = 0
        BY <1>4, <2>2 DEF StartInv, ServeInv, StopInv, Listeners
      <3>2. why = "graceful" => \A k \in Listeners : active'[k] = 0
        BY <1>4, <2>2 DEF StartInv, ServeInv, StopInv, ReturnInv, Untouched
      <3> QED
        BY <1>4, <3>1, <3>2 DEF StopInv
    <2>6. ReturnInv'
      BY <1>4, <2>3 DEF ReturnInv
    <2> QED
      BY <2>1, <2>4, <2>5, <2>6
  <1>5. CASE Arrive(l)
    <2>1. active[l] + 1 \in 0 .. MaxRequests
      <3>1. active[l] \in 0 .. MaxRequests /\ active[l] < MaxRequests
        BY <1>5 DEF Arrive, TypeOK
      <3> HIDE DEF ServerInv
      <3> QED
        BY <3>1, ServerAssumption
    <2> QED
      BY <1>4, <1>5, <2>1 DEF Arrive
  <1>6. CASE Finish(l)
    <2>1. active[l] - 1 \in 0 .. MaxRequests /\ active[l] - 1 =< active[l]
      <3>1. active[l] \in 0 .. MaxRequests /\ active[l] > 0
        BY <1>6 DEF Finish, TypeOK
      <3> HIDE DEF ServerInv
      <3> QED
        BY <3>1, ServerAssumption
    <2> QED
      BY <1>4, <1>6, <2>1 DEF Finish
  <1> QED
    BY <1>1, <1>2, <1>3, <1>5, <1>6 DEF ServeStep


\* A step of Start after the select that takes no result keeps the account of
\* the results.
LEMMA ResultKept ==
  ASSUME ResultInv, pc \in Running \ {"drain"}, pc' \in Running,
         UNCHANGED <<srv, serveErr, got, failed>>,
         closing' = {} => closing = {}, why' = "serve" <=> why = "serve"
  PROVE  ResultInv'
  BY DEF ResultInv, Ended, Running

\* Telling a server to stop keeps all that does not depend on where Start is.
LEMMA TellKeeps ==
  ASSUME ServerInv, NEW l \in Listeners, TellToStop(l),
         pc \in Running \ {"drain"}, pc' \in Running,
         UNCHANGED <<mounted, fileVars, srv, serveErr, stopVars, ctxDone,
                     processes, failed>>,
         active' \in [Listeners -> 0 .. MaxRequests],
         stopped' \in BOOLEAN, cut' \in BOOLEAN
  PROVE  TypeOK' /\ FileInv' /\ ServeInv' /\ ResultInv' /\ ReturnInv'
  <1> USE DEF ServerInv, fileVars, stopVars
  <1>1. /\ closing' = closing \cup {l}
        /\ network' = network
        /\ ln' \in [Listeners -> {"none", "open", "closed"}]
        /\ socket' \in [Listeners -> {"none", "bound", "stale"}]
        /\ srv[l] = "serving" => ln'[l] = "closed"
        /\ srv[l] # "serving" => ln'[l] = ln[l]
        /\ \A k \in Listeners \ {l} : ln'[k] = ln[k]
        /\ \A k \in Listeners : socket'[k] = "bound" => ln'[k] = "open"
    BY TellFacts
  <1>2. TypeOK'
    <2>1. ctxDone' \in BOOLEAN /\ expired' \in BOOLEAN
      BY DEF TypeOK
    <2> QED
      BY <1>1, <2>1 DEF TypeOK, Running
  <1>3. FileInv' /\ ServeInv'
    BY <1>1 DEF FileInv, ServeInv, Running
  <1>4. ResultInv'
    BY <1>1, ResultKept
  <1>5. ReturnInv'
    BY DEF ReturnInv, Running
  <1> QED
    BY <1>2, <1>3, <1>4, <1>5

\* The steps of Start in which it tells a server to stop.
LEMMA TellingInv ==
  ASSUME ServerInv,
         CloseHTTP \/ StopGRPC \/ BeginShutdown \/ BeginGracefulStop
  PROVE  ServerInv'
  <1> USE DEF ServerInv, Goto, BeforeSpawn, Running, Listeners
  <1>1. ASSUME NEW l \in Listeners, CutOff(l)
        PROVE  /\ active' \in [Listeners -> 0 .. MaxRequests]
               /\ cut' \in BOOLEAN
               /\ active'[l] = 0
               /\ \A k \in Listeners : active[k] = 0 => active'[k] = 0
    <2>1. active \in [Listeners -> 0 .. MaxRequests]
      BY DEF TypeOK
    <2>2. cut' \in BOOLEAN
      BY <1>1 DEF CutOff
    <2> QED
      BY <1>1, <2>1, <2>2, ServerAssumption DEF CutOff
  <1>2. CASE CloseHTTP
    <2>1. TypeOK' /\ FileInv' /\ ServeInv' /\ ResultInv' /\ ReturnInv'
      <3>1. stopped' \in BOOLEAN
        BY <1>2 DEF CloseHTTP, TypeOK
      <3> QED
        BY <1>1, <1>2, <3>1, TellKeeps DEF CloseHTTP
    <2>2. StartInv'
      BY <1>2 DEF CloseHTTP, TellToStop, StartInv
    <2>3. StopInv'
      BY <1>2 DEF CloseHTTP, stopVars, StopInv
    <2> QED
      BY <2>1, <2>2, <2>3
  <1>3. CASE StopGRPC
    <2>1. TypeOK' /\ FileInv' /\ ServeInv' /\ ResultInv' /\ ReturnInv'
      <3>1. stopped' \in BOOLEAN
        BY <1>3 DEF StopGRPC
      <3> QED
        BY <1>1, <1>3, <3>1, TellKeeps DEF StopGRPC
    <2>2. StartInv'
      BY <1>3 DEF StopGRPC, TellToStop, StartInv
    <2>3. StopInv'
      BY <1>3 DEF StopGRPC, stopVars, StopInv
    <2> QED
      BY <2>1, <2>2, <2>3
  <1>4. CASE BeginShutdown
    <2>1. TypeOK' /\ FileInv' /\ ServeInv' /\ ResultInv' /\ ReturnInv'
      <3>1. /\ stopped' \in BOOLEAN /\ cut' \in BOOLEAN
            /\ active' \in [Listeners -> 0 .. MaxRequests]
        BY <1>4 DEF BeginShutdown, pastVars, TypeOK
      <3> QED
        BY <1>4, <3>1, TellKeeps DEF BeginShutdown, pastVars
    <2>2. StartInv'
      BY <1>4 DEF BeginShutdown, TellToStop, StartInv
    <2>3. StopInv'
      BY <1>4 DEF BeginShutdown, stopVars, pastVars, StopInv
    <2> QED
      BY <2>1, <2>2, <2>3
  <1>5. CASE BeginGracefulStop
    <2>1. TypeOK' /\ FileInv' /\ ServeInv' /\ ResultInv' /\ ReturnInv'
      <3>1. /\ stopped' \in BOOLEAN /\ cut' \in BOOLEAN
            /\ active' \in [Listeners -> 0 .. MaxRequests]
        BY <1>5 DEF BeginGracefulStop, pastVars, TypeOK
      <3> QED
        BY <1>5, <3>1, TellKeeps DEF BeginGracefulStop, pastVars
    <2>2. StartInv'
      BY <1>5 DEF BeginGracefulStop, TellToStop, StartInv
    <2>3. StopInv'
      BY <1>5 DEF BeginGracefulStop, stopVars, pastVars, StopInv
    <2> QED
      BY <2>1, <2>2, <2>3
  <1> QED
    BY <1>2, <1>3, <1>4, <1>5


\* The steps of Start, and of the timer, that only move it on.
LEMMA MovingInv ==
  ASSUME ServerInv,
         \/ SelectCtx \/ Flip \/ ShutdownDone \/ ShutdownTimeout
         \/ GracefulStopDone \/ Expire \/ CancelCtx
  PROVE  ServerInv'
  <1> USE DEF ServerInv, Goto, netVars, fileVars, srvVars, stopVars, pastVars,
              BeforeSpawn, Running
  <1>1. CASE SelectCtx
    BY <1>1
       DEF SelectCtx, TypeOK, StartInv, FileInv, ServeInv, ResultInv, StopInv,
           ReturnInv, Ended
  <1>2. CASE Flip
    BY <1>2
       DEF Flip, TypeOK, StartInv, FileInv, ServeInv, ResultInv, StopInv,
           ReturnInv, Ended
  <1>3. CASE ShutdownDone
    <2>1. TypeOK'
      BY <1>3 DEF ShutdownDone, TypeOK
    <2>2. StartInv' /\ FileInv' /\ ServeInv'
      BY <1>3 DEF ShutdownDone, StartInv, FileInv, ServeInv
    <2>3. ResultInv' /\ StopInv' /\ ReturnInv'
      BY <1>3, ResultKept DEF ShutdownDone, StopInv, ReturnInv
    <2> QED
      BY <2>1, <2>2, <2>3
  <1>4. CASE ShutdownTimeout
    <2>1. TypeOK'
      BY <1>4 DEF ShutdownTimeout, TypeOK
    <2>2. StartInv' /\ FileInv' /\ ServeInv'
      BY <1>4 DEF ShutdownTimeout, StartInv, FileInv, ServeInv
    <2>3. ResultInv'
      BY <1>4, ResultKept DEF ShutdownTimeout, StopInv
    <2>4. StopInv' /\ ReturnInv'
      BY <1>4 DEF ShutdownTimeout, StopInv, ReturnInv
    <2> QED
      BY <2>1, <2>2, <2>3, <2>4
  <1>5. CASE GracefulStopDone
    <2>1. TypeOK'
      <3>1. /\ stopped' \in BOOLEAN /\ cut' \in BOOLEAN
            /\ ctxDone' \in BOOLEAN /\ expired' \in BOOLEAN
        BY <1>5 DEF GracefulStopDone, TypeOK
      <3> QED
        BY <1>5, <3>1 DEF GracefulStopDone, TypeOK
    <2>2. StartInv' /\ FileInv' /\ ServeInv'
      BY <1>5 DEF GracefulStopDone, StartInv, FileInv, ServeInv
    <2>3. ResultInv'
      BY <1>5, ResultKept DEF GracefulStopDone, StopInv
    <2>4. StopInv' /\ ReturnInv'
      BY <1>5 DEF GracefulStopDone, StopInv, ReturnInv, Listeners
    <2> QED
      BY <2>1, <2>2, <2>3, <2>4
  <1>6. CASE Expire \/ CancelCtx
    <2>1. UNCHANGED <<pc, mounted, netVars, fileVars, srvVars, got, why, ret,
                      pastVars>>
      BY <1>6 DEF Expire, CancelCtx
    <2>2. TypeOK'
      <3>1. ctxDone' \in BOOLEAN /\ expired' \in BOOLEAN
        BY <1>6 DEF Expire, CancelCtx, TypeOK
      <3> QED
        BY <2>1, <3>1 DEF TypeOK
    <2>3. StartInv' /\ FileInv' /\ ServeInv' /\ StopInv' /\ ReturnInv'
      BY <2>1 DEF StartInv, FileInv, ServeInv, StopInv, ReturnInv, Untouched
    <2>4. ResultInv'
      BY <2>1 DEF ResultInv, Ended
    <2> QED
      BY <2>2, <2>3, <2>4
  <1> QED
    BY <1>1, <1>2, <1>3, <1>4, <1>5, <1>6

\* The steps in which Start receives a result from serveErr.  The first result
\* of the select is an error, because no server was told to stop yet; when the
\* second one is in, both goroutines have ended and no result is left.
LEMMA ReceivingInv ==
  ASSUME ServerInv, SelectServeErr \/ Receive
  PROVE  ServerInv'
  <1> USE DEF ServerInv, Goto, netVars, fileVars, pastVars, BeforeSpawn, Running
  <1>1. /\ serveErr \in Seq(Results) /\ got \in Seq(Results)
        /\ serveErr # <<>> /\ serveErr' = Tail(serveErr)
        /\ UNCHANGED <<mounted, netVars, fileVars, srv, closing, stopped, active,
                       expired, ctxDone, pastVars>>
    BY DEF TypeOK, SelectServeErr, Receive
  <1>2. /\ Head(serveErr) \in Results /\ Head(serveErr) = serveErr[1]
        /\ serveErr' \in Seq(Results) /\ Len(serveErr') = Len(serveErr) - 1
        /\ \A i \in 1 .. Len(serveErr') : serveErr'[i] = serveErr[i + 1]
        /\ Len(serveErr) \in Nat \ {0} /\ Len(got) \in Nat
    BY <1>1, ReceiveFacts
  <1>3. /\ Len(serveErr) + Len(got) = Ended("http") + Ended("grpc")
        /\ closing = {} => \A i \in 1 .. Len(serveErr) : serveErr[i] = "err"
        /\ why = "serve" => Len(got) > 0 /\ got[1] = "err"
    BY DEF ResultInv
  <1>4. /\ Ended("http") \in {0, 1} /\ Ended("grpc") \in {0, 1}
        /\ Ended("http") = 1 <=> srv["http"] = "exited"
        /\ Ended("grpc") = 1 <=> srv["grpc"] = "exited"
        /\ Ended("http")' = Ended("http") /\ Ended("grpc")' = Ended("grpc")
    BY <1>1 DEF Ended
  <1>5. /\ stopped' \in BOOLEAN /\ cut' \in BOOLEAN
        /\ ctxDone' \in BOOLEAN /\ expired' \in BOOLEAN
    BY <1>1 DEF TypeOK
  <1>6. CASE SelectServeErr
    <2>1. /\ pc = "select" /\ pc' = "close" /\ why' = "serve" /\ ret' = ret
          /\ got' = <<Head(serveErr)>> /\ got = <<>> /\ closing = {}
      BY <1>6 DEF SelectServeErr, ResultInv, StartInv, StopInv
    <2>2. got' \in Seq(Results) /\ Len(got') = 1 /\ got'[1] = "err"
      <3>1. serveErr[1] = "err"
        BY <1>2, <2>1 DEF ResultInv
      <3> QED
        BY <1>2, <2>1, <3>1
    <2>3. TypeOK'
      <3>1. Len(serveErr') =< 2
        BY <1>2, <1>3, <1>4, <2>1
      <3> QED
        BY <1>1, <1>2, <1>5, <2>1, <2>2, <3>1 DEF TypeOK
    <2>4. StartInv' /\ FileInv' /\ ServeInv' /\ StopInv' /\ ReturnInv'
      BY <1>1, <2>1
         DEF StartInv, FileInv, ServeInv, StopInv, ReturnInv
    <2>5. ResultInv'
      <3>1. closing' = {} => \A i \in 1 .. Len(serveErr') : serveErr'[i] = "err"
        <4> HIDE DEF ServerInv
        <4> QED
          BY <1>1, <1>2, <1>3
      <3>2. Len(serveErr') + Len(got') = Ended("http")' + Ended("grpc")'
        BY <1>2, <1>3, <1>4, <2>1, <2>2
      <3>3. \E i \in 1 .. Len(got') : got'[i] = "err"
        BY <2>2
      <3> QED
        BY <2>1, <2>2, <3>1, <3>2, <3>3 DEF ResultInv
    <2> QED
      BY <2>3, <2>4, <2>5
  <1>7. CASE Receive
    <2>1. /\ pc = "drain" /\ why' = why /\ got' = Append(got, Head(serveErr))
          /\ Len(got) < 2 /\ closing = Listeners /\ why # "none" /\ stopped
          /\ ret = "none"
      BY <1>7 DEF Receive, ResultInv, StartInv, StopInv, ReturnInv
    <2>2. /\ got' \in Seq(Results) /\ Len(got') = Len(got) + 1
          /\ got'[Len(got) + 1] = serveErr[1]
          /\ \A i \in 1 .. Len(got) : got'[i] = got[i]
      BY <1>1, <2>1, ReceiveFacts
    <2>3. /\ Len(serveErr') + Len(got') = Ended("http")' + Ended("grpc")'
          /\ Len(serveErr') =< 2 /\ Len(got') =< 2
      BY <1>2, <1>3, <1>4, <2>1, <2>2
    <2>4. failed' # {} => \/ \E i \in 1 .. Len(serveErr') : serveErr'[i] = "err"
                          \/ \E i \in 1 .. Len(got') : got'[i] = "err"
      <3>1. failed # {} => \/ \E i \in 1 .. Len(serveErr) : serveErr[i] = "err"
                           \/ \E i \in 1 .. Len(got) : got[i] = "err"
        BY DEF ResultInv
      <3>2. ASSUME NEW i \in 1 .. Len(got), got[i] = "err"
            PROVE  \E j \in 1 .. Len(got') : got'[j] = "err"
        BY <1>2, <2>2, <3>2
      <3>3. ASSUME NEW i \in 1 .. Len(serveErr), serveErr[i] = "err"
            PROVE  \/ \E j \in 1 .. Len(serveErr') : serveErr'[j] = "err"
                   \/ \E j \in 1 .. Len(got') : got'[j] = "err"
        <4>1. CASE i = 1
          BY <1>2, <2>2, <3>3, <4>1
        <4>2. CASE i # 1
          <5>1. i - 1 \in 1 .. Len(serveErr') /\ serveErr'[i - 1] = serveErr[i]
            BY <1>2, <4>2
          <5> QED
            BY <3>3, <5>1
        <4> QED
          BY <4>1, <4>2
      <3> QED
        BY <1>1, <3>1, <3>2, <3>3
    <2>5. why = "serve" => Len(got') > 0 /\ got'[1] = "err"
      BY <1>2, <1>3, <2>2
    <2>6. CASE Len(got') # 2
      <3>1. pc' = pc /\ ret' = ret
        BY <1>7, <2>6 DEF Receive
      <3>2. TypeOK'
        BY <1>1, <1>2, <1>5, <2>1, <2>2, <2>3, <3>1 DEF TypeOK
      <3>3. StartInv' /\ FileInv' /\ ServeInv' /\ StopInv' /\ ReturnInv'
        BY <1>1, <2>1, <3>1
           DEF StartInv, FileInv, ServeInv, StopInv, ReturnInv
      <3>4. Len(got') < 2
        BY <2>2, <2>3, <2>6
      <3>5. ResultInv'
        BY <1>1, <2>1, <2>3, <2>4, <2>5, <3>1, <3>4 DEF ResultInv, Listeners
      <3> QED
        BY <3>2, <3>3, <3>5
    <2>7. CASE Len(got') = 2
      <3>1. pc' = "returned" /\ ret' = Outcome(got')
        BY <1>7, <2>7 DEF Receive, Return
      <3>2. got'[1] \in Results /\ got'[2] \in Results
        <4>1. 1 \in 1 .. Len(got') /\ 2 \in 1 .. Len(got')
          BY <2>7
        <4> QED
          BY <2>2, <4>1
      <3>3. /\ why = "serve" => ret' = "err"
            /\ why = "timeout" => ret' = "err"
            /\ why = "graceful" /\ ret' = "nil" => got'[1] = "nil" /\ got'[2] = "nil"
            /\ ret' \in Results
        BY <2>1, <2>5, <3>1, <3>2 DEF Outcome, TypeOK, Results
      <3>4. Len(serveErr') = 0 /\ srv["http"] = "exited" /\ srv["grpc"] = "exited"
        BY <1>2, <1>3, <1>4, <2>3, <2>7
      <3>5. ret' = "nil" => failed' = {} /\ why = "graceful"
        BY <2>1, <2>4, <2>7, <3>3, <3>4 DEF TypeOK
      <3>6. TypeOK'
        BY <1>1, <1>2, <1>5, <2>1, <2>2, <2>3, <3>1, <3>3 DEF TypeOK
      <3>7. StartInv' /\ FileInv' /\ ServeInv' /\ StopInv' /\ ReturnInv'
        BY <1>1, <2>1, <3>1, <3>3, <3>4, <3>5
           DEF StartInv, FileInv, ServeInv, StopInv, ReturnInv, Listeners
      <3>8. ResultInv'
        BY <1>1, <2>1, <2>3, <2>4, <2>5, <3>1 DEF ResultInv, Listeners
      <3> QED
        BY <3>6, <3>7, <3>8
    <2> QED
      BY <2>6, <2>7
  <1> QED
    BY <1>6, <1>7

\* A new process finds the files of the one before, and nothing else.
LEMMA RestartInv ==
  ASSUME ServerInv, Restart PROVE ServerInv'
  <1>1. /\ Untouched' /\ pc' = "args" /\ mounted' = {} /\ network' = network
        /\ ln' = Everywhere("none") /\ ret' = "none"
        /\ ctxDone' = FALSE /\ expired' = FALSE
        /\ info' # "current" /\ info' \in {"none", "stale", info}
        /\ temps' \in {{}, {"stale"}}
        /\ processes' = processes + 1
    BY DEF Restart, Untouched, Everywhere
  <1>2. socket' \in [Listeners -> {"none", "stale"}]
    BY DEF Restart, ServerInv, TypeOK
  <1>3. /\ serveErr' \in Seq(Results) /\ Len(serveErr') = 0
        /\ got' \in Seq(Results) /\ Len(got') = 0
    BY <1>1 DEF Untouched
  <1>4. TypeOK'
    <2>1. /\ active' \in [Listeners -> 0 .. MaxRequests]
          /\ ln' \in [Listeners -> {"none", "open", "closed"}]
          /\ srv' \in [Listeners -> {"none", "spawned", "serving", "exited"}]
      BY <1>1, ServerAssumption DEF Untouched, Everywhere
    <2>2. /\ stopped' \in BOOLEAN /\ cut' \in BOOLEAN
          /\ ctxDone' \in BOOLEAN /\ expired' \in BOOLEAN
      BY <1>1 DEF Untouched
    <2>3. closing' = {} /\ failed' = {} /\ why' = "none"
      BY <1>1 DEF Untouched
    <2>4. /\ network' \in [Listeners -> {"unix", "tcp"}]
          /\ info' \in {"none", "current", "stale"}
          /\ processes \in Nat
      BY <1>1 DEF ServerInv, TypeOK
    <2>5. processes' \in Nat
      BY <1>1, <2>4
    <2> QED
      BY <1>1, <1>2, <1>3, <2>1, <2>2, <2>3, <2>4, <2>5 DEF TypeOK
  <1>5. ResultInv'
    BY <1>1, <1>3 DEF ResultInv, Untouched, Ended, Everywhere, Listeners, Running
  <1>6. StartInv' /\ FileInv' /\ ServeInv' /\ StopInv' /\ ReturnInv'
    BY <1>1, <1>2
       DEF StartInv, FileInv, ServeInv, StopInv, ReturnInv, Untouched,
           Everywhere, BeforeSpawn, Running, Listeners
  <1> QED
    BY <1>4, <1>5, <1>6 DEF ServerInv

\* Every step keeps the invariant.
LEMMA StepInv == ServerInv /\ [Next]_vars => ServerInv'
  <1> SUFFICES ASSUME ServerInv, [Next]_vars PROVE ServerInv'
    OBVIOUS
  <1>1. CASE StartStep
    BY <1>1, StartingInv, TellingInv, MovingInv, ReceivingInv DEF StartStep
  <1>2. ASSUME NEW l \in Listeners,
               ServeStep(l) \/ AcceptFails(l) \/ Arrive(l) \/ Finish(l)
        PROVE  ServerInv'
    BY <1>2, ServingInv
  <1>3. CASE Expire \/ CancelCtx
    BY <1>3, MovingInv
  <1>4. CASE Restart
    BY <1>4, RestartInv
  <1>5. CASE UNCHANGED vars
    <2>1. UNCHANGED <<pc, mounted, network, socket, ln, info, temps, srv, closing,
                      stopped, active, serveErr, got, why, ctxDone, expired, ret,
                      processes, failed, cut>>
      BY <1>5 DEF vars, netVars, fileVars, srvVars, stopVars, pastVars
    <2>2. TypeOK'
      <3>1. /\ stopped' \in BOOLEAN /\ cut' \in BOOLEAN
            /\ ctxDone' \in BOOLEAN /\ expired' \in BOOLEAN
        BY <2>1 DEF ServerInv, TypeOK
      <3> QED
        BY <2>1, <3>1 DEF ServerInv, TypeOK
    <2>3. StartInv' /\ FileInv' /\ ServeInv' /\ StopInv'
      BY <2>1 DEF ServerInv, StartInv, FileInv, ServeInv, StopInv, Untouched
    <2>4. ReturnInv'
      BY <2>1 DEF ServerInv, ReturnInv, Untouched
    <2>5. ResultInv'
      BY <2>1 DEF ServerInv, ResultInv, Ended
    <2> QED
      BY <2>2, <2>3, <2>4, <2>5 DEF ServerInv
  <1> QED
    BY <1>1, <1>2, <1>3, <1>4, <1>5 DEF Next

\* ServerInv is an invariant of Server.
THEOREM ServerInvariant == Spec => []ServerInv
  BY InitInv, StepInv, PTL DEF Spec


\* Type correctness of Server.
THEOREM TypeCorrect == Spec => []TypeOK
  <1>1. ServerInv => TypeOK
    BY DEF ServerInv
  <1> QED
    BY ServerInvariant, <1>1, PTL

\* Start leaves no goroutine, listener, socket or temporary file behind, on any
\* path out of it.
THEOREM StartReturnsClean == Spec => []ReturnsClean
  <1>1. ServerInv => ReturnsClean
    <2> SUFFICES ASSUME ServerInv, pc \in {"returned", "crashed"}
                 PROVE  /\ "mine" \notin temps
                        /\ \A l \in Listeners : /\ ln[l] # "open"
                                                /\ socket[l] # "bound"
                                                /\ srv[l] \in {"none", "exited"}
      BY DEF ReturnsClean
    <2>1. \A l \in Listeners : ln[l] # "open" /\ srv[l] \in {"none", "exited"}
      BY DEF ServerInv, StartInv, ServeInv, ReturnInv, Untouched, Everywhere
    <2> QED
      BY <2>1 DEF ServerInv, FileInv
  <1> QED
    BY ServerInvariant, <1>1, PTL

\* Start never returns nil when one of its servers failed.
THEOREM FailuresAreReported == Spec => []ErrorReported
  <1>1. ServerInv => ErrorReported
    BY DEF ServerInv, ReturnInv, ErrorReported
  <1> QED
    BY ServerInvariant, <1>1, PTL

\* When Start returns nil, no request was cut off and none is in flight.
THEOREM NilAfterDrain == Spec => []NilMeansDrained
  <1>1. ServerInv => NilMeansDrained
    BY DEF ServerInv, ReturnInv, StopInv, NilMeansDrained
  <1> QED
    BY ServerInvariant, <1>1, PTL

\* The server-info file of this process implies both listeners, until a server
\* fails or is told to stop.
THEOREM InfoAfterBind == Spec => []InfoMeansBound
  <1>1. ServerInv => InfoMeansBound
    <2> SUFFICES ASSUME ServerInv, info = "current", closing = {}, failed = {},
                        NEW l \in Listeners
                 PROVE  ln[l] = "open"
      BY DEF InfoMeansBound
    <2>1. pc \in Running \cup {"spawn"}
      BY DEF ServerInv, FileInv, Listeners
    <2>2. CASE pc = "spawn"
      BY <2>2 DEF ServerInv, StartInv, Everywhere
    <2>3. CASE pc \in Running
      <3>1. srv[l] \in {"spawned", "serving", "exited"}
        BY <2>3 DEF ServerInv, TypeOK, StartInv
      <3> QED
        BY <3>1 DEF ServerInv, ServeInv
    <2> QED
      BY <2>1, <2>2, <2>3
  <1> QED
    BY ServerInvariant, <1>1, PTL

------------------------------------------------------------------------------
(***************************************************************************)
(* Server implements StartLifecycle.                                       *)
(***************************************************************************)

\* A first state of Server is a first state of StartLifecycle.
LEMMA LifecycleInit == Init => L!Init
  BY DEF Init, L!Init, Phase

\* A step of Server is a step of StartLifecycle or leaves the phase and the
\* context alone.  The invariant says which reason to stop goes with which pc.
LEMMA LifecycleStep == ServerInv /\ [Next]_vars => [L!Next]_(L!vars)
  <1> SUFFICES ASSUME ServerInv, [Next]_vars PROVE [L!Next]_(L!vars)
    OBVIOUS
  <1> USE DEF Goto, L!vars, Phase, stopVars
  <1>1. CASE CheckArgs
    BY <1>1 DEF CheckArgs, Return, L!Next, L!CheckArgs, L!Goto
  <1>2. ASSUME NEW t \in Transports, Mount(t) PROVE [L!Next]_(L!vars)
    BY <1>2 DEF Mount, L!Next, L!BuildStack, L!Goto
  <1>3. CASE StackBuilt
    BY <1>3 DEF StackBuilt, L!Next, L!BuildStack, L!Goto
  <1>4. ASSUME NEW l \in Listeners, Listen(l) PROVE [L!Next]_(L!vars)
    BY <1>4 DEF Listen, AfterListen, Listeners
  <1>5. ASSUME NEW l \in Listeners, ListenFails(l) PROVE [L!Next]_(L!vars)
    BY <1>5 DEF ListenFails, Return, Listeners, L!Next, L!Bind, L!Goto
  <1>6. CASE WriteInfoTemp \/ RenameInfo
    BY <1>6 DEF WriteInfoTemp, RenameInfo
  <1>7. CASE ServerInfoFails
    BY <1>7 DEF ServerInfoFails, Return, L!Next, L!Bind, L!Goto
  <1>8. CASE Spawn
    BY <1>8 DEF Spawn, L!Next, L!Bind, L!Goto
  <1>9. CASE SelectCtx
    BY <1>9 DEF SelectCtx, L!Next, L!SelectCtx, L!Goto
  <1>10. CASE SelectServeErr
    BY <1>10 DEF SelectServeErr, L!Next, L!SelectServeErr, L!Goto
  <1>11. CASE Flip
    BY <1>11 DEF Flip, ServerInv, StopInv, L!Next, L!Flip, L!Goto
  <1>12. CASE CloseHTTP \/ StopGRPC \/ BeginShutdown \/ BeginGracefulStop
    BY <1>12 DEF CloseHTTP, StopGRPC, BeginShutdown, BeginGracefulStop
  <1>13. CASE ShutdownDone \/ ShutdownTimeout \/ GracefulStopDone
    BY <1>13
       DEF ShutdownDone, ShutdownTimeout, GracefulStopDone, ServerInv, StopInv
  <1>14. CASE Receive
    BY <1>14 DEF Receive, Return, L!Next, L!Return, L!Goto
  <1>15. ASSUME NEW l \in Listeners,
                ServeStep(l) \/ AcceptFails(l) \/ Arrive(l) \/ Finish(l)
         PROVE  [L!Next]_(L!vars)
    BY <1>15
       DEF ServeStep, BeginServe, ServeStops, AcceptFails, Exit, Arrive, Finish
  <1>16. CASE Expire
    BY <1>16 DEF Expire
  <1>17. CASE CancelCtx
    BY <1>17 DEF CancelCtx, L!Next, L!CancelCtx
  <1>18. CASE Restart
    BY <1>18 DEF Restart, L!Next, L!Restart
  <1>19. CASE UNCHANGED vars
    BY <1>19 DEF vars
  <1> QED
    BY <1>1, <1>2, <1>3, <1>4, <1>5, <1>6, <1>7, <1>8, <1>9, <1>10, <1>11,
       <1>12, <1>13, <1>14, <1>15, <1>16, <1>17, <1>18, <1>19
       DEF Next, StartStep

\* Server implements StartLifecycle.
THEOREM Refinement == Spec => ImplementsLifecycle
  BY LifecycleInit, LifecycleStep, ServerInvariant, PTL
     DEF Spec, ImplementsLifecycle, L!Spec
=============================================================================
