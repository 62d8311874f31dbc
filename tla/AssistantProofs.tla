--------------------------- MODULE AssistantProofs ---------------------------
(***************************************************************************)
(* Proofs about Assistant for any set of questions and any number of       *)
(* requests and processes.                                                 *)
(***************************************************************************)
EXTENDS Assistant, ServerProofs, FiniteSetTheorems

\* The worker knows of no question that was not sent.
SentInv == \A q \in Questions :
    ask[q] \in {"new", "dial", "send"} => work[q] = "none"

\* Only processes that have run are clean, and Start of this one only if it
\* has returned nil.
CleanInv ==
    /\ processes \in 1 .. MaxProcesses
    /\ clean \subseteq 1 .. processes
    /\ processes \in clean => ret = "nil"

\* A question this process has lost is one that Start has cut off.
LostInv == \A e \in lost :
    /\ e[2] =< processes
    /\ e[2] = processes => cut

AssistantInv ==
    /\ ServerInv /\ ATypeOK /\ SentInv /\ CleanInv /\ LostInv
    /\ AcceptedIsAnswered

\* AFairSpec without its fairness.
ASpec == AInit /\ [][ANext]_aVars

------------------------------------------------------------------------------
(***************************************************************************)
(* The worker is a Server.                                                 *)
(***************************************************************************)

\* A step of the assistant is a step of the worker's server, or none.
LEMMA AStepServer == ATypeOK /\ [ANext]_aVars => [Next]_vars
  <1> SUFFICES ASSUME ATypeOK, [ANext]_aVars PROVE [Next]_vars
    OBVIOUS
  <1>1. ASSUME NEW q \in Questions,
               Question(q) \/ CoordinatorStep(q) \/ Leave(q)
        PROVE  [Next]_vars
    <2>1. CASE Question(q) \/ Dial(q) \/ SendFails(q) \/ Yield(q) \/ Leave(q)
      BY <2>1 DEF Question, Dial, SendFails, Yield, Leave
    <2>2. ASSUME NEW l \in Listeners, SendMessage(q, l) PROVE [Next]_vars
      BY <2>2 DEF SendMessage, Next
    <2> QED
      BY <1>1, <2>1, <2>2 DEF CoordinatorStep
  <1>2. ASSUME NEW q \in Questions, Execute(q) PROVE [Next]_vars
    <2>1. work[q] \in Listeners /\ Finish(work[q])
      BY <1>2 DEF Execute, Respond, ATypeOK
    <2> QED
      BY <2>1 DEF Next
  <1>3. CASE WorkerStart \/ WorkerExpire \/ WorkerSignal \/ WorkerRestart
    BY <1>3 DEF WorkerStart, WorkerExpire, WorkerSignal, WorkerRestart, Next
  <1>4. ASSUME NEW l \in Listeners, WorkerServe(l) \/ WorkerFails(l)
        PROVE  [Next]_vars
    BY <1>4 DEF WorkerServe, WorkerFails, Next
  <1>5. CASE UNCHANGED aVars
    BY <1>5 DEF aVars
  <1> QED
    BY <1>1, <1>2, <1>3, <1>4, <1>5 DEF ANext

\* What Start does to the requests: httpSrv.Close and grpcServer.Stop cut those
\* of one listener, everything else leaves them alone.
LEMMA StartCuts ==
  ASSUME StartStep
  PROVE  /\ pc # "returned" /\ processes' = processes
         /\ pc = "close" => /\ active' = [active EXCEPT !["http"] = 0]
                            /\ cut' = (cut \/ active["http"] > 0)
         /\ pc = "stop"  => /\ active' = [active EXCEPT !["grpc"] = 0]
                            /\ cut' = (cut \/ active["grpc"] > 0)
         /\ pc \notin {"close", "stop"} => active' = active /\ cut' = cut
  <1> USE DEF Goto, srvVars, pastVars
  <1>1. CASE CheckArgs \/ StackBuilt \/ WriteInfoTemp \/ RenameInfo
                 \/ ServerInfoFails \/ Spawn
    BY <1>1 DEF CheckArgs, StackBuilt, WriteInfoTemp, RenameInfo,
           ServerInfoFails, Spawn
  <1>2. CASE \E t \in Transports : Mount(t)
    BY <1>2 DEF Mount
  <1>3. CASE \E l \in Listeners : Listen(l) \/ ListenFails(l)
    BY <1>3 DEF Listen, ListenFails, Listeners
  <1>4. CASE SelectCtx \/ SelectServeErr \/ Flip \/ BeginShutdown
                 \/ ShutdownDone \/ ShutdownTimeout \/ BeginGracefulStop
                 \/ GracefulStopDone
    BY <1>4 DEF SelectCtx, SelectServeErr, Flip, BeginShutdown, ShutdownDone,
           ShutdownTimeout, BeginGracefulStop, GracefulStopDone
  <1>5. CASE CloseHTTP
    BY <1>5 DEF CloseHTTP, CutOff
  <1>6. CASE StopGRPC
    BY <1>6 DEF StopGRPC, CutOff
  <1>7. CASE Receive
    BY <1>7 DEF Receive
  <1> QED
    BY <1>1, <1>2, <1>3, <1>4, <1>5, <1>6, <1>7 DEF StartStep

\* The questions on a listener are finitely many, and there is one if and only
\* if their number is not 0.
LEMMA AtFinite ==
  ASSUME NEW ls
  PROVE  /\ IsFiniteSet(At(ls)) /\ Cardinality(At(ls)) \in Nat
         /\ Cardinality(At(ls)) = 0 <=> At(ls) = {}
  <1>1. At(ls) \in SUBSET Questions
    BY DEF At
  <1>2. IsFiniteSet(At(ls))
    BY <1>1, AssistantAssumption, FS_Subset
  <1> QED
    BY <1>2, FS_EmptySet, FS_CardinalityType

\* Cutting the questions of some listeners leaves those of the others.
LEMMA CutFacts ==
  ASSUME ATypeOK, NEW ls \in SUBSET Listeners, Cut(At(ls))
  PROVE  /\ \A l \in Listeners : At({l})' = IF l \in ls THEN {} ELSE At({l})
         /\ ask' \in [Questions -> {"new", "dial", "send", "sent", "answered",
                                   "error", "replied", "failed"}]
         /\ work' \in [Questions -> Listeners \cup {"none"}]
         /\ gone' = gone
         /\ \A q \in Questions : \/ ask'[q] = ask[q] \/ ask'[q] = "error"
         /\ \A q \in Questions : work[q] = "none" => work'[q] = "none"
         /\ lost' = lost \cup (At(ls) \X {processes})
  <1> USE DEF Cut, At, ATypeOK
  <1>1. work' \in [Questions -> Listeners \cup {"none"}]
    OBVIOUS
  <1>2. ask' \in [Questions -> {"new", "dial", "send", "sent", "answered",
                                "error", "replied", "failed"}]
    OBVIOUS
  <1>3. ASSUME NEW l \in Listeners
        PROVE  At({l})' = IF l \in ls THEN {} ELSE At({l})
    <2>1. "none" \notin Listeners
      BY DEF Listeners
    <2> QED
      BY <2>1
  <1>4. /\ \A q \in Questions : \/ ask'[q] = ask[q] \/ ask'[q] = "error"
        /\ \A q \in Questions : work[q] = "none" => work'[q] = "none"
        /\ gone' = gone
        /\ lost' = lost \cup (At(ls) \X {processes})
    OBVIOUS
  <1> QED
    BY <1>1, <1>2, <1>3, <1>4

------------------------------------------------------------------------------
(***************************************************************************)
(* Every step keeps the invariant.                                         *)
(***************************************************************************)

\* The first state: nothing was asked.
LEMMA AInitInv == AInit => AssistantInv
  <1> SUFFICES ASSUME AInit PROVE AssistantInv
    OBVIOUS
  <1>1. ServerInv
    BY InitInv DEF AInit
  <1>2. /\ processes = 1 /\ active = Everywhere(0) /\ lost = {} /\ clean = {}
        /\ gone = {} /\ work = [q \in Questions |-> "none"]
        /\ ask = [q \in Questions |-> "new"]
    BY DEF AInit, Init
  <1>3. ASSUME NEW l \in Listeners PROVE active[l] = Cardinality(At({l}))
    <2>1. At({l}) = {}
      BY <1>2 DEF At, Listeners
    <2> QED
      BY <1>2, <2>1, FS_EmptySet DEF Everywhere
  <1>4. ATypeOK
    <2>1. TypeOK
      BY <1>1 DEF ServerInv
    <2> QED
      BY <1>2, <1>3, <2>1 DEF ATypeOK
  <1>5. CleanInv
    BY <1>2, ServerAssumption DEF CleanInv
  <1>6. SentInv /\ LostInv /\ AcceptedIsAnswered
    BY <1>2 DEF SentInv, LostInv, AcceptedIsAnswered
  <1> QED
    BY <1>1, <1>4, <1>5, <1>6 DEF AssistantInv

\* Steps of the coordinator that the worker does not see.
LEMMA CoordinatorInv ==
  ASSUME AssistantInv, ServerInv', NEW q \in Questions,
         Question(q) \/ Dial(q) \/ SendFails(q) \/ Yield(q) \/ Leave(q)
  PROVE  AssistantInv'
  <1>1. /\ UNCHANGED <<active, processes, ret, cut, work, lost, clean>>
        /\ gone' \in {gone, gone \cup {q}}
    BY DEF Question, Dial, SendFails, Yield, Leave, vars, srvVars, stopVars,
           pastVars
  <1>2. \E v \in {"dial", "send", "error", "replied", "failed"} :
           /\ ask' = [ask EXCEPT ![q] = v]
           /\ v \in {"dial", "send"} => ask[q] \in {"new", "dial"}
    BY DEF Question, Dial, SendFails, Yield, Leave, Ask
  <1>3. ATypeOK'
    BY <1>1, <1>2 DEF AssistantInv, ServerInv, ATypeOK, At
  <1>4. SentInv'
    BY <1>1, <1>2 DEF AssistantInv, ATypeOK, SentInv
  <1>5. CleanInv' /\ LostInv' /\ AcceptedIsAnswered'
    BY <1>1 DEF AssistantInv, CleanInv, LostInv, AcceptedIsAnswered
  <1> QED
    BY <1>3, <1>4, <1>5 DEF AssistantInv

\* Steps of the worker's server that no question sees.
LEMMA WorkerQuietInv ==
  ASSUME AssistantInv, ServerInv',
         UNCHANGED <<askVars, lost, clean, active, processes, ret, cut>>
  PROVE  AssistantInv'
  <1>1. UNCHANGED <<ask, work, gone, lost, clean, active, processes, ret, cut>>
    BY DEF askVars
  <1>2. ATypeOK' /\ SentInv'
    BY <1>1 DEF AssistantInv, ServerInv, ATypeOK, SentInv, At
  <1>3. CleanInv' /\ LostInv' /\ AcceptedIsAnswered'
    BY <1>1 DEF AssistantInv, CleanInv, LostInv, AcceptedIsAnswered
  <1> QED
    BY <1>2, <1>3 DEF AssistantInv

\* A request reaches the worker: one more question on that listener.
LEMMA SendInv ==
  ASSUME AssistantInv, ServerInv', NEW q \in Questions, NEW k \in Listeners,
         SendMessage(q, k)
  PROVE  AssistantInv'
  <1>1. /\ UNCHANGED <<processes, ret, cut, gone, lost, clean>>
        /\ active' = [active EXCEPT ![k] = @ + 1]
        /\ work' = [work EXCEPT ![q] = k]
        /\ ask' = [ask EXCEPT ![q] = "sent"]
        /\ ask[q] = "send"
    BY DEF SendMessage, Arrive, Ask, stopVars, pastVars
  <1>2. work[q] = "none"
    BY <1>1 DEF AssistantInv, SentInv
  <1>3. ASSUME NEW l \in Listeners PROVE active'[l] = Cardinality(At({l})')
    <2>1. active \in [Listeners -> 0 .. MaxRequests]
          /\ active[l] = Cardinality(At({l}))
      BY DEF AssistantInv, ATypeOK, TypeOK
    <2>2. work \in [Questions -> Listeners \cup {"none"}]
      BY DEF AssistantInv, ATypeOK
    <2>3. q \notin At({l})
      BY <1>2 DEF At, Listeners
    <2>4. CASE l = k
      <3>1. At({l})' = At({l}) \cup {q}
        BY <1>1, <2>2, <2>4 DEF At
      <3>2. Cardinality(At({l}) \cup {q}) = Cardinality(At({l})) + 1
        BY <2>3, AtFinite, FS_AddElement
      <3>3. active'[l] = active[l] + 1
        BY <1>1, <2>1, <2>4
      <3> QED
        BY <2>1, <3>1, <3>2, <3>3
    <2>5. CASE l # k
      <3>1. At({l})' = At({l})
        BY <1>1, <1>2, <2>2, <2>5 DEF At, Listeners
      <3> QED
        BY <1>1, <2>1, <2>5, <3>1
    <2> QED
      BY <2>4, <2>5
  <1>4. ATypeOK'
    <2>1. /\ ask' \in [Questions -> {"new", "dial", "send", "sent", "answered",
                                    "error", "replied", "failed"}]
          /\ work' \in [Questions -> Listeners \cup {"none"}]
      BY <1>1 DEF AssistantInv, ATypeOK
    <2> QED
      BY <1>1, <1>3, <2>1 DEF AssistantInv, ServerInv, ATypeOK
  <1>5. SentInv'
    BY <1>1 DEF AssistantInv, ATypeOK, SentInv
  <1>6. CleanInv' /\ LostInv' /\ AcceptedIsAnswered'
    BY <1>1 DEF AssistantInv, CleanInv, LostInv, AcceptedIsAnswered
  <1> QED
    BY <1>4, <1>5, <1>6 DEF AssistantInv

\* The worker answers: one question less on that listener.
LEMMA RespondInv ==
  ASSUME AssistantInv, ServerInv', NEW q \in Questions, Execute(q)
  PROVE  AssistantInv'
  <1>1. /\ UNCHANGED <<processes, ret, cut, gone, lost, clean>>
        /\ active' = [active EXCEPT ![work[q]] = @ - 1]
        /\ work' = [work EXCEPT ![q] = "none"]
        /\ ask' = [ask EXCEPT ![q] = IF @ = "sent" THEN "answered" ELSE @]
        /\ work[q] # "none"
    BY DEF Execute, Respond, Finish, stopVars, pastVars
  <1>2. work[q] \in Listeners
    BY <1>1 DEF AssistantInv, ATypeOK
  <1>3. ASSUME NEW l \in Listeners PROVE active'[l] = Cardinality(At({l})')
    <2>1. active \in [Listeners -> 0 .. MaxRequests]
          /\ active[l] = Cardinality(At({l}))
      BY DEF AssistantInv, ATypeOK, TypeOK
    <2>2. work \in [Questions -> Listeners \cup {"none"}]
      BY DEF AssistantInv, ATypeOK
    <2>3. "none" # l
      BY DEF Listeners
    <2>4. CASE l = work[q]
      <3>1. At({l})' = At({l}) \ {q} /\ q \in At({l})
        BY <1>1, <2>2, <2>3, <2>4 DEF At
      <3>2. Cardinality(At({l}) \ {q}) = Cardinality(At({l})) - 1
        BY <3>1, AtFinite, FS_RemoveElement
      <3>3. active'[l] = active[l] - 1
        BY <1>1, <2>1, <2>4
      <3> QED
        BY <2>1, <3>1, <3>2, <3>3
    <2>5. CASE l # work[q]
      <3>1. At({l})' = At({l})
        BY <1>1, <2>2, <2>3, <2>5 DEF At
      <3> QED
        BY <1>1, <2>1, <2>5, <3>1
    <2> QED
      BY <2>4, <2>5
  <1>4. ATypeOK'
    <2>1. /\ ask' \in [Questions -> {"new", "dial", "send", "sent", "answered",
                                    "error", "replied", "failed"}]
          /\ work' \in [Questions -> Listeners \cup {"none"}]
      BY <1>1 DEF AssistantInv, ATypeOK
    <2> QED
      BY <1>1, <1>3, <2>1 DEF AssistantInv, ServerInv, ATypeOK
  <1>5. SentInv'
    BY <1>1 DEF AssistantInv, ATypeOK, SentInv
  <1>6. CleanInv' /\ LostInv' /\ AcceptedIsAnswered'
    BY <1>1 DEF AssistantInv, CleanInv, LostInv, AcceptedIsAnswered
  <1> QED
    BY <1>4, <1>5, <1>6 DEF AssistantInv

\* Start moves: what it cuts is lost, and then it does not return nil.
LEMMA WorkerStartInv ==
  ASSUME AssistantInv, ServerInv', WorkerStart
  PROVE  AssistantInv'
  <1> DEFINE ls == CASE pc = "close" -> {"http"}
                     [] pc = "stop"  -> {"grpc"}
                     [] OTHER        -> {}
  <1>1. ls \in SUBSET Listeners /\ Severed = At(ls)
    BY DEF Severed, Listeners, At
  <1>2. /\ pc # "returned" /\ processes' = processes
        /\ \A l \in Listeners : active'[l] = IF l \in ls THEN 0 ELSE active[l]
        /\ cut => cut'
        /\ \A l \in ls : active[l] > 0 => cut'
    <2>1. active \in [Listeners -> 0 .. MaxRequests]
      BY DEF AssistantInv, ATypeOK, TypeOK
    <2>2. pc # "returned" /\ processes' = processes
      BY StartCuts DEF WorkerStart
    <2>3. CASE pc = "close"
      <3>1. /\ active' = [active EXCEPT !["http"] = 0]
            /\ cut' = (cut \/ active["http"] > 0)
        BY <2>3, StartCuts DEF WorkerStart
      <3>2. ls = {"http"}
        BY <2>3
      <3>3. (cut => cut') /\ \A l \in ls : active[l] > 0 => cut'
        BY <3>1, <3>2, Zenon
      <3> QED
        BY <2>1, <2>2, <3>1, <3>2, <3>3
    <2>4. CASE pc = "stop"
      <3>1. /\ active' = [active EXCEPT !["grpc"] = 0]
            /\ cut' = (cut \/ active["grpc"] > 0)
        BY <2>4, StartCuts DEF WorkerStart
      <3>2. ls = {"grpc"}
        BY <2>4
      <3>3. (cut => cut') /\ \A l \in ls : active[l] > 0 => cut'
        BY <3>1, <3>2, Zenon
      <3> QED
        BY <2>1, <2>2, <3>1, <3>2, <3>3
    <2>5. CASE pc \notin {"close", "stop"}
      <3>1. active' = active /\ cut' = cut /\ ls = {}
        BY <2>5, StartCuts DEF WorkerStart
      <3> QED
        BY <2>2, <3>1
    <2> QED
      BY <2>3, <2>4, <2>5
  <1>3. /\ \A l \in Listeners : At({l})' = IF l \in ls THEN {} ELSE At({l})
        /\ ask' \in [Questions -> {"new", "dial", "send", "sent", "answered",
                                  "error", "replied", "failed"}]
        /\ work' \in [Questions -> Listeners \cup {"none"}]
        /\ gone' = gone
        /\ \A q \in Questions : ask'[q] = ask[q] \/ ask'[q] = "error"
        /\ \A q \in Questions : work[q] = "none" => work'[q] = "none"
        /\ lost' = lost \cup (At(ls) \X {processes})
    BY <1>1, CutFacts DEF WorkerStart, AssistantInv
  <1>4. /\ clean' \in {clean, clean \cup {processes}}
        /\ processes \in clean' \ clean => ret' = "nil"
    BY DEF WorkerStart
  <1>5. At(ls) # {} => cut'
    <2> SUFFICES ASSUME NEW q \in At(ls) PROVE cut'
      OBVIOUS
    <2>1. PICK l \in ls : q \in At({l})
      BY DEF At
    <2>2. active[l] = Cardinality(At({l}))
      BY <1>1 DEF AssistantInv, ATypeOK
    <2> QED
      BY <1>2, <2>1, <2>2, AtFinite
  <1>6. processes \notin clean
    BY <1>2 DEF AssistantInv, CleanInv, ServerInv, ReturnInv
  <1>7. ret' = "nil" => ~ cut'
    BY DEF ServerInv, ReturnInv, StopInv
  <1> HIDE DEF ls
  <1>8. processes \in 1 .. MaxProcesses /\ clean \subseteq 1 .. processes
    BY DEF AssistantInv, CleanInv
  <1>9. CleanInv'
    BY <1>2, <1>4, <1>6, <1>8 DEF CleanInv
  <1>10. ATypeOK'
    <2>1. \A l \in Listeners : active'[l] = Cardinality(At({l})')
      BY <1>2, <1>3, FS_EmptySet DEF AssistantInv, ATypeOK
    <2>2. clean' \subseteq 1 .. MaxProcesses
      BY <1>4, <1>8 DEF AssistantInv, ATypeOK
    <2>3. lost' \subseteq Questions \X (1 .. MaxProcesses)
      BY <1>3, <1>8 DEF AssistantInv, ATypeOK, At
    <2>4. TypeOK' /\ gone' \subseteq Questions
      BY <1>3 DEF ServerInv, AssistantInv, ATypeOK
    <2> QED
      BY <1>3, <2>1, <2>2, <2>3, <2>4 DEF ATypeOK
  <1>11. SentInv'
    BY <1>3 DEF AssistantInv, SentInv
  <1>12. ASSUME NEW e \in lost'
         PROVE  /\ e[2] =< processes /\ (e[2] = processes => cut')
                /\ e[2] \notin clean'
    <2>1. CASE e \in lost
      <3>1. /\ e[2] =< processes /\ (e[2] = processes => cut')
            /\ e[2] \notin clean
        BY <1>2, <2>1 DEF AssistantInv, LostInv, AcceptedIsAnswered
      <3> QED
        BY <1>4, <1>6, <1>7, <3>1
    <2>2. CASE e \in At(ls) \X {processes}
      <3>1. e[2] = processes /\ cut'
        BY <1>5, <2>2
      <3> QED
        BY <1>4, <1>6, <1>7, <1>8, <3>1
    <2> QED
      BY <1>3, <2>1, <2>2
  <1>13. LostInv' /\ AcceptedIsAnswered'
    BY <1>2, <1>12 DEF LostInv, AcceptedIsAnswered
  <1> QED
    BY <1>9, <1>10, <1>11, <1>13 DEF AssistantInv

\* The process ends: the questions it still had are lost, but there were none
\* if its Start had returned nil.
LEMMA WorkerRestartInv ==
  ASSUME AssistantInv, ServerInv', WorkerRestart
  PROVE  AssistantInv'
  <1>1. /\ processes < MaxProcesses /\ processes' = processes + 1
        /\ active' = Everywhere(0)
        /\ clean' = clean
    BY DEF WorkerRestart, Restart
  <1>2. /\ \A l \in Listeners : At({l})' = {}
        /\ ask' \in [Questions -> {"new", "dial", "send", "sent", "answered",
                                  "error", "replied", "failed"}]
        /\ work' \in [Questions -> Listeners \cup {"none"}]
        /\ gone' = gone
        /\ \A q \in Questions : ask'[q] = ask[q] \/ ask'[q] = "error"
        /\ \A q \in Questions : work[q] = "none" => work'[q] = "none"
        /\ lost' = lost \cup (At(Listeners) \X {processes})
    BY CutFacts DEF WorkerRestart, AssistantInv
  <1>3. processes \in 1 .. MaxProcesses /\ clean \subseteq 1 .. processes
    BY DEF AssistantInv, CleanInv
  <1>4. /\ processes' \in 1 .. MaxProcesses /\ clean \subseteq 1 .. processes'
        /\ processes' \notin clean
    BY <1>1, <1>3, ServerAssumption
  <1>5. processes \in clean => At(Listeners) = {}
    <2> SUFFICES ASSUME processes \in clean, NEW q \in At(Listeners) PROVE FALSE
      OBVIOUS
    <2>1. work[q] \in Listeners /\ q \in At({work[q]})
      BY DEF At
    <2>2. active[work[q]] = 0
      BY <2>1 DEF AssistantInv, CleanInv, ServerInv, ReturnInv, StopInv
    <2>3. active[work[q]] = Cardinality(At({work[q]}))
      BY <2>1 DEF AssistantInv, ATypeOK
    <2> QED
      BY <2>1, <2>2, <2>3, AtFinite
  <1>6. CleanInv'
    BY <1>1, <1>4 DEF CleanInv
  <1>7. ATypeOK'
    <2>1. \A l \in Listeners : active'[l] = Cardinality(At({l})')
      BY <1>1, <1>2, FS_EmptySet DEF Everywhere
    <2>2. lost' \subseteq Questions \X (1 .. MaxProcesses)
      BY <1>2, <1>3 DEF AssistantInv, ATypeOK, At
    <2>3. /\ TypeOK' /\ gone' \subseteq Questions
          /\ clean' \subseteq 1 .. MaxProcesses
      BY <1>1, <1>2 DEF ServerInv, AssistantInv, ATypeOK
    <2> QED
      BY <1>2, <2>1, <2>2, <2>3 DEF ATypeOK
  <1>8. SentInv'
    BY <1>2 DEF AssistantInv, SentInv
  <1>9. ASSUME NEW e \in lost'
        PROVE  e[2] =< processes' /\ e[2] # processes' /\ e[2] \notin clean
    <2>1. CASE e \in lost
      <3>1. e[2] \in 1 .. MaxProcesses /\ e[2] =< processes /\ e[2] \notin clean
        BY <2>1 DEF AssistantInv, ATypeOK, LostInv, AcceptedIsAnswered
      <3> QED
        BY <1>1, <1>3, <3>1, ServerAssumption
    <2>2. CASE e \in At(Listeners) \X {processes}
      <3>1. e[2] = processes /\ At(Listeners) # {}
        BY <2>2
      <3> QED
        BY <1>1, <1>3, <1>5, <3>1, ServerAssumption
    <2> QED
      BY <1>2, <2>1, <2>2
  <1>10. LostInv' /\ AcceptedIsAnswered'
    BY <1>1, <1>9 DEF LostInv, AcceptedIsAnswered
  <1> QED
    BY <1>6, <1>7, <1>8, <1>10 DEF AssistantInv

\* Every step keeps the invariant.
LEMMA AStepInv == AssistantInv /\ [ANext]_aVars => AssistantInv'
  <1> SUFFICES ASSUME AssistantInv, [ANext]_aVars PROVE AssistantInv'
    OBVIOUS
  <1>1. ServerInv'
    BY AStepServer, StepInv DEF AssistantInv
  <1>2. ASSUME NEW q \in Questions,
               Question(q) \/ CoordinatorStep(q) \/ Leave(q) \/ Execute(q)
        PROVE  AssistantInv'
    BY <1>1, <1>2, CoordinatorInv, SendInv, RespondInv DEF CoordinatorStep
  <1>3. CASE WorkerStart
    BY <1>1, <1>3, WorkerStartInv
  <1>4. CASE WorkerRestart
    BY <1>1, <1>4, WorkerRestartInv
  <1>5. ASSUME NEW l \in Listeners, WorkerServe(l) \/ WorkerFails(l)
        PROVE  AssistantInv'
    <2>1. UNCHANGED <<askVars, lost, clean, active, processes, ret, cut>>
      BY <1>5 DEF WorkerServe, WorkerFails, ServeStep, BeginServe, ServeStops,
             AcceptFails, Exit, stopVars, pastVars
    <2> QED
      BY <1>1, <2>1, WorkerQuietInv
  <1>6. CASE WorkerExpire \/ WorkerSignal \/ UNCHANGED aVars
    <2>1. UNCHANGED <<askVars, lost, clean, active, processes, ret, cut>>
      BY <1>6 DEF WorkerExpire, WorkerSignal, Expire, CancelCtx, aVars, vars,
             srvVars, stopVars, pastVars
    <2> QED
      BY <1>1, <2>1, WorkerQuietInv
  <1> QED
    BY <1>2, <1>3, <1>4, <1>5, <1>6 DEF ANext

\* AssistantInv is an invariant of the assistant.
THEOREM AssistantInvariant == ASpec => []AssistantInv
  BY AInitInv, AStepInv, PTL DEF ASpec

\* Type correctness; the requests in flight at the worker's server are the
\* questions it works on.
THEOREM ATypeCorrect == AFairSpec => []ATypeOK
  <1>1. AssistantInv => ATypeOK
    BY DEF AssistantInv
  <1> QED
    BY AssistantInvariant, <1>1, PTL DEF AFairSpec, ASpec

\* No question was lost by a worker whose Start returned nil.
THEOREM AcceptedAreAnswered == AFairSpec => []AcceptedIsAnswered
  <1>1. AssistantInv => AcceptedIsAnswered
    BY DEF AssistantInv
  <1> QED
    BY AssistantInvariant, <1>1, PTL DEF AFairSpec, ASpec

\* The worker of the assistant is a Server, so that all that is proved of Server
\* holds of it.
THEOREM AssistantRunsServer == AFairSpec => Spec
  <1>1. AInit => Init
    BY DEF AInit
  <1>2. AssistantInv => ATypeOK
    BY DEF AssistantInv
  <1> QED
    BY AssistantInvariant, AStepServer, <1>1, <1>2, PTL
       DEF AFairSpec, ASpec, Spec
=============================================================================
