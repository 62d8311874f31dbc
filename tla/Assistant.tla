------------------------------ MODULE Assistant ------------------------------
(***************************************************************************)
(* The research assistant (examples): a coordinator, whose Execute sends   *)
(* each question to a worker agent through client.PeerClient, and the      *)
(* worker, whose Execute runs in the requests of its server (module        *)
(* Server).  The worker is the searcher or the hello-world agent, which    *)
(* answer at once, or the slow agent, which holds a request open.  Users   *)
(* may leave, and the worker may stop, crash and come back, at any time.   *)
(***************************************************************************)
EXTENDS Server, FiniteSets

CONSTANT Questions   \* messages users send to the coordinator

ASSUME AssistantAssumption == IsFiniteSet(Questions)

VARIABLES
    ask,    \* where the coordinator's Execute for each question is
    work,   \* listener on which the worker's Execute for it runs, or "none"
    gone,   \* questions whose context is cancelled
    lost,   \* history: <<question, process>>: accepted, but cut off
    clean   \* history: processes whose Start returned nil

askVars == <<ask, work, gone>>
aVars   == <<vars, askVars, lost, clean>>

AInit ==
    /\ Init
    /\ ask = [q \in Questions |-> "new"]
    /\ work = [q \in Questions |-> "none"]
    /\ gone = {}
    /\ lost = {}
    /\ clean = {}

At(ls) == {q \in Questions : work[q] \in ls}

Ask(q, from, to) ==
    /\ ask[q] = from
    /\ ask' = [ask EXCEPT ![q] = to]

------------------------------------------------------------------------------
(***************************************************************************)
(* The coordinator.                                                        *)
(***************************************************************************)

\* A user's message arrives: Execute begins.
Question(q) ==
    /\ Ask(q, "new", "dial")
    /\ UNCHANGED <<vars, work, gone, lost, clean>>

\* client.PeerClient, which always returns (PeerClientCache).
Dial(q) ==
    /\ Ask(q, "dial", "send") \/ Ask(q, "dial", "error")
    /\ UNCHANGED <<vars, work, gone, lost, clean>>

\* The transports that a listener carries.
Carries(l) == IF l = "grpc" THEN {"GRPC"} ELSE {"JSONRPC", "HTTP+JSON"}

\* peer.SendMessage: the request reaches the worker, over a transport that is
\* mounted ...
SendMessage(q, l) ==
    /\ Ask(q, "send", "sent")
    /\ mounted \cap Carries(l) # {}
    /\ Arrive(l)
    /\ work' = [work EXCEPT ![q] = l]
    /\ UNCHANGED <<gone, lost, clean>>

\* ... or it does not.
SendFails(q) ==
    /\ Ask(q, "send", "error")
    /\ UNCHANGED <<vars, work, gone, lost, clean>>

\* Mutant: an error is not passed on.
Yield_NoError(q) ==
    /\ Ask(q, "answered", "replied")
    /\ UNCHANGED <<vars, work, gone, lost, clean>>

\* Execute yields a message, or the error, and is done.
Yield(q) ==
    /\ Ask(q, "answered", "replied") \/ Ask(q, "error", "failed")
    /\ UNCHANGED <<vars, work, gone, lost, clean>>

\* The user leaves: the context of the request ends, here and at the worker.
Leave(q) ==
    /\ q \notin gone
    /\ gone' = gone \cup {q}
    /\ \E s \in {"dial", "send", "sent"} : Ask(q, s, "error")
    /\ UNCHANGED <<vars, work, lost, clean>>

------------------------------------------------------------------------------
(***************************************************************************)
(* The worker.                                                             *)
(***************************************************************************)

\* Mutant: the answer does not end the request.
Respond_Leaks(q) ==
    /\ work[q] # "none"
    /\ work' = [work EXCEPT ![q] = "none"]
    /\ ask' = [ask EXCEPT ![q] = IF @ = "sent" THEN "answered" ELSE @]
    /\ UNCHANGED <<vars, gone, lost, clean>>

\* Execute yields a message, or the error of its context, and the request
\* ends.  The searcher and the hello-world agent do nothing else.
Respond(q) ==
    /\ work[q] # "none"
    /\ Finish(work[q])
    /\ work' = [work EXCEPT ![q] = "none"]
    /\ ask' = [ask EXCEPT ![q] = IF @ = "sent" THEN "answered" ELSE @]
    /\ UNCHANGED <<gone, lost, clean>>

\* Mutant: the slow agent waits for the end of the context only.
Execute_OnCancel(q) == q \in gone /\ Respond(q)

\* The slow agent waits for its delay, or for the end of the context; either
\* may be over at any time.
Execute(q) == Respond(q)

\* Connections are cut: SendMessage returns an error.
Cut(qs) ==
    /\ work' = [q \in Questions |-> IF q \in qs THEN "none" ELSE work[q]]
    /\ ask' = [q \in Questions |->
           IF q \in qs /\ ask[q] = "sent" THEN "error" ELSE ask[q]]
    /\ lost' = lost \cup (qs \X {processes})
    /\ UNCHANGED gone

\* What the next step of Start cuts: httpSrv.Close and grpcServer.Stop do.
Severed ==
    CASE pc = "close" -> At({"http"})
      [] pc = "stop"  -> At({"grpc"})
      [] OTHER        -> {}

\* Start, in the worker's main.
WorkerStart ==
    /\ StartStep
    /\ Cut(Severed)
    /\ clean' = IF ret' = "nil" THEN clean \cup {processes} ELSE clean

\* The goroutines that serve, the timer and the signal.
WorkerServe(l) ==
    /\ ServeStep(l)
    /\ UNCHANGED <<askVars, lost, clean>>

WorkerFails(l) ==
    /\ AcceptFails(l)
    /\ UNCHANGED <<askVars, lost, clean>>

WorkerExpire ==
    /\ Expire
    /\ UNCHANGED <<askVars, lost, clean>>

WorkerSignal ==
    /\ CancelCtx
    /\ UNCHANGED <<askVars, lost, clean>>

\* The worker's process ends and another one starts.
WorkerRestart ==
    /\ Restart
    /\ Cut(At(Listeners))
    /\ UNCHANGED clean

CoordinatorStep(q) ==
    \/ Dial(q)
    \/ \E l \in Listeners : SendMessage(q, l)
    \/ SendFails(q)
    \/ Yield(q)

ANext ==
    \/ \E q \in Questions :
          Question(q) \/ CoordinatorStep(q) \/ Leave(q) \/ Execute(q)
    \/ WorkerStart
    \/ \E l \in Listeners : WorkerServe(l) \/ WorkerFails(l)
    \/ WorkerExpire
    \/ WorkerSignal
    \/ WorkerRestart

(***************************************************************************)
(* The fairness of Server's FairSpec; the goroutines of the coordinator    *)
(* are scheduled, and a delay ends.                                        *)
(***************************************************************************)
AFairSpec ==
    /\ AInit
    /\ [][ANext]_aVars
    /\ WF_aVars(WorkerStart)
    /\ \A l \in Listeners : WF_aVars(WorkerServe(l))
    /\ WF_aVars(WorkerExpire)
    /\ \A q \in Questions : WF_aVars(CoordinatorStep(q)) /\ WF_aVars(Execute(q))

------------------------------------------------------------------------------
(***************************************************************************)
(* Properties.                                                             *)
(***************************************************************************)

\* Every variable has its type, and the requests in flight at the worker's
\* server are the questions it works on.
ATypeOK ==
    /\ TypeOK
    /\ ask \in [Questions -> {"new", "dial", "send", "sent", "answered",
                             "error", "replied", "failed"}]
    /\ work \in [Questions -> Listeners \cup {"none"}]
    /\ gone \subseteq Questions
    /\ lost \subseteq Questions \X (1 .. MaxProcesses)
    /\ clean \subseteq 1 .. MaxProcesses
    /\ \A l \in Listeners : active[l] = Cardinality(At({l}))

\* No question was lost by a worker whose Start returned nil, not even when
\* the process ends after that: whoever accepted it has answered it.
AcceptedIsAnswered == \A e \in lost : e[2] \notin clean

\* Every question gets an answer or an error, whatever happens to the worker.
EveryQuestionReplied ==
    \A q \in Questions : ask[q] = "dial" ~> ask[q] \in {"replied", "failed"}

\* The executors of the examples justify the fairness that Server assumes:
\* its requests end.
ImplementsServer == DrainingSpec
=============================================================================
