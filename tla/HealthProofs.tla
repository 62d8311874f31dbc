---------------------------- MODULE HealthProofs ----------------------------
(***************************************************************************)
(* Proofs about Health for any number of setters and Starts.               *)
(***************************************************************************)
EXTENDS Health, TLAPS

\* attach is over when h.grpc is the server made last.
AttachInv ==
    /\ attaching = "idle" => grpc = starts
    /\ attaching # "idle" => starts > 0
    /\ \A s \in Setters : pc[s] = "push" => gh[s] # Nil

\* What holds while the last operation that began alone is not overlapped:
\* nothing else runs, its value is the stored one, and a call that is about to
\* push has loaded the current server.
AloneInv == overlap = {} =>
    /\ \A s \in Setters : pc[s] # "idle" =>
          /\ attaching = "idle"
          /\ serving = value[s]
          /\ \A t \in Setters : pc[t] # "idle" => s = t
    /\ \A s \in Setters : pc[s] = "push" => gh[s] = grpc
    /\ attaching = "publish" => status[starts] = serving
    /\ Quiet /\ starts > 0 => status[starts] = serving

HealthInv == TypeOK /\ AttachInv /\ AloneInv

\* The initial state satisfies the invariant.
LEMMA InitInv == Init => HealthInv
  BY HealthAssumption
     DEF Init, HealthInv, TypeOK, AttachInv, AloneInv, Status, Servers, Nil,
         Quiet, SettersIdle

\* Every step keeps the invariant.
LEMMA StepInv == HealthInv /\ [Next]_vars => HealthInv'
  <1> SUFFICES ASSUME HealthInv, [Next]_vars PROVE HealthInv'
    OBVIOUS
  <1> USE HealthAssumption DEF HealthInv, TypeOK, Status, Servers, Nil
  <1>1. ASSUME NEW s \in Setters, NEW v \in {"SERVING", "NOT_SERVING"},
               Store(s, v)
        PROVE  HealthInv'
    <2>1. TypeOK' /\ AttachInv'
      BY <1>1 DEF Store, AttachInv
    <2>2. AloneInv'
      <3>1. CASE Quiet
        BY <1>1, <3>1 DEF Store, AloneInv, Quiet, SettersIdle
      <3>2. CASE ~ Quiet
        BY <1>1, <3>2 DEF Store, AloneInv, Quiet
      <3> QED
        BY <3>1, <3>2
    <2> QED
      BY <2>1, <2>2
  <1>2. ASSUME NEW s \in Setters, Load(s) PROVE HealthInv'
    <2>1. TypeOK' /\ AttachInv'
      BY <1>2 DEF Load, AttachInv
    <2>2. AloneInv'
      BY <1>2 DEF Load, AttachInv, AloneInv, Quiet, SettersIdle
    <2> QED
      BY <2>1, <2>2
  <1>3. ASSUME NEW s \in Setters, Push(s) PROVE HealthInv'
    <2>1. TypeOK' /\ AttachInv'
      BY <1>3 DEF Push, AttachInv
    <2>2. AloneInv'
      BY <1>3 DEF Push, AttachInv, AloneInv, Quiet, SettersIdle
    <2> QED
      BY <2>1, <2>2
  <1>4. CASE NewServer
    <2>1. /\ starts' \in Servers
          /\ status' = [status EXCEPT ![starts'] = "SERVING"]
          /\ attaching' = "seed"
          /\ UNCHANGED <<serving, grpc, pc, value, gh>>
      BY <1>4 DEF NewServer
    <2>2. TypeOK'
      <3>1. overlap' = {} \/ overlap' = overlap \cup {"attach"}
        BY <1>4 DEF NewServer
      <3>2. overlap' \subseteq {"setters", "attach"}
        BY <3>1
      <3>3. starts' \in 0 .. MaxStarts /\ status' \in [Servers -> Status]
        BY <2>1
      <3> QED
        BY <2>1, <3>2, <3>3
    <2>3. AttachInv'
      BY <2>1 DEF AttachInv
    <2>4. AloneInv'
      <3>1. CASE Quiet
        BY <1>4, <3>1 DEF NewServer, AloneInv, Quiet, SettersIdle
      <3>2. CASE ~ Quiet
        BY <1>4, <3>2 DEF NewServer, AloneInv
      <3> QED
        BY <3>1, <3>2
    <2> QED
      BY <2>2, <2>3, <2>4
  <1>5. CASE Seed
    BY <1>5 DEF Seed, AttachInv, AloneInv, Quiet, SettersIdle
  <1>6. CASE Publish
    BY <1>6 DEF Publish, AttachInv, AloneInv, Quiet, SettersIdle
  <1>7. CASE UNCHANGED vars
    BY <1>7 DEF vars, AttachInv, AloneInv, Quiet, SettersIdle
  <1> QED
    BY <1>1, <1>2, <1>3, <1>4, <1>5, <1>6, <1>7 DEF Next

\* HealthInv is an invariant of Health.
THEOREM HealthInvariant == Spec => []HealthInv
  BY InitInv, StepInv, PTL DEF Spec

\* Type correctness.
THEOREM TypeCorrect == Spec => []TypeOK
  <1>1. HealthInv => TypeOK
    BY DEF HealthInv
  <1> QED
    BY HealthInvariant, <1>1, PTL

\* Both probes agree when nothing is under way and the last operation to begin
\* alone was not overlapped, whatever SetServing and attach did before.
THEOREM ProbesAgree == Spec => []AgreeWhenAlone
  <1>1. HealthInv => AgreeWhenAlone
    BY DEF HealthInv, AloneInv, AgreeWhenAlone, HTTPReady, GRPCReady
  <1> QED
    BY HealthInvariant, <1>1, PTL
=============================================================================
