--------------------------- MODULE ReadinessProofs ---------------------------
(***************************************************************************)
(* Proofs about Readiness for any number of watchers and Starts.           *)
(***************************************************************************)
EXTENDS Readiness, HealthProofs

\* attach is over once the stack is built, and every Start past its arguments
\* has made its health.Server.
PhaseInv ==
    /\ attaching # "idle" => phase = "stack"
    /\ phase \in {"stack", "bind", "serve", "flip", "stop", "abort", "crashed"}
           => starts > 0
    /\ flipped => phase \in {"flip", "stop", "returned"} /\ starts > 0
    /\ phase = "flip" => flipped

\* The SetServing of Start is the flip, and pushes to the server it attached.
FlipInv ==
    /\ pc[Start] # "idle" => phase = "flip" /\ value[Start] = "NOT_SERVING"
    /\ pc[Start] = "push" => gh[Start] = starts
    /\ \A s \in Setters : pc[s] # "idle" => value[s] \in {"SERVING", "NOT_SERVING"}

\* Once the flip has begun and no SERVING was set late, nobody is about to
\* push SERVING, and the flip leaves NOT_SERVING.
LateInv == flipped /\ late = {} =>
    /\ serving = "NOT_SERVING"
    /\ \A s \in Setters : pc[s] # "idle" => value[s] = "NOT_SERVING"
    /\ pc[Start] = "idle" => status[starts] = "NOT_SERVING"

ReadinessInv == RTypeOK /\ HealthInv /\ PhaseInv /\ FlipInv /\ LateInv

\* The initial state satisfies the invariant.
LEMMA RInitInv == RInit => ReadinessInv
  <1> SUFFICES ASSUME RInit PROVE ReadinessInv
    OBVIOUS
  <1>1. HealthInv
    BY InitInv DEF RInit
  <1>2. RTypeOK
    BY <1>1 DEF RInit, RTypeOK, HealthInv, L!Init, L!Phases
  <1>3. PhaseInv /\ FlipInv /\ LateInv
    BY ReadinessAssumption DEF RInit, Init, L!Init, PhaseInv, FlipInv, LateInv
  <1> QED
    BY <1>1, <1>2, <1>3 DEF ReadinessInv

\* To those who use the Health alone, a step of Start or of a watcher is a step
\* of Health or none.
LEMMA RStepHealth == [RNext]_allVars => [Next]_vars
  <1> SUFFICES ASSUME [RNext]_allVars PROVE [Next]_vars
    OBVIOUS
  <1>1. CASE BeginAttach \/ FinishAttach
    BY <1>1 DEF BeginAttach, FinishAttach, Next
  <1>2. CASE FinishStack \/ EndFlip \/ StartStep \/ StartAgain
    BY <1>2 DEF FinishStack, EndFlip, StartStep, StartAgain
  <1>3. CASE BeginFlip \/ FlipGRPC
    BY <1>3, ReadinessAssumption DEF BeginFlip, FlipGRPC, Next
  <1>4. ASSUME NEW w \in Watchers, WatchStep(w) PROVE [Next]_vars
    <2>1. w \in Setters
      BY DEF Watchers
    <2> QED
      BY <1>4, <2>1 DEF WatchStep, Check, Set, SetGRPC, Wait, Next
  <1>5. CASE UNCHANGED allVars
    BY <1>5 DEF allVars
  <1> QED
    BY <1>1, <1>2, <1>3, <1>4, <1>5 DEF RNext

\* Every step keeps the types.
LEMMA RTypeStep ==
  ASSUME ReadinessInv, [RNext]_allVars, TypeOK' PROVE RTypeOK'
  <1> USE DEF ReadinessInv, RTypeOK, startVars, watchVars, L!Phases, L!Goto
  <1>1. CASE BeginAttach
    BY <1>1 DEF BeginAttach, L!CheckArgs
  <1>2. CASE FinishAttach \/ FlipGRPC
    BY <1>2 DEF FinishAttach, FlipGRPC
  <1>3. CASE FinishStack
    BY <1>3 DEF FinishStack, L!BuildStack
  <1>4. CASE BeginFlip
    BY <1>4 DEF BeginFlip, L!SelectCtx
  <1>5. CASE EndFlip
    BY <1>5 DEF EndFlip, L!Flip
  <1>6. CASE StartStep
    BY <1>6 DEF StartStep, L!Bind, L!SelectServeErr, L!Return, L!CancelCtx
  <1>7. CASE StartAgain
    BY <1>7 DEF StartAgain, L!Restart
  <1>8. ASSUME NEW w \in Watchers, WatchStep(w) PROVE RTypeOK'
    <2>1. CASE Check(w) \/ Wait(w)
      BY <2>1 DEF Check, Wait, Watch
    <2>2. ASSUME NEW v \in {"SERVING", "NOT_SERVING"}, Set(w, v) PROVE RTypeOK'
      BY <2>2 DEF Set, Watch
    <2>3. CASE SetGRPC(w)
      BY <2>3 DEF SetGRPC
    <2> QED
      BY <1>8, <2>1, <2>2, <2>3 DEF WatchStep
  <1>9. CASE UNCHANGED allVars
    BY <1>9 DEF allVars
  <1> QED
    BY <1>1, <1>2, <1>3, <1>4, <1>5, <1>6, <1>7, <1>8, <1>9 DEF RNext

\* Every step keeps what is said of the flip.
LEMMA RFlipStep ==
  ASSUME ReadinessInv, [RNext]_allVars PROVE PhaseInv' /\ FlipInv' /\ LateInv'
  <1> USE ReadinessAssumption
      DEF ReadinessInv, PhaseInv, FlipInv, LateInv, startVars, watchVars, L!Goto
  <1>0. TypeOK /\ AttachInv
    BY DEF RTypeOK, HealthInv
  <1>1. CASE BeginAttach
    BY <1>0, <1>1 DEF BeginAttach, L!CheckArgs, NewServer, vars, TypeOK
  <1>2. CASE FinishAttach
    BY <1>0, <1>2 DEF FinishAttach, Seed, Publish, TypeOK
  <1>3. CASE FinishStack
    BY <1>3 DEF FinishStack, L!BuildStack, vars
  <1>4. CASE BeginFlip
    BY <1>0, <1>4 DEF BeginFlip, L!SelectCtx, Store, Watchers, TypeOK
  <1>5. CASE FlipGRPC
    <2>1. CASE Load(Start)
      <3>1. grpc = starts /\ grpc # Nil
        BY <1>0, <2>1 DEF Load, AttachInv, TypeOK, Nil
      <3> QED
        BY <1>0, <1>5, <2>1, <3>1 DEF FlipGRPC, Load, TypeOK
    <2>2. CASE Push(Start)
      <3>1. status'[starts] = "NOT_SERVING"
        BY <1>0, <2>2 DEF Push, TypeOK, Servers
      <3> QED
        BY <1>0, <1>5, <2>2, <3>1 DEF FlipGRPC, Push, TypeOK
    <2> QED
      BY <1>5, <2>1, <2>2 DEF FlipGRPC
  <1>6. CASE EndFlip
    BY <1>6 DEF EndFlip, L!Flip, vars
  <1>7. CASE StartStep
    BY <1>7
       DEF StartStep, L!Bind, L!SelectServeErr, L!Return, L!CancelCtx, vars
  <1>8. CASE StartAgain
    BY <1>8 DEF StartAgain, L!Restart, vars
  <1>9. ASSUME NEW w \in Watchers, WatchStep(w)
        PROVE  PhaseInv' /\ FlipInv' /\ LateInv'
    <2>0. w \in Setters /\ w # Start
      BY DEF Watchers
    <2>1. CASE Check(w) \/ Wait(w)
      BY <2>1 DEF Check, Wait, vars
    <2>2. ASSUME NEW v \in {"SERVING", "NOT_SERVING"}, Set(w, v)
          PROVE  PhaseInv' /\ FlipInv' /\ LateInv'
      BY <1>0, <2>0, <2>2 DEF Set, Store, TypeOK
    <2>3. CASE SetGRPC(w)
      <3>1. CASE Load(w)
        BY <1>0, <2>0, <2>3, <3>1 DEF SetGRPC, Load, TypeOK
      <3>2. CASE Push(w)
        <4>1. starts > 0 => status'[starts] \in {status[starts], value[w]}
          BY <1>0, <3>2 DEF Push, TypeOK, Servers
        <4> QED
          BY <1>0, <2>0, <2>3, <3>2, <4>1 DEF SetGRPC, Push, TypeOK
      <3> QED
        BY <2>3, <3>1, <3>2 DEF SetGRPC
    <2> QED
      BY <1>9, <2>1, <2>2, <2>3 DEF WatchStep
  <1>10. CASE UNCHANGED allVars
    BY <1>10 DEF allVars, vars
  <1> QED
    BY <1>1, <1>2, <1>3, <1>4, <1>5, <1>6, <1>7, <1>8, <1>9, <1>10 DEF RNext

\* ReadinessInv is an invariant of Readiness.
THEOREM ReadinessInvariant == RSpec => []ReadinessInv
  <1>1. ReadinessInv /\ [RNext]_allVars => ReadinessInv'
    <2> SUFFICES ASSUME ReadinessInv, [RNext]_allVars PROVE ReadinessInv'
      OBVIOUS
    <2>1. HealthInv'
      BY RStepHealth, StepInv DEF ReadinessInv
    <2>2. RTypeOK'
      BY <2>1, RTypeStep DEF HealthInv
    <2> QED
      BY <2>1, <2>2, RFlipStep DEF ReadinessInv
  <1> QED
    BY RInitInv, <1>1, PTL DEF RSpec

\* Start and its watchers use a Health as module Health says it may be used:
\* what is proved of Health holds of it in their hands.
THEOREM ReadinessImplementsHealth == RSpec => Spec
  <1>1. RInit => Init
    BY DEF RInit
  <1> QED
    BY <1>1, RStepHealth, PTL DEF RSpec, Spec

\* Type correctness of Readiness.
THEOREM RTypeCorrect == RSpec => []RTypeOK
  <1>1. ReadinessInv => RTypeOK
    BY DEF ReadinessInv
  <1> QED
    BY ReadinessInvariant, <1>1, PTL

\* From the end of the flip on, both probes say NOT_SERVING, unless a
\* SetServing(true) was under way when it began or began later.
THEOREM DownAfterFlip == RSpec => []DownUnlessSetLate
  <1>1. ReadinessInv => DownUnlessSetLate
    BY DEF ReadinessInv, PhaseInv, FlipInv, LateInv, DownUnlessSetLate,
           ShuttingDown
  <1> QED
    BY ReadinessInvariant, <1>1, PTL
=============================================================================
