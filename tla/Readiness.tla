------------------------------ MODULE Readiness ------------------------------
(***************************************************************************)
(* The Health of an agent (module Health) in the hands of those who set    *)
(* it: Start (as StartLifecycle has it), which attaches it while it builds *)
(* the handlers and sets it to NOT_SERVING when its context ends, and the  *)
(* watchers of the README, goroutines that poll a dependency and set it to *)
(* what they find.  When Start has returned, the program may call it       *)
(* again, with the same Health.                                            *)
(***************************************************************************)
EXTENDS Health

CONSTANT Start   \* Start, as a caller of SetServing

ASSUME ReadinessAssumption == Start \in Setters

Watchers == Setters \ {Start}

VARIABLES
    phase,     \* the phase Start is in
    ctxDone,   \* the context of Start and the watchers is cancelled
    watch,     \* where each watcher is
    flipped,   \* history: this Start has begun to set NOT_SERVING
    late       \* history: watchers that set SERVING at that time or since

L == INSTANCE StartLifecycle

startVars == <<phase, ctxDone>>
watchVars == <<watch, flipped, late>>
allVars   == <<vars, startVars, watchVars>>

RInit ==
    /\ Init
    /\ L!Init
    /\ watch = [w \in Watchers |-> "check"]
    /\ flipped = FALSE
    /\ late = {}

------------------------------------------------------------------------------
(***************************************************************************)
(* Start.                                                                  *)
(***************************************************************************)

\* Its arguments are complete: buildStack begins, with attach.
BeginAttach ==
    /\ L!CheckArgs
    /\ IF phase' = "stack" THEN NewServer ELSE UNCHANGED vars
    /\ UNCHANGED watchVars

FinishAttach ==
    /\ Seed \/ Publish
    /\ UNCHANGED <<startVars, watchVars>>

\* The transports are mounted after attach.
FinishStack ==
    /\ attaching = "idle"
    /\ L!BuildStack
    /\ UNCHANGED <<vars, watchVars>>

\* The context ends: SetServing(false) begins ...
BeginFlip ==
    /\ L!SelectCtx
    /\ Store(Start, "NOT_SERVING")
    /\ flipped' = TRUE
    /\ late' = {w \in Watchers : pc[w] # "idle" /\ value[w] = "SERVING"}
    /\ UNCHANGED watch

\* ... goes on ...
FlipGRPC ==
    /\ Load(Start) \/ Push(Start)
    /\ UNCHANGED <<startVars, watchVars>>

\* Mutant: SetServing(false) runs in a goroutine of its own.
EndFlip_Async ==
    /\ L!Flip
    /\ UNCHANGED <<vars, watchVars>>

\* ... and returns, before the listeners close.
EndFlip ==
    /\ pc[Start] = "idle"
    /\ L!Flip
    /\ UNCHANGED <<vars, watchVars>>

\* The other steps of Start.
StartStep ==
    /\ L!Bind \/ L!SelectServeErr \/ L!Return \/ L!CancelCtx
    /\ UNCHANGED <<vars, watchVars>>

\* The program calls Start again, with a context and watchers of its own.
StartAgain ==
    /\ phase = "returned"
    /\ starts < MaxStarts
    /\ \A w \in Watchers : watch[w] = "done"
    /\ L!Restart
    /\ watch' = [w \in Watchers |-> "check"]
    /\ flipped' = FALSE
    /\ late' = {}
    /\ UNCHANGED vars

------------------------------------------------------------------------------
(***************************************************************************)
(* watchHealth.                                                            *)
(***************************************************************************)

Watch(w, from, to) ==
    /\ watch[w] = from
    /\ watch' = [watch EXCEPT ![w] = to]

\* check returns; it fails once the context is over.
Check(w) ==
    /\ \/ ~ ctxDone /\ Watch(w, "check", "up")
       \/ Watch(w, "check", "down")
    /\ UNCHANGED <<vars, startVars, flipped, late>>

\* Mutant: the watcher calls SetServing only when its finding has changed.
Set_OnChange(w, v) ==
    /\ Watch(w, IF v = "SERVING" THEN "up" ELSE "down", "wait")
    /\ IF value[w] = v THEN UNCHANGED vars ELSE Store(w, v)
    /\ late' = IF flipped /\ v = "SERVING" THEN late \cup {w} ELSE late
    /\ UNCHANGED <<startVars, flipped>>

\* SetServing begins, after every check.
Set(w, v) ==
    /\ Watch(w, IF v = "SERVING" THEN "up" ELSE "down", "wait")
    /\ Store(w, v)
    /\ late' = IF flipped /\ v = "SERVING" THEN late \cup {w} ELSE late
    /\ UNCHANGED <<startVars, flipped>>

SetGRPC(w) ==
    /\ Load(w) \/ Push(w)
    /\ UNCHANGED <<startVars, watchVars>>

\* It has returned, and the select takes the tick, or the end of the context.
Wait(w) ==
    /\ pc[w] = "idle"
    /\ \/ Watch(w, "wait", "check")
       \/ ctxDone /\ Watch(w, "wait", "done")
    /\ UNCHANGED <<vars, startVars, flipped, late>>

WatchStep(w) ==
    \/ Check(w)
    \/ \E v \in {"SERVING", "NOT_SERVING"} : Set(w, v)
    \/ SetGRPC(w)
    \/ Wait(w)

RNext ==
    \/ BeginAttach \/ FinishAttach \/ FinishStack
    \/ BeginFlip \/ FlipGRPC \/ EndFlip
    \/ StartStep
    \/ StartAgain
    \/ \E w \in Watchers : WatchStep(w)

RSpec == RInit /\ [][RNext]_allVars

\* A check honours its context of two seconds and the ticker ticks: watchers
\* make progress.  Nothing is assumed about Start.
RFairSpec == RSpec /\ \A w \in Watchers : WF_allVars(WatchStep(w))

------------------------------------------------------------------------------
(***************************************************************************)
(* Properties.                                                             *)
(***************************************************************************)

\* Every variable has its type.
RTypeOK ==
    /\ TypeOK
    /\ phase \in L!Phases /\ ctxDone \in BOOLEAN
    /\ watch \in [Watchers -> {"check", "up", "down", "wait", "done"}]
    /\ flipped \in BOOLEAN
    /\ late \subseteq Watchers

\* The flip of this Start is behind it.
ShuttingDown == flipped /\ phase # "flip"

\* From the flip on, through the shutdown, both probes say NOT_SERVING, as
\* long as no SetServing(true) was under way when the flip began or began
\* later.  What went on before, a SetServing that overlapped attach included,
\* does not matter.
DownUnlessSetLate ==
    ShuttingDown /\ late = {} => serving = "NOT_SERVING" /\ status[starts] = "NOT_SERVING"

\* the agent "flips to NOT_SERVING automatically when Start begins shutting
\* down", "first so kynoprobe pulls this replica out of rotation before the
\* listeners close": from the flip on, no probe says SERVING.
DownWhileShuttingDown == ShuttingDown => ~ HTTPReady /\ ~ GRPCReady

\* Start serves and its probes differ.
ProbesDiffer == phase = "serve" /\ ~ ctxDone /\ ~ (HTTPReady <=> GRPCReady)

\* While Start serves, probes that differ, because SetServing overlapped
\* attach, agree again: the watcher sets what it finds after every check, not
\* only when it finds a change.
ProbesHeal == ProbesDiffer ~> ~ ProbesDiffer
=============================================================================
