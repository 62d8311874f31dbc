--------------------------- MODULE StartLifecycle ---------------------------
(***************************************************************************)
(* What the callers of server.Start, and those who share its Health, may   *)
(* rely on: the phases it goes through.  Module Server implements this     *)
(* specification; module Readiness composes it with Health.                *)
(***************************************************************************)

VARIABLES
    phase,    \* the phase Start is in
    ctxDone   \* its context is cancelled

vars == <<phase, ctxDone>>

Phases == {"args", "stack", "bind", "serve", "flip", "stop", "abort",
           "returned", "crashed"}

Init ==
    /\ phase = "args"
    /\ ctxDone = FALSE

Goto(from, to) ==
    /\ phase = from
    /\ phase' = to
    /\ UNCHANGED ctxDone

CheckArgs == Goto("args", "stack") \/ Goto("args", "returned")

\* buildStack returns, or dies of a card that lists a transport twice.
BuildStack == Goto("stack", "bind") \/ Goto("stack", "crashed")

\* The listeners are bound and the broker is told, or a step of this fails.
Bind == Goto("bind", "serve") \/ Goto("bind", "returned")

\* A serving goroutine has ended by itself: Start stops, without a flip.
SelectServeErr == Goto("serve", "abort")

\* The context is over: Start sets its Health to NOT_SERVING first.
SelectCtx ==
    /\ ctxDone
    /\ Goto("serve", "flip")

Flip == Goto("flip", "stop")

Return == Goto("stop", "returned") \/ Goto("abort", "returned")

CancelCtx ==
    /\ ~ ctxDone
    /\ ctxDone' = TRUE
    /\ UNCHANGED phase

\* Start is called again, with another context.
Restart ==
    /\ phase' = "args"
    /\ ctxDone' = FALSE

Next ==
    \/ CheckArgs \/ BuildStack \/ Bind
    \/ SelectServeErr \/ SelectCtx \/ Flip
    \/ Return
    \/ CancelCtx
    \/ Restart

Spec == Init /\ [][Next]_vars
=============================================================================
