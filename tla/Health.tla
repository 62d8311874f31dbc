------------------------------- MODULE Health -------------------------------
(***************************************************************************)
(* Readiness (pkg/server/health.go).  GET /healthz reads a Health from     *)
(* its atomic field serving, and grpc.health.v1 from the health.Server     *)
(* that attach makes for each Start.  Any number of goroutines call        *)
(* SetServing, Start's own on shutdown among them; each call and attach    *)
(* take several steps, which interleave.                                   *)
(***************************************************************************)
EXTENDS Integers

CONSTANTS
    Setters,    \* goroutines that call SetServing
    MaxStarts   \* bound: times Start is called, one after the other

ASSUME HealthAssumption == MaxStarts \in Nat

Status  == {"UNKNOWN", "SERVING", "NOT_SERVING"}
Servers == 1 .. MaxStarts   \* health.Server of each Start
Nil     == 0                \* no health.Server

VARIABLES
    serving,   \* h.serving
    grpc,      \* h.grpc: the server SetServing pushes to, or Nil
    status,    \* status of service "" in each health.Server
    starts,    \* the health.Server made last: the one that answers probes
    attaching, \* where attach is: "idle", "seed" or "publish"
    pc,        \* where each SetServing call is
    value,     \* its argument
    gh,        \* the health.Server it loaded
    overlap    \* history: what overlapped since an operation last began alone

vars == <<serving, grpc, status, starts, attaching, pc, value, gh, overlap>>

\* Init: a Health made by NewHealth, or the zero value.
Init ==
    /\ serving \in {"SERVING", "UNKNOWN"}
    /\ grpc = Nil
    /\ status = [i \in Servers |-> "UNKNOWN"]
    /\ starts = 0
    /\ attaching = "idle"
    /\ pc = [s \in Setters |-> "idle"]
    /\ value = [s \in Setters |-> "UNKNOWN"]
    /\ gh = [s \in Setters |-> Nil]
    /\ overlap = {}

SettersIdle == \A s \in Setters : pc[s] = "idle"
Quiet       == SettersIdle /\ attaching = "idle"

------------------------------------------------------------------------------
(***************************************************************************)
(* SetServing.                                                             *)
(***************************************************************************)

\* Mutant: false is stored as another value of the protobuf enumeration.
Store_OtherValue(s, v) ==
    /\ pc[s] = "idle"
    /\ pc' = [pc EXCEPT ![s] = "load"]
    /\ value' = [value EXCEPT ![s] = v]
    /\ serving' = IF v = "SERVING" THEN v ELSE "SERVICE_UNKNOWN"
    /\ overlap' = IF Quiet THEN {} ELSE overlap
    /\ UNCHANGED <<grpc, status, starts, attaching, gh>>

\* h.serving.Store
Store(s, v) ==
    /\ pc[s] = "idle"
    /\ pc' = [pc EXCEPT ![s] = "load"]
    /\ value' = [value EXCEPT ![s] = v]
    /\ serving' = v
    /\ overlap' = IF Quiet THEN {}
                  ELSE overlap \cup (IF SettersIdle THEN {} ELSE {"setters"})
                               \cup (IF attaching = "idle" THEN {} ELSE {"attach"})
    /\ UNCHANGED <<grpc, status, starts, attaching, gh>>

\* Under h.mu: gh := h.grpc.
Load(s) ==
    /\ pc[s] = "load"
    /\ gh' = [gh EXCEPT ![s] = grpc]
    /\ pc' = [pc EXCEPT ![s] = IF grpc = Nil THEN "idle" ELSE "push"]
    /\ UNCHANGED <<serving, grpc, status, starts, attaching, value, overlap>>

\* gh.SetServingStatus("", status)
Push(s) ==
    /\ pc[s] = "push"
    /\ pc' = [pc EXCEPT ![s] = "idle"]
    /\ status' = [status EXCEPT ![gh[s]] = value[s]]
    /\ UNCHANGED <<serving, grpc, starts, attaching, value, gh, overlap>>

(***************************************************************************)
(* attach, by Start.  Starts that share a Health follow one another.       *)
(***************************************************************************)

\* health.NewServer: service "" is SERVING.
NewServer ==
    /\ attaching = "idle"
    /\ starts < MaxStarts
    /\ starts' = starts + 1
    /\ status' = [status EXCEPT ![starts'] = "SERVING"]
    /\ attaching' = "seed"
    /\ overlap' = IF Quiet THEN {} ELSE overlap \cup {"attach"}
    /\ UNCHANGED <<serving, grpc, pc, value, gh>>

\* Mutant: attach does not carry the status over.
Seed_Skipped ==
    /\ attaching = "seed"
    /\ attaching' = "publish"
    /\ UNCHANGED <<serving, grpc, status, starts, pc, value, gh, overlap>>

\* gh.SetServingStatus("", h.status())
Seed ==
    /\ attaching = "seed"
    /\ attaching' = "publish"
    /\ status' = [status EXCEPT ![starts] = serving]
    /\ UNCHANGED <<serving, grpc, starts, pc, value, gh, overlap>>

\* Under h.mu: h.grpc = gh.
Publish ==
    /\ attaching = "publish"
    /\ attaching' = "idle"
    /\ grpc' = starts
    /\ UNCHANGED <<serving, status, starts, pc, value, gh, overlap>>

Next ==
    \/ \E s \in Setters :
          \/ \E v \in {"SERVING", "NOT_SERVING"} : Store(s, v)
          \/ Load(s)
          \/ Push(s)
    \/ NewServer
    \/ Seed
    \/ Publish

Spec == Init /\ [][Next]_vars

------------------------------------------------------------------------------
(***************************************************************************)
(* What the two probes see.                                                *)
(***************************************************************************)

\* httpHandler: 200 when SERVING, 503 otherwise.
HTTPReady == serving = "SERVING"

\* The health service of the running Start.
GRPCReady == status[starts] = "SERVING"

------------------------------------------------------------------------------
(***************************************************************************)
(* Properties.                                                             *)
(***************************************************************************)

\* Every variable has its type.
TypeOK ==
    /\ serving \in Status
    /\ grpc \in Servers \cup {Nil}
    /\ status \in [Servers -> Status]
    /\ starts \in 0 .. MaxStarts
    /\ attaching \in {"idle", "seed", "publish"}
    /\ pc \in [Setters -> {"idle", "load", "push"}]
    /\ value \in [Setters -> Status]
    /\ gh \in [Setters -> Servers \cup {Nil}]
    /\ overlap \subseteq {"setters", "attach"}

\* When no call is under way, both probes answer alike, provided that the last
\* operation to begin while nothing else ran was not overlapped: a SetServing
\* that runs alone repairs whatever earlier overlaps left, and so does the
\* attach of a later Start.
AgreeWhenAlone ==
    Quiet /\ starts > 0 /\ overlap = {} => (HTTPReady <=> GRPCReady)

\* "the same state is observed by both the gRPC and HTTP surfaces": when no
\* call is under way, both probes answer alike.
SurfacesAgree ==
    Quiet /\ starts > 0 => (HTTPReady <=> GRPCReady)
=============================================================================
