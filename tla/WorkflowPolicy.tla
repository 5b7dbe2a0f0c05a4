--------------------------- MODULE WorkflowPolicy ---------------------------
(***************************************************************************)
(* One workflow of a policy as load_policy accepts it (engine.py): a graph *)
(* of gates, numbered in definition order, and what a request's            *)
(* minimum_control makes of it.                                            *)
(***************************************************************************)
EXTENDS Naturals

CONSTANTS
    GateCount,          \* the gates of the workflow are 1..GateCount
    Kind,               \* gate -> kind
    Requires,           \* gate -> the gates it requires
    Rechecks,           \* tool gates with recheck set
    StepUp,             \* approval gates whose level is human_step_up
    Ttl,                \* gate -> ttl_seconds, of the approval gates
    StepUpTtl,          \* the cap on the ttl under step_up: 300 in the code
    Version,            \* 1 or 2
    Enforcing,          \* mode is enforcing
    ExecutionEnabled,
    SimulationOnly,     \* simulation_only of the execute gate
    AuthorizationTtl    \* ttl_seconds of a version 2 authorization

Gates == 1..GateCount
Kinds == {"schema", "condition", "tool", "notify", "approval", "execute"}
OfKind(k) == {g \in Gates : Kind[g] = k}

\* _reject_cycles: in whatever set of gates, some gate waits for none of it.
Acyclic ==
    \A S \in SUBSET Gates : S # {} => \E g \in S : Requires[g] \intersect S = {}

\* _ancestors: everything a gate waits for, directly or not; the least set
\* that holds its requirements and theirs.
Closed(S) == \A g \in S : Requires[g] \subseteq S
Ancestors ==
    [g \in Gates |-> {h \in Gates :
        \A S \in SUBSET Gates : Closed(S) /\ Requires[g] \subseteq S => h \in S}]

Execute == CHOOSE g \in Gates : Kind[g] = "execute"
Approvals == {g \in Ancestors[Execute] : Kind[g] = "approval"}

WorkflowShape ==
    /\ GateCount \in Nat \ {0}
    /\ Kind \in [Gates -> Kinds]
    /\ Requires \in [Gates -> SUBSET Gates]
    /\ Rechecks \subseteq OfKind("tool")
    /\ StepUp \subseteq OfKind("approval")
    /\ Ttl \in [Gates -> Nat \ {0}]
    /\ StepUpTtl \in Nat \ {0}
    /\ Version \in {1, 2}
    /\ Enforcing \in BOOLEAN
    /\ ExecutionEnabled \in BOOLEAN
    /\ SimulationOnly \in BOOLEAN
    /\ AuthorizationTtl \in Nat \ {0}

\* What load_policy checks of the graph and of the mode.
Loadable ==
    /\ Acyclic
    /\ \A g \in OfKind("approval") : \E n \in Ancestors[g] : Kind[n] = "notify"
    /\ \A g \in Rechecks : \E a \in Ancestors[g] : Kind[a] = "approval"
    /\ \E g \in OfKind("execute") : OfKind("execute") = {g}
    /\ \E n \in Ancestors[Execute] : Kind[n] = "notify"
    /\ Approvals # {}
    /\ ExecutionEnabled =>
         /\ Enforcing
         /\ \A a \in Approvals :
              \E t \in Rechecks \intersect Ancestors[Execute] : a \in Ancestors[t]
    /\ ~ExecutionEnabled => SimulationOnly

ASSUME PolicyAssumption == WorkflowShape /\ Loadable

-----------------------------------------------------------------------------
(* _effective_workflow.  One approval gate at human_step_up raises all of  *)
(* them, and so does a requester who asks for it; nobody can lower them.   *)

Controls == {"ask", "step_up"}
Rank == [c \in Controls |-> IF c = "ask" THEN 1 ELSE 2]
PolicyControl == IF StepUp = {} THEN "ask" ELSE "step_up"

EffectiveControl(minimum) ==
    IF minimum = "step_up" THEN "step_up" ELSE PolicyControl

EffectiveTtl(control, g) ==
    IF control = "step_up" /\ StepUpTtl < Ttl[g] THEN StepUpTtl ELSE Ttl[g]
=============================================================================
