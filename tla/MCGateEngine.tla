---------------------------- MODULE MCGateEngine ----------------------------
\* Workflows for TLC.  Gates are numbered in definition order, which is not
\* the order they run in.
EXTENDS GateEngine, TLC

CONSTANTS r1, r2, e1, e2, e3, e4, n1, n2

MCSymmetry ==
    Permutations(Requests) \union Permutations(EvidenceIds) \union
    Permutations(NotificationIds)

\* Two approvals behind one notification, one recheck after both; the execute
\* gate is defined first.
TwinKind == <<"execute", "tool", "approval", "approval", "notify">>
TwinRequires == <<{2}, {3, 4}, {5}, {5}, {}>>
TwinTtl == <<1, 1, 2, 1, 1>>

\* Every kind of gate in a row; the condition looks at the recheck before it.
ChainKind == <<"schema", "condition", "notify", "approval", "tool", "execute">>
ChainRequires == <<{}, {5}, {1}, {3}, {4}, {2}>>
ChainTtl == <<1, 1, 1, 2, 1, 1>>
=============================================================================
