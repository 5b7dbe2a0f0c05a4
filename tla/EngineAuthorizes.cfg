SPECIFICATION Spec
CONSTANTS
    r1 = r1
    r2 = r2
    e1 = e1
    e2 = e2
    e3 = e3
    e4 = e4
    n1 = n1
    n2 = n2
    Requests = {r1, r2}
    EvidenceIds = {e1, e2, e3, e4}
    NotificationIds = {n1, n2}
    Reentrant = {"tool", "notify"}
    Authority = TRUE
    Rehearsals = {}
    MaxClock = 2
    Horizon = 4
    GateCount = 5
    Kind <- TwinKind
    Requires <- TwinRequires
    Rechecks = {2}
    StepUp = {}
    Ttl <- TwinTtl
    StepUpTtl = 1
    Version = 2
    Enforcing = TRUE
    ExecutionEnabled = TRUE
    SimulationOnly = FALSE
    AuthorizationTtl = 2
SYMMETRY MCSymmetry
INVARIANTS
    TypeOK
    GatesInOrder
    ReleaseHonoursPolicy
    AuthorizationWithinApprovals
    EvidenceSingleUse
    NoticeSingleUse
    CancelledNeverTaken
    NoneAbandoned
PROPERTIES
    TerminalFinal
CHECK_DEADLOCK FALSE
