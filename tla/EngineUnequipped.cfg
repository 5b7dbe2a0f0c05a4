SPECIFICATION Spec
CONSTANTS
    r1 = r1
    r2 = r2
    e1 = e1
    e2 = e2
    e3 = e3
    e4 = e4
    n1 = n1
    n2 = n2
    Requests = {r1, r2}
    EvidenceIds = {e1, e2, e3, e4}
    NotificationIds = {n1, n2}
    Reentrant = {"tool"}
    Authority = FALSE
    Rehearsals = {}
    MaxClock = 1
    Horizon = 3
    GateCount = 5
    Kind <- TwinKind
    Requires <- TwinRequires
    Rechecks = {2}
    StepUp = {}
    Ttl <- TwinTtl
    StepUpTtl = 1
    Version = 2
    Enforcing = FALSE
    ExecutionEnabled = FALSE
    SimulationOnly = TRUE
    AuthorizationTtl = 2
SYMMETRY MCSymmetry
INVARIANTS
    OneGateStops
CHECK_DEADLOCK FALSE
