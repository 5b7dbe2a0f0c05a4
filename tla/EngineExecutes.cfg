SPECIFICATION FairSpec
CONSTANTS
    r1 = r1
    r2 = r2
    e1 = e1
    e2 = e2
    e3 = e3
    e4 = e4
    n1 = n1
    n2 = n2
    Requests = {r1, r2}
    EvidenceIds = {e1, e2}
    NotificationIds = {n1, n2}
    Reentrant = {"notify", "execute", "verify"}
    Authority = TRUE
    Rehearsals = {r2}
    MaxClock = 1
    Horizon = 2
    GateCount = 6
    Kind <- ChainKind
    Requires <- ChainRequires
    Rechecks = {5}
    StepUp = {}
    Ttl <- ChainTtl
    StepUpTtl = 1
    Version = 1
    Enforcing = TRUE
    ExecutionEnabled = TRUE
    SimulationOnly = FALSE
    AuthorizationTtl = 2
INVARIANTS
    OutcomeReported
PROPERTIES
    LockReleased
CHECK_DEADLOCK FALSE
