SPECIFICATION FairSpec
CONSTANTS
    a1 = a1
    b1 = b1
    b2 = b2
    o1 = o1
    Auths = {a1}
    Tracked = {a1}
    Clients = {b1, b2, o1}
    Brokers = {b1, b2}
    Admins = {o1}
    Genuine = {a1}
    ExpiresAt <- MCExpiresAt
    MaxClock = 2
    CoordinatorWrites = {"unbound", "denied"}
    OperatorConfirms = TRUE
INVARIANTS
    TypeOK
    SingleCall
    WithdrawnNeverCalled
    BarredNeverCalled
    TruthfulRecord
    NoSilentOrphan
    RetainedViewTruthful
PROPERTIES
    ImplementsSingleUse
    AttemptsSettle
