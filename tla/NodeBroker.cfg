SPECIFICATION Spec
CONSTANTS
    p1 = p1
    p2 = p2
    t1 = t1
    t2 = t2
    t3 = t3
    l1 = l1
    l2 = l2
    e1 = e1
    e2 = e2
    e3 = e3
    e4 = e4
    Processes = {p1, p2}
    Threads = {t1, t2, t3}
    ProcessOf <- MCProcessOf
    Leases = {l1, l2}
    Envelopes = {e1, e2, e3, e4}
    LeaseOf <- MCLeaseOf
    Addressed = {e1, e2, e3}
    IssuedAt <- MCIssuedAt
    ExpiresAt <- MCExpiresAt
    MaxTime = 3
INVARIANTS
    LeaseOnce
    ResultIsOwn
PROPERTIES
    LapsedStaysUnrun
    ImplementsSingleUse
