SPECIFICATION Spec
CONSTANTS
    q1 = q1
    q2 = q2
    t1 = t1
    t2 = t2
    host = host
    broker = broker
    Auths = {q1}
    Tracked = {}
    Clients = {host, broker}
    ExpiresAt <- MCExpiresAt
    Threads = {t1, t2}
    Coordinator = host
    Outside = {broker}
    ApprovalGates = 2
PROPERTIES
    WithdrawnNeverTaken
