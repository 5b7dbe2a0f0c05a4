SPECIFICATION FairSpec
CHECK_DEADLOCK FALSE
CONSTANTS
    c1 = c1
    c2 = c2
    NoCall = NoCall
    Starter = Starter
    Sessions = {1, 2}
    Calls = {c1, c2}
    ReadCalls = {c1}
    Configs <- MCConfigs
    AtomicIds = TRUE
    AgentLines <- MCAgentLines
    MaxLines = 4
INVARIANTS
    TypeOK
    AnswersOwn
    OutcomeHonest
    NoOrphanChild
    HandshakeFirst
PROPERTIES
    EverythingEnds
