SPECIFICATION FairSpec
CONSTANTS
    r1 = r1
    r2 = r2
    r3 = r3
    k = k
    p1 = p1
    p2 = p2
    None = None
    Request = {r1, r2, r3}
    Scope = {k}
    Payload = {p1, p2}
    ScopeOf <- MCScopeOf
    PayloadOf <- MCPayloadOf
    LeaseTTL = 1
    ReplayTTL = 2
    MaxTime = 3
INVARIANTS
    TypeOK
    WindowProtected
    AtomicCreation
    AnswersTruthful
    ReclaimAgrees
PROPERTIES
    NoDuplicateWithinWindow
    LeaseRespected
    Terminates
CHECK_DEADLOCK FALSE
