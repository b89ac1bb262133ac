SPECIFICATION Spec
CONSTANTS
    l1 = l1
    f1 = f1
    f2 = f2
    o1 = o1
    None = None
    Request = {l1, f1, f2, o1}
    OperationOf <- MCOperationOf
    TTL = 1
    MaxTime = 2
INVARIANTS
    SessionInvariant
    AnswersTruthful
    OneLiveSessionPerLogin
PROPERTIES
    RevokedForever
CHECK_DEADLOCK FALSE
