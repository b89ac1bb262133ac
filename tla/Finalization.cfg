SPECIFICATION FairSpec
CONSTANTS
    a1 = a1
    a2 = a2
    x1 = x1
    x2 = x2
    d1 = d1
    None = None
    Disbursement = {d1}
    Existing = {d1}
    Request = {a1, a2, x1, x2}
    TargetOf <- MCTargetOf
    OperationOf <- MCOperationOf
INVARIANTS
    TypeOK
    TrailMatchesRows
    AnswersTruthful
    DiagnosisConclusive
PROPERTIES
    SettledForever
    ImplementsLifecycle
    Terminates
CHECK_DEADLOCK FALSE
