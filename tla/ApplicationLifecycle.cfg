SPECIFICATION FairSpec
CONSTANTS
    r1 = r1
    r2 = r2
    Request = {r1, r2}
    MaxOpen = 2
INVARIANTS
    StopInvariant
    NothingLeftBehind
    NilMeansDrained
PROPERTIES
    SignalEndsProcess
    ServerErrorEndsProcess
CHECK_DEADLOCK FALSE
