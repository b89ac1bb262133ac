SPECIFICATION FairPoolSpec
CONSTANTS
    f1 = f1
    f2 = f2
    c1 = c1
    c2 = c2
    d = d
    e1 = e1
    e2 = e2
    Request = {f1, f2}
    Nested = {f1, f2}
    RowOf <- MCRowOf
    MaxOpen = 2
PROPERTIES
    FinalizationHasWinner
CHECK_DEADLOCK FALSE
