SPECIFICATION Spec
CONSTANTS
    r1 = r1
    r2 = r2
    r3 = r3
    r4 = r4
    c1 = c1
    c2 = c2
    c3 = c3
    Request = {r1, r2, r3, r4}
    Client = {c1, c2, c3}
    Label = {"rate_limited", "http_2xx", "http_4xx"}
    Plain = {"evictions", "http_count"}
    Limit = 2
    Window = 1
    MaxTracked = 2
    CleanupEvery = 3
    MaxTime = 2
SYMMETRY Symmetry
INVARIANTS
    MapInvariant
    CountersExact
    WithinLimit
    RefusedOnlyWhenSpent
PROPERTIES
    ForgottenOnlyForRoom
CHECK_DEADLOCK FALSE
