SPECIFICATION Spec
CONSTANTS
    r1 = r1
    r2 = r2
    N = 3
    Relay = {r1, r2}
    BatchSize = 2
    Lease = 2
    Backoff = 1
    Retention = 1
    MaxAttempts = 1
INVARIANTS
    RelayInvariant
PROPERTIES
    DeliveredIsFinal
    ImplementsTrail
