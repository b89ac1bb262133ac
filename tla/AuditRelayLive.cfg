SPECIFICATION FairSpec
CONSTANTS
    r1 = r1
    r2 = r2
    N = 2
    Relay = {r1, r2}
    BatchSize = 1
    Lease = 2
    Backoff = 1
    Retention = 1
    MaxAttempts = 0
PROPERTIES
    ImplementsFairTrail
