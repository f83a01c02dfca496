SPECIFICATION Spec
CONSTANTS
    Job = {j1}
    Run = {r1, r2, r3}
    None = None
    Request = {manual}
    Key = {k1, k2}
    Scope = {s1, s2}
    manual = manual
    repeated = repeated
    other = other
    k1 = k1
    k2 = k2
    s1 = s1
    s2 = s2
    f1 = f1
    f2 = f2
    KeyOf <- MCKeyOf
    ScopeOf <- MCScopeOf
    FingerprintOf <- MCFingerprintOf
    MaxAttempts = 2
    Duration = 6
    Lease = 2
    RetryDelays = {1}
    SweepDelay = 1
    SweepLimit = 1
    CleanupLimit = 1
    Retention = 1
    Units = 2
    Horizon = 8
SYMMETRY Interchangeable
INVARIANTS
    RowsAreValid
    LeaseBelongsToLatestClaim
    AttemptsAreDistinct
PROPERTIES
    ProgressIsMonotone
    KeepsContract
CHECK_DEADLOCK FALSE
