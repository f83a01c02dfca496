SPECIFICATION FairSpec
CONSTANTS
    Job = {j1, j2}
    Run = {r1}
    None = None
    Request = {manual, repeated, other}
    Key = {k1, k2}
    Scope = {s1, s2}
    manual = manual
    repeated = repeated
    other = other
    k1 = k1
    k2 = k2
    s1 = s1
    s2 = s2
    f1 = f1
    f2 = f2
    KeyOf <- MCKeyOf
    ScopeOf <- MCScopeOf
    FingerprintOf <- MCFingerprintOf
    MaxAttempts = 2
    Duration = 2
    Lease = 1
    RetryDelays = {1}
    SweepDelay = 1
    SweepLimit = 1
    CleanupLimit = 1
    Retention = 1
    Units = 1
    Horizon = 4
PROPERTIES
    OutcomeIsFinal
    KeysAreStable
    EveryJobIsResolved
CHECK_DEADLOCK FALSE
