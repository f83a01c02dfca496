SPECIFICATION Spec
CONSTANTS
    Job = {j1, j2}
    Run = {r1, r2}
    Pair = {1, 2}
    Version = {v1, gone}
    Gone = gone
    Quantity = {1}
    MaxStock = 1
    ChunkSize = 1
    MaxAttempts = 2
    None = None
SYMMETRY Interchangeable
INVARIANTS
    StandbyCountsJobs
    OrdersMatchCheckpoint
    LedgerAgreesWithCheckpoint
PROPERTIES
    WorkIsFenced
    NeverOverReserved
    KeepsContract
CHECK_DEADLOCK FALSE
