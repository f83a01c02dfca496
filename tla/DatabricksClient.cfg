SPECIFICATION FairSpec
CONSTANTS
    Sizes = {1, 2, 3, 4, 5}
    Widths = {1, 2}
    Ceiling = 2
    MaxAttempts = 2
    MaxPolls = 2
    MaxChunks = 6
    MaxRows = 4
    MaxBytes = 4
    MaxOddities = 1
INVARIANTS
    CompleteUnlessMisled
    OneStatementAtATime
PROPERTIES
    EveryExecutionEnds
CHECK_DEADLOCK FALSE
