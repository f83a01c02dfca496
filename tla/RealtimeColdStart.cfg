SPECIFICATION Spec
CONSTANTS
    Writer = {w1, w2}
    Topic = {orders, alerts}
    Client = {c1}
    None = None
    MaxSequence = 2
    MaxFaults = 0
    BatchSize = 2
    StreamLength = 2
    ReplayLimit = 2
    QueueSize = 2
SYMMETRY Interchangeable
INVARIANTS
    NoSilentGap
CHECK_DEADLOCK FALSE
