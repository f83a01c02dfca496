SPECIFICATION FairSpec
CONSTANTS
    Writer = {w1, w2}
    Topic = {orders, alerts}
    Client = {c1}
    None = None
    MaxSequence = 2
    MaxFaults = 1
    BatchSize = 2
    StreamLength = 1
    ReplayLimit = 1
    QueueSize = 1
INVARIANTS
    OnlyOverlookedIsMissed
    OncePerSocket
PROPERTIES
    CommitsInOrder
    EveryEventArrivesOrIsOverlooked
CHECK_DEADLOCK FALSE
