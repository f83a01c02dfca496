SPECIFICATION FairSpec
CONSTANTS
    Job = {j1}
    Run = {r1, r2}
    None = None
    NoChannel = NoChannel
    Positions = {3, 4}
    Pair <- MCPair
    PendingRows <- MCPendingRows
    ErpRows <- MCErpRows
    PendingDefects <- MCPendingDefects
    ErpDefects <- MCErpDefects
    StockViews <- MCStockViews
    BillingViews <- MCBillingViews
    ReferenceViews <- MCReferenceViews
    Blocked = {}
    Start <- MCStart
    Started = {"history"}
    MaxAttempts = 2
INVARIANTS
    PhotoIsFaithful
    StandbyIsPending
    NewsFollowThePhoto
    SuccessMeansPublished
PROPERTIES
    NeverBackToPending
    EveryRefreshEnds
CHECK_DEADLOCK FALSE
