SPECIFICATION Spec

CONSTANTS
    Product = {1, 2, 3}
    Order = {1, 2}
    None = None
    Sizes <- MCSizes
    Rank <- MCRank
    Unknown = 999
    TolerancePercent = 34
    Pending <- MCPending
    Stocks <- MCStocks
    Worth <- MCWorth
    Clients <- MCClients
    Positions <- MCPositions
    Sheets <- MCSheets
    MaxDay = 1
    MaxJobs = 2
    MaxEdits = 1
    EditsMeanwhile = FALSE

INVARIANTS
 PlanNeverFails
CHECK_DEADLOCK FALSE
