SPECIFICATION SaSpec
CONSTANTS
    Requests <- MCRequests
    Symbols = {"x"}
    OrphanOf <- MCOrphanOf
    SymbolOf <- MCSymbolOf
    StrategyOf <- MCStrategyOf
    Prices = {1, 6}
    Published = {6}
    FillPrices = {6}
    Entry = 4
    StopLevel = 2
    TargetLevel = 6
    Seeds <- MCSeeds
    SeedPnl <- MCSeedPnl
    MaxOpen = 1
    MaxLosses = 2
    LastN = 1
    Window = 1
    MinHistory = 2
    Weak = 11000
    MinConfidence = 3000
    Pool = 2
    Served <- MCServed
    Passes = {"loop"}
    Venues = {"paper", "venue"}
    Attach = TRUE
    DbMayLock = TRUE
CHECK_DEADLOCK FALSE
PROPERTIES
    SyncClosesTheClosed
