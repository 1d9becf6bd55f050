SPECIFICATION Spec
CHECK_DEADLOCK FALSE
CONSTANTS
    Requests <- MCRequests
    Symbols = {"x"}
    OrphanOf <- MCOrphanOf
    SymbolOf <- MCSymbolOf
    StrategyOf <- MCStrategyOf
    Prices = {1, 6}
    Published = {6}
    FillPrices = {6}
    Entry = 4
    StopLevel = 2
    TargetLevel = 6
    Seeds <- MCSeeds
    SeedPnl <- MCSeedPnl
    MaxOpen = 1
    MaxLosses = 2
    LastN = 1
    Window = 1
    MinHistory = 2
    Weak = 11000
    MinConfidence = 3000
    Pool = 2
    Served <- MCServed
    Passes = {"loop"}
    Venues = {"paper", "venue"}
    Attach = TRUE
    DbMayLock = TRUE
    Jobs = {1, 2, 3}
    Compare = {1}
    NumChunks = 1
    NumProfiles = 2
    HistoryLimit = 2
    MaxCrashes = 2
    Deploys = {1, 2}
    Digests = {"a", "b"}
    FirstDigest = "a"
    MinRequests = 1
    MinTrades = 0
    MaxErrorPct = 50
    MinSuccessPct = 50
    MaxExposure = 0
    RollbackOnAlert = TRUE
    RunnersDie = TRUE
    Scorers = {"s1"}
    MaxModels = 2
    MaxRollbacks = 1
    MaxRestarts = 1
    Regimes = {"TRENDING", "RANGING"}
    Shapes = {"strong", "weak"}
    Shares = {20, 53, 90}
    Closings <- MCClosings
    Proposals <- MCProposals
    MinTraining = 2
    MinValidation = 2
    MaxCalibration = 40
    RecentRows = 2
    BatchSize = 2
    MaxClosings = 4
    Buckets = {1}
    Regime <- MCRegime
    Readings <- MCReadings
    Recorders = {"api", "worker"}
    DirOf <- MCDirOf
    Past <- MCPast
    Reader = "api"
    MaxDeals = 2
    MinSamples = 3
    ForceEnabled = FALSE
    MaxMishaps = 1
    Trades = {1, 2}
    Slots = 2
    SizeOf <- MCSizeOf
    Executions <- MCExecutions
    HourLimit = 1
    AssetLimit = 1
    Micro = TRUE
    DayTrades = 3
    MinWinRate = 50
    MinProfitFactor = 100
    Reports <- MCReports
    MaxEvents = 1
    MinClosed = 1
INVARIANTS
    TypesOK
    ExposureKnown
PROPERTIES
    OutcomeIsFinal
    HistoryDecides
    TradesAreClosed
    JobsAreKept
    ReleasesAreVetted
    ModelsAreGoverned
    OutcomesAreLearnt
    
