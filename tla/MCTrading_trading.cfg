SPECIFICATION Spec
CHECK_DEADLOCK FALSE
CONSTANTS
    Equities = {89, 96, 100}
    StartEquity = 96
    RollingLimit = 6
    PauseLimit = 10
    DailyLimits = {3, 7}
    DefaultLimit = 3
    MaxOpen = 1
    MaxEntering = 1
    UpdateMayDie = TRUE
    NumExchanges = 2
    Attempts = 3
    Quantity = 3
    NumChunks = 2
    AnswersLost = TRUE
    Intents = {1, 2, 3}
    Wants <- MCWants
    Flushes = {f1, f2}
    MaxRetries = 1
    MaxOrders = 3
    MaxLost = 1
    Signals <- MCSignals
    Subscribers <- MCSubscribers
    Consumers = {c1, c2}
    Delays <- MCDelays
    BatchLimit = 2
    LastTick = 1
    MaxBatches = 2
    Messages <- MCMessages
    Clients = {"c1", "c2"}
    Filter <- MCFilter
    RecentLimit = 1
    BufferLimit = 1
    MaxPending = 2
    MaxReconnects = 1
    Configured <- MCConfigured
    Documented <- MCDocumented
    Replicas = {"r"}
    ConnectAttempts = 3
    AuthTtl = 4
    Horizon = 8
    MaxStarts = 1
    Limits <- MCLimits
    Lengths <- MCLengths
    Callers = {"u"}
    Processes = {"p"}
    LastMoment = 8
    MaxCounted = 3
    MaxRestarts = 1
    Exchanges <- MCExchanges
    Fetches = {1, 2}
    KindOf <- MCKindOf
    Fixed = {"f"}
    ActiveLimit = 2
    RefreshEvery = 1
    RotateEvery = 2
    Tickers <- MCTickers
    FallbackSymbols <- MCFallback
    Passes = {1, 2}
    LastScan = 3
    Symbols = {"a", "b", "c"}
    Unassigned = "c"
    Window = 2
    HistoryLimit = 1
    Floor = 800
    Cap = 4500
    Pnls <- MCPnls
    Past <- MCPast
    Exposures <- MCExposures
    FactorWeights <- MCWeights
    Recorders = {1, 2}
    MaxTrades = 2
    MaxProfiles = 2
    Viewers = {1, 2}
    TierOf <- MCTierOf
    Ranked <- MCRanked
    Outcomes <- MCOutcomes
    Target = 1
    MaxAsks = 2
INVARIANTS
    TypesOK
    TrackedLossStops
    ExposureBound
    CleanCallsAreExact
    BookBalances
    JobsAccounted
    StreamsIntact
    GatewayHolds
PROPERTIES
    NoEntryInDeepDrawdown
    StopsLast
    PauseEnds
    CallEnds
    GivenUpAfterRetries
    HigherLanesFirst
    BroadcastsEnd
    DecisionsAreInformed
