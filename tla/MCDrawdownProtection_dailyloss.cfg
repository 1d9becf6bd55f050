SPECIFICATION DdSpec
CONSTANTS
    Equities = {88, 93, 96, 100, 104}
    StartEquity = 100
    RollingLimit = 6
    PauseLimit = 10
    DailyLimits = {3, 7}
    DefaultLimit = 3
    MaxOpen = 2
    MaxEntering = 1
    UpdateMayDie = FALSE
PROPERTIES
    DailyLossBlocks
