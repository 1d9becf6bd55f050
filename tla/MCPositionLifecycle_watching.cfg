SPECIFICATION Spec
CONSTANTS
    Trades = {t1, t2}
    None = None
    Quantity = 3
    Virtual = {t2}
    MaxCrashes = 2
    OpenMayCrash = TRUE
    ApiDuringPass = FALSE
    SnapshotsOn = TRUE
INVARIANTS
    SummaryLosesLittle
PROPERTIES
    WatchEnds
    RestartCompletes
