SPECIFICATION Spec
CONSTANTS
    Trades = {t1}
    None = None
    Quantity = 2
    Virtual = {}
    MaxCrashes = 0
    OpenMayCrash = FALSE
    ApiDuringPass = FALSE
    SnapshotsOn = TRUE
INVARIANTS
    SummaryAgrees
