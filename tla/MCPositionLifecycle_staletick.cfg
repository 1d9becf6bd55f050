SPECIFICATION Spec
CONSTANTS
    Trades = {t1}
    None = None
    Quantity = 3
    Virtual = {}
    MaxCrashes = 0
    OpenMayCrash = FALSE
    ApiDuringPass = TRUE
    SnapshotsOn = FALSE
INVARIANTS
    Conservation
