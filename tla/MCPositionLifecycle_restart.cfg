SPECIFICATION Spec
CONSTANTS
    Trades = {t1}
    None = None
    Quantity = 2
    Virtual = {}
    MaxCrashes = 1
    OpenMayCrash = FALSE
    ApiDuringPass = FALSE
    SnapshotsOn = FALSE
PROPERTIES
    RestartKeepsPositions
