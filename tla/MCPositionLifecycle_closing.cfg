SPECIFICATION Spec
CONSTANTS
    Trades = {t1, t2}
    None = None
    Quantity = 3
    Virtual = {t2}
    MaxCrashes = 2
    OpenMayCrash = FALSE
    ApiDuringPass = FALSE
    SnapshotsOn = FALSE
INVARIANTS
    TypeOK
    Conservation
    WatchedUntilClosed
PROPERTIES
    ImplementsPosition
