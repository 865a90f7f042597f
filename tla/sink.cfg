SPECIFICATION FairSpec
CONSTANTS
    Point = {p, w}
    Wildcard = {w}
    MaxSpoolRows = 1
    TornWrites = TRUE
    WriteErrors = TRUE
    MaxReadings = 3
    MaxDisconnects = 1
    MaxCrashes = 1
INVARIANTS NoSilentLoss SpoolBounded
PROPERTIES EvictsOldest DeliverySpec PublishReturnsEventually SpoolReplayed
CHECK_DEADLOCK FALSE
