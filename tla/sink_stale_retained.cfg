SPECIFICATION Spec
CONSTANTS
    Point = {p}
    Wildcard = {}
    MaxSpoolRows = 3
    TornWrites = FALSE
    WriteErrors = FALSE
    MaxReadings = 3
    MaxDisconnects = 1
    MaxCrashes = 0
INVARIANT RetainedIsLatest
CHECK_DEADLOCK FALSE
