SPECIFICATION FairSpec
CONSTANTS
    Id = {a}
    Point = {p, q}
    Credential = {None}
    Absent = Absent
    Unknown = Unknown
    NoId = NoId
    DiskErrors = FALSE
    TagErrors = FALSE
    PointErrors = TRUE
    MaxKills = 0
PROPERTY DeleteStops
CHECK_DEADLOCK FALSE
