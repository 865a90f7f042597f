SPECIFICATION FairSpec
CONSTANTS
    Id = {a, b}
    Point = {p, q}
    Credential = {None, secret}
    Absent = Absent
    Unknown = Unknown
    NoId = NoId
    DiskErrors = TRUE
    TagErrors = TRUE
    PointErrors = TRUE
    MaxKills = 1
INVARIANTS AckedDurable TasksHaveRecords OrphansOnlyOfFailed
PROPERTIES UntaggedOnlyRestored DeleteStopsUnlessCrashed
CHECK_DEADLOCK FALSE
