SPECIFICATION Spec
CONSTANTS
    Id = {a}
    Credential = {None}
    Absent = Absent
    Unknown = Unknown
    NoId = NoId
    DiskErrors = FALSE
    ConnectErrors = FALSE
    PollErrors = FALSE
    MaxStarts = 0
INVARIANT PolledIsListed
CHECK_DEADLOCK FALSE
