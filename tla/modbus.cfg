SPECIFICATION FairSpec
CONSTANTS
    Id = {a, b}
    Credential = {None, secret}
    Absent = Absent
    Unknown = Unknown
    NoId = NoId
    DiskErrors = TRUE
    ConnectErrors = TRUE
    PollErrors = TRUE
    MaxStarts = 2
INVARIANTS AckedDurable OrphansOnlyOvertaken CloseReachesRegistered
PROPERTY RestoreCompletes
CHECK_DEADLOCK FALSE
