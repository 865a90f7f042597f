SPECIFICATION FairSpec
CONSTANTS
    Number = {0, 1, 2}
    Enumerated = {7, 8}
    NaNs = TRUE
    Tolerance = {0, 2}
    Limit = {None, 3}
    Interval = {None, 3}
    PollInterval = 2
    Horizon = 3
    None = None
INVARIANT NotBehindLong
PROPERTIES EventuallyShown GoesQuiet
CHECK_DEADLOCK FALSE
