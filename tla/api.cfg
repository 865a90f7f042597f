SPECIFICATION FairSpec
CONSTANTS
    Worker = {w}
    Network = Network
    Action = {a, b}
    Malformed = {}
    NotObject = {n}
    Result = Result
    None = None
    MaxCalls = 2
    MaxConnects = 2
    MaxStarts = 2
INVARIANTS AnsweredOrHeld ScansOverlapOnlyAfterTimeout
PROPERTIES ShutdownCompletes CommandsAnswered
CHECK_DEADLOCK FALSE
