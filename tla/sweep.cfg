SPECIFICATION FairSpec
CONSTANTS
    NumHosts = 4
    Concurrencies = {0, 1, 2, 3}
    Timeout = 2
    CallTimeout = 13
    Horizon = 25
    None = None
INVARIANTS SocketsBounded InTime
PROPERTY SweepEnds
CHECK_DEADLOCK FALSE
