SPECIFICATION FairSpec
CONSTANTS
    temp = temp
    fan = fan
    p1 = p1
    p2 = p2
    Topic = {temp, fan}
    Ref = {p1, p2}
    Grids <- MCGrids
    Kind = {"number", "zero", "other", "list"}
    MaxArrivals = 2
    MaxLinkLosses = 1
    MaxStarts = 2
    Reading <- MCReading
    OtherKind = {"zero", "other", "list"}
    None = None
INVARIANT HistoryInArrivalOrder
PROPERTIES ListenedIsRecorded StartsWithRetained
CHECK_DEADLOCK FALSE
