SPECIFICATION FairSpec
CONSTANTS
    c1 = c1
    c2 = c2
    c3 = c3
    c4 = c4
    c5 = c5
    app1 = app1
    app2 = app2
    Calls = {c1, c2, c3, c4, c5}
    NoCall = NoCall
    Capped = {c1, c2, c3, c5}
    Origins = {app1, app2}
    OriginOf <- MCOriginOf
    MaxLaneDepth = 3
    MaxOriginDepth = 2
INVARIANTS MutualExclusion DepthExact
PROPERTY ImplementsFifoMutex
CHECK_DEADLOCK FALSE
