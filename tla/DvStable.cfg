SPECIFICATION FairSpec
CONSTANTS
    a = a
    b = b
    c = c
    Nodes = {a, b, c}
    Links <- Triangle
    Origins = {a}
    INFINITY = 8
    HopCost = 1
    ConnectedMetric = 1
    MaxInFlight = 6
    MaxFailures = 0
INVARIANT Descending
PROPERTY Converges
CHECK_DEADLOCK FALSE
