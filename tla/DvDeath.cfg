SPECIFICATION FairSpec
CONSTANTS
    a = a
    b = b
    c = c
    Nodes = {a, b, c}
    Links <- Line
    Origins = {a}
    INFINITY = 5
    HopCost = 1
    ConnectedMetric = 1
    MaxInFlight = 4
    MaxFailures = 1
PROPERTY DeathPropagates
CHECK_DEADLOCK FALSE
