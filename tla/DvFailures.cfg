SPECIFICATION Spec
CONSTANTS
    a = a
    b = b
    c = c
    Nodes = {a, b, c}
    Links <- Triangle
    Origins = {a}
    INFINITY = 4
    HopCost = 1
    ConnectedMetric = 1
    MaxInFlight = 2
    MaxFailures = 1
INVARIANT TypeOK
INVARIANT MetricBound
 
CHECK_DEADLOCK FALSE
