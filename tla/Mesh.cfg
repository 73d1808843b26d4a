SPECIFICATION MCSpec
CONSTANTS
    Nodes = {n}
    Links = {}
    Origins = {}
    INFINITY = 1
    HopCost = 1
    ConnectedMetric = 0
    MaxInFlight = 0
    MaxFailures = 0
    Members = {a, b, c}
    MaxMessages = 1
    MaxSent = 2
    MaxVerdicts = 1
    MaxIncarnation = 1
    Routers = {r1, r2}
    SeqModulus = 3
    Metrics = {1, 2}
    BABEL_INFINITY = 9
    MaxBuilt = 3
    MaxRemoving = 2
INVARIANTS MeshTypeOK SelfAlive BumpJustified SelectedBacked
PROPERTIES NoResurrection
SYMMETRY MCSymmetry
CHECK_DEADLOCK FALSE
