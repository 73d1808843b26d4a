SPECIFICATION MCSpec
CONSTANTS
    Records = {r1, r2, r3}
    Malformed = {r3}
    Workers = {w1, w2}
    MaxBatch = 2
    MaxRetries = 2
    MaxDbFailures = 3
    MaxStops = 1
    MaxFaults = 2
    Callers = {c, d}
    Names = {n}
    Addrs = {a}
    MaxRows = 2
    Replicas = {i}
    calls_per_minute = 1
    Window = 3
    MaxRegistrations = 1
    MaxRelayRate = 1
    MaxTime = 5
    MaxCount = 3
INVARIANT ServicesTypes
INVARIANT BilledOnce
 
PROPERTY AllDone
CHECK_DEADLOCK FALSE
