SPECIFICATION MCSpec
CONSTANTS
    d1 = d1
    d2 = d2
    d3 = d3
    alice = alice
    bob = bob
    Nodes = {n1, n2}
    Devices <- MCDevices
    Users <- MCUsers
    UserOf <- MCUserOf
    Sessions = {s1, s2, s3}
    MaxGlobal = 2
    MaxPerUser = 2
    MaxLocal = 2
    Reconnects = TRUE
    MaxFaults = 1
INVARIANT TypeOK
 
INVARIANT NeverUndercounts
 
INVARIANT QuietPromises
SYMMETRY MCSymmetry
CHECK_DEADLOCK FALSE
