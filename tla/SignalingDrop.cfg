SPECIFICATION MCSpec
CONSTANTS
    d1 = d1
    d2 = d2
    d3 = d3
    alice = alice
    bob = bob
    Nodes = {n1, n2}
    Devices <- MCDevices
    Users <- MCUsers
    UserOf <- MCUserOf
    Sessions = {s1, s2}
    MaxGlobal = 3
    MaxPerUser = 3
    MaxLocal = 3
    Reconnects = FALSE
    MaxFaults = 0
INVARIANT RemoteDelivered
SYMMETRY MCSymmetry
CHECK_DEADLOCK FALSE
