SPECIFICATION MCSpec
CONSTANTS
    c1 = c1
    c2 = c2
    ip1 = ip1
    ip2 = ip2
    Workers = {w1, w2}
    Clients <- MCClients
    IPs <- MCIPs
    IpOf <- MCIpOf
    Users = {alice}
    Passwords = {good}
    Peers = {peer}
    Channels = {16383, 16384}
    Requested = {0, 5}
    Lengths = {2}
    FirstPort = 50000
    LastPort = 50002
    MinLifetime = 1
    DefaultLifetime = 1
    MaxLifetime = 1
    max_allocations_per_ip = 1
    MaxBytes = 3
    MaxNow = 1
    MaxNonce = 3
INVARIANTS TypeOK QuotaOvershoot AuthenticatedOwner LifetimeBound StatsNeverOvercount SequentialPromises
PROPERTIES AllocationStable SequentialKept
CHECK_DEADLOCK FALSE
SYMMETRY MCSymmetry
