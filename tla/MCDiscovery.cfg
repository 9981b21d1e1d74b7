SPECIFICATION DiscoverySpec
CONSTANTS
    s1 = s1
    s2 = s2
    s3 = s3
    u1 = u1
    u2 = u2
    Servers = {s1}
    Timeout = 2
    Beat = 1
    Delay = 1
    MaxTime = 5
    Reliable = FALSE
    Users = {u1, u2}
    Addrs = {s1, s2, s3}
    SortStrings <- SortDef
    UpdateTimeout = 1
    Lists <- SomeLists
    UpdateUntil = 0
    Indexes = {5}
INVARIANTS
    CrashedServersExpire
    StaleBound
    RegisteredServersAreSeen
    RoundRobinIsFair
CHECK_DEADLOCK FALSE
SYMMETRY UserSymmetry
