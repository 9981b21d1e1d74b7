SPECIFICATION FairSpec
CONSTANTS
    a1 = a1
    a2 = a2
    w1 = w1
    w2 = w2
    w3 = w3
    b1 = b1
    Addrs = {a1, a2}
    Workers = {w1, w2, w3}
    AddrOf <- AddrOfDef
    Broadcasts = {b1}
    Part <- PartDef
    NoWorker = NoWorker
    MaxClients = 3
INVARIANTS
    NoClientLeaked
    FirstErrorIsReported
    BroadcastIsAllOrError
PROPERTIES
    FailsFast
CHECK_DEADLOCK FALSE
