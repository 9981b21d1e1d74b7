SPECIFICATION FairSpec
CONSTANTS
    n1 = n1
    n2 = n2
    g1 = g1
    g2 = g2
    g3 = g3
    Nobody = Nobody
    SortInts <- SortIntsDef
    Nodes = {n1, n2}
    Keys <- KeysDef
    Gets = {g1, g2, g3}
    NodeOf <- NodeOfDef
    KeysOf <- KeysOfDef
    PeerLists <- PeerListsDef
    hash <- hashDef
    keyHash <- keyHashDef
    Unreserved = {"a"}
    MaxHops = 2
    Capacity = 2
    Sizes = {1, 3}
    GetterFails = TRUE
    GetterPanics = TRUE
    NetworkFails = TRUE
    MaxCrashes = 1
INVARIANTS
    SingleFlight
    RightValue
    ForwardedOnce
    CacheBounded
PROPERTIES
    GetsReturn
CHECK_DEADLOCK FALSE
