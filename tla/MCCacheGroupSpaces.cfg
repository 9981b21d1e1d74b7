SPECIFICATION Spec
CONSTANTS
    n1 = n1
    n2 = n2
    g1 = g1
    g2 = g2
    g3 = g3
    Nobody = Nobody
    SortInts <- SortIntsDef
    Nodes = {n1, n2}
    Keys <- KeysDef
    Gets = {g1, g2}
    NodeOf <- NodeOfDef
    KeysOf <- Spaces
    PeerLists <- PeerListsDef
    hash <- hashDef
    keyHash <- keyHashDef
    Unreserved = {"a"}
    MaxHops = 2
    Capacity = 2
    Sizes = {1}
    GetterFails = FALSE
    GetterPanics = FALSE
    NetworkFails = FALSE
    MaxCrashes = 0
INVARIANTS
    RightValue
CHECK_DEADLOCK FALSE
