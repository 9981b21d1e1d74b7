SPECIFICATION Spec
CONSTANTS
    p1 = p1
    p2 = p2
    p3 = p3
    Nobody = Nobody
    SortInts <- SortIntsDef
    Nodes = {p1, p2, p3}
    Pools = {p1, p2}
    Lists <- ListsDef
    Replicas = 2
    MaxHash = 3
INVARIANTS
    SuccessorOwns
    RingsAgree
    PickedPeerCanBeAsked
PROPERTIES
    MinimalMovement
