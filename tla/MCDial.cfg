SPECIFICATION FairSpec
CONSTANTS
    Nil = Nil
    Addresses <- AddressesDef
    OptLists <- OptListsDef
INVARIANTS
    ClientIsConnected
    HandshakeSwallowsNothing
    OptionAccepted
PROPERTIES
    DialReturns
    FailedDialLeavesNothing
CHECK_DEADLOCK FALSE
