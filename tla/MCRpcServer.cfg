SPECIFICATION FairSpec
CONSTANTS
    c1 = c1
    c2 = c2
    c3 = c3
    NoCall = NoCall
    Calls = {c1, c2, c3}
    MethodOf <- MethodOfDef
    Receivers <- ReceiversDef
    Panics = TRUE
    BadArgs = {c1}
    BadReply = {c2}
    Options = {"plain", "timeout", "badMagic", "badCodec", "notJson"}
    ReadAhead = 1
INVARIANTS
    AtMostOneResponse
    ResponseFraming
    SuccessMeansExecuted
PROPERTIES
    ClosedAfterHandlers
    ConnectionSettles
CHECK_DEADLOCK FALSE
