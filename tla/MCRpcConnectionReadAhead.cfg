SPECIFICATION FairSpec
CONSTANTS
    s1 = s1
    a1 = a1
    ch1 = ch1
    chA = chA
    NoCall = NoCall
    Calls = {s1}
    Sync = {s1}
    Chan = {ch1, chA}
    DoneOf <- DoneOfDef
    Cap <- CapDef
    Unencodable = {}
    Undecodable = {}
    MethodOf <- MethodOfDef
    Receivers <- ReceiversDef
    Panics = FALSE
    BadArgs = {}
    BadReply = {}
    Options = {"timeout"}
    ReadAhead = 2
PROPERTIES
    EveryCallEnds
CHECK_DEADLOCK FALSE
