SPECIFICATION FairSpec
CONSTANTS
    s1 = s1
    a1 = a1
    ch1 = ch1
    chA = chA
    NoCall = NoCall
    Calls = {s1, a1}
    Sync = {s1}
    Chan = {ch1, chA}
    DoneOf <- DoneOfDef
    Cap <- CapDef
    Unencodable = {}
    Undecodable = {s1}
    MethodOf <- MethodOfDef
    Receivers <- ReceiversDef
    Panics = TRUE
    BadArgs = {s1}
    BadReply = {s1}
    Options = {"timeout", "badMagic"}
    ReadAhead = 0
INVARIANTS
    ResultIsTrue
PROPERTIES
    ClientSpec
    ServerSpec
    EveryCallEnds
CHECK_DEADLOCK FALSE
