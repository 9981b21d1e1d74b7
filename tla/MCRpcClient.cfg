SPECIFICATION FairSpec
CONSTANTS
    s1 = s1
    a1 = a1
    a2 = a2
    ch1 = ch1
    chA = chA
    NoCall = NoCall
    Calls = {s1, a1, a2}
    Sync = {s1}
    Chan = {ch1, chA}
    DoneOf <- DoneOfDef
    Cap <- CapDef
    Unencodable = {a2}
    Undecodable = {a1}
INVARIANTS
    TypeOK
    CompletedAtMostOnce
    NoLostCall
    RightReply
    CancelledStaysSilent
    SyncDoneNeverBlocks
    RequestFraming
PROPERTIES
    NoWriteAfterShutdown
    LossEndsEveryCall
CHECK_DEADLOCK FALSE
