SPECIFICATION Spec
CONSTANTS
    c1 = c1
    c2 = c2
    c3 = c3
    NoCall = NoCall
    Calls = {c1, c2}
    MethodOf <- NoDot
    Receivers <- OnlyFoo
    Panics = FALSE
    BadArgs = {}
    BadReply = {}
    Options = {"timeout"}
    ReadAhead = 0
INVARIANTS
    HeaderErrorMeansClientGone
CHECK_DEADLOCK FALSE
