SPECIFICATION Spec
CONSTANTS
    Servers = {s1}
    Timeout = 5
    Beat = 2
    Delay = 1
    MaxTime = 11
    Reliable = TRUE
INVARIANTS
    LiveServersStayListed
CHECK_DEADLOCK FALSE
