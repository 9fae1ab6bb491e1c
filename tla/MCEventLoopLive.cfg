SPECIFICATION FairSpec
CONSTANTS
    c1 = c1
    c2 = c2
    c3 = c3
    c4 = c4
    a1 = a1
    a2 = a2
    a3 = a3
    Sentinel = Sentinel
    Main = Main
    None = None
    Callback <- Callback3
    Addr <- Addr2
    Kinds = {"job", "tick", "timeout", "interval", "generic", "immediate"}
    Delays = {1}
    MaxNow = 1
    Careful = TRUE
INVARIANT LeftAtExit
PROPERTIES EverythingRuns ImplementsCallbacks
CHECK_DEADLOCK FALSE
