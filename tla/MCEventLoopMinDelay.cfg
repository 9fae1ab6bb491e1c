SPECIFICATION Spec
CONSTANTS
    c1 = c1
    c2 = c2
    c3 = c3
    c4 = c4
    a1 = a1
    a2 = a2
    a3 = a3
    Sentinel = Sentinel
    Main = Main
    None = None
    Callback <- Callback3
    Addr <- Addr3
    Kinds = {"timeout", "generic"}
    Delays = {1}
    MaxNow = 1
    Careful = TRUE
INVARIANT ZeroDelayMeansNoTimer
CHECK_DEADLOCK FALSE
