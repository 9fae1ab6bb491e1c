SPECIFICATION Spec
CONSTANTS
    Functions = {"mkdir", "lstat", "fsync", "open", "close", "read", "writeBuffers", "readdir"}
    Req = {r1, r2}
    Descriptors = {0, 1}
    MaxOpens = 2
    MaxSync = 2
    Positions = {0, 2, 4}
    LongSize = 4
    Directories = {home, away}
    Home = home
    Script = script
    None = None
INVARIANTS ActsOnWhatWasMeant PositionHonoured
 
CHECK_DEADLOCK FALSE
