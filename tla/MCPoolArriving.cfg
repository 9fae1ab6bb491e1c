SPECIFICATION FairSleepSpec
CONSTANTS
    Delays <- MCDelays
    DwordSize = 300
INVARIANTS
    TimeoutOnTime
    AnswerSeen
PROPERTY Returns
CHECK_DEADLOCK FALSE
