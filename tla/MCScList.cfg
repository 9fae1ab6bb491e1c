SPECIFICATION Spec
CONSTANTS
    q1 = q1
    q2 = q2
    e1 = e1
    e2 = e2
    e3 = e3
    NoNode = NoNode
    Lists <- MCLists
    Elems <- MCElems
INVARIANTS
    RingInv
    OneRing
    LoopVisitsKept
    ClearEmpties
PROPERTY ImplementsListSpec
CHECK_DEADLOCK FALSE
