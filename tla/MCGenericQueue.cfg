SPECIFICATION FairSpec
CONSTANTS
    Request = {r1, r2, r3}
    Sentinel = Sentinel
    None = None
INVARIANTS
    TypeOK
    EventOutlivesWorker
    CallbackSeesResult
    QueueIsHeap
    CursorInQueue
PROPERTIES
    ImplementsAsyncRequest
    EveryRequestDelivered
\* The script need push nothing.
CHECK_DEADLOCK FALSE
