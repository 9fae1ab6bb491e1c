SPECIFICATION FairSpec
CONSTANTS
    Request = {r1, r2}
    NoRequest = NoRequest
    NoBinding = NoBinding
    NoEnding = NoEnding
    MaxDescriptors = 1
INVARIANTS
    PayloadOutlivesRequest
    MemoryAccounted
    JunkOnlyWhereKnown
    DescriptorsComeBack
PROPERTIES
    PayloadReleased
\* A script stops after its last call.
CHECK_DEADLOCK FALSE
