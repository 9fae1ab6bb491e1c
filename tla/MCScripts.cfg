SPECIFICATION Spec
CONSTANTS
    Names = {"a", "unknown"}
    Mapped = {"a"}
    MaxInstances = 2
    MaxDepth = 5
    MaxResources = 2
    HookSets <- MCHookSets
    Observer = observer
    Other = other
INVARIANTS LoadedOnce ScopesNest
CHECK_DEADLOCK FALSE
