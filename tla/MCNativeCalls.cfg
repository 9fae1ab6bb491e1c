SPECIFICATION Spec
CONSTANTS
    JS = JS
    None = None
    Worker = {worker}
INVARIANTS
    ResourcesBalance
    SharedStateAsAsked
    FreedOnlyUnderAbandoned
CHECK_DEADLOCK FALSE
