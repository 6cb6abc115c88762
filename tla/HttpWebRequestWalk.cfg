SPECIFICATION Spec
CONSTANTS
    Requests = {r1, r2}
    Sessions = {}
    MaxJumpRetry = 1
INVARIANT
    WalkInRange
CHECK_DEADLOCK FALSE
