SPECIFICATION Spec
CONSTANTS
    Requests = {r1, r2}
    Sessions = {}
    MaxJumpRetry = 1
INVARIANT
    AliveInRequest
CHECK_DEADLOCK FALSE
