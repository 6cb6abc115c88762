SPECIFICATION Spec
CONSTANTS
    Requests = {r1, r2}
    Sessions = {}
    MaxJumpRetry = 1
INVARIANTS
    CallbackOnce
    AliveInCallback
    NoTimerOfFreed
    TimersSeen
CHECK_DEADLOCK FALSE
