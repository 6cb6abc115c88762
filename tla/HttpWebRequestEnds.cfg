SPECIFICATION FairSpec
CONSTANTS
    Requests = {r1}
    Sessions = {r1}
    MaxJumpRetry = 2
INVARIANTS
    TypeOK
    NoHandleLeft
    ClosedStaysClosed
PROPERTIES
    WholeSpec
    Answered
    Collected
    RequestReturns
CHECK_DEADLOCK FALSE
