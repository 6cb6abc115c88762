SPECIFICATION FairSpec
CONSTANTS
    None = None
    Threads = {t1, t2, t3}
    Timed = {t1}
    MaxNotify = 1
    MaxLeft = 2
PROPERTIES
    TimedWaitReturns
CHECK_DEADLOCK FALSE
