SPECIFICATION FairSpec
CONSTANTS
    None = None
    Threads = {t1, t2, t3, t4}
    Timed = {}
    MaxNotify = 2
    MaxLeft = 4
INVARIANTS
    OneBaton
PROPERTIES
    WakeupEnds
    CondVarSpec
CHECK_DEADLOCK FALSE
