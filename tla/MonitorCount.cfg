SPECIFICATION Spec
CONSTANTS
    None = None
    Threads = {t1, t2, t3, t4}
    Timed = {t1, t2}
    MaxNotify = 1
    MaxLeft = 2
INVARIANTS
    TypeOK
    WaitersCounted
CHECK_DEADLOCK FALSE
