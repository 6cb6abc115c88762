SPECIFICATION FairSpec
CONSTANTS
    t1 = t1  t2 = t2  t3 = t3
    o1 = o1  o2 = o2
    Workers = {w1, w2}
    Tasks = {t1, t2, t3}
    Objects = {o1, o2}
    Object <- MCObject
    none = none
INVARIANTS
    NoneLeftAsleep
    WorkSeen
    RunOnce
    RemovedUntouched
PROPERTIES
    ServiceSpec
    Served
    RemoveReturns
    StopReturns
CHECK_DEADLOCK FALSE
