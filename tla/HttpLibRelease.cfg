SPECIFICATION Spec
CONSTANTS
    f = f
    i = i
    d = d
    s = s
    path = path
    None = None
    Requests <- MCRequests
    Sync = {s}
    ByInterface = {i, d, s}
    Downloads = {f, i}
    SaveAs <- MCSaveAs
    TerminateOnTimeout = TRUE
    MultiWaitMayFail = TRUE
INVARIANTS
    NoLostWakeup
    NotifiedOnce
PROPERTIES
    QuietAfterJoin
    ServiceSpec
