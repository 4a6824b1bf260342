SPECIFICATION Spec
CONSTANTS
    f1 = f1
    f2 = f2
    c1 = c1
    Feeds = {f1, f2}
    Callers = {c1}
    Nobody = Nobody
    NoRequest = NoRequest
    QueueCap = 1
    MaxStoring = 1
    QueriesFail = TRUE
INVARIANTS
    NoLostRequest
    AnsweredAfterRefresh
    FinishBeforeClose
PROPERTIES
    ImplementsRefreshService
    CallersReturn
    ShutdownCompletes
    DueFeedsRefreshed
