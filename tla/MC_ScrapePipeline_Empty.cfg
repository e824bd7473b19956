CONSTANTS
    c1 = c1
    c2 = c2
    t1 = t1
    t2 = t2
    Requests <- MC_EmptyRequests
    NumWorkers = 2
    MaxScrapeTorrents = 3
    ReqCap = 1
    RespCap = 1
    MaxReads = 1
    MaxWait = 1
    MaxTime = 2
SPECIFICATION Spec
CHECK_DEADLOCK FALSE
INVARIANT PendingAccounting
