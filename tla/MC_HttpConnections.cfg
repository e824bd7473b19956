CONSTANTS
    Conns = {k1, k2}
    NumKeys = 2
    MaxIdle = 1
    KeepAlive = TRUE
    Pipelining = FALSE
    MaxRequests = 3
    MaxTime = 2
    Requests = {"announce", "denied", "scrape2", "invalid"}
    BodyLen <- MC_BodyLen
SPECIFICATION Spec
CHECK_DEADLOCK FALSE
SYMMETRY MC_Symmetry
INVARIANTS
    TypeOK
    SlabMatchesTasks
    RequestsAnsweredInOrder
    ContentLengthMatchesBody
