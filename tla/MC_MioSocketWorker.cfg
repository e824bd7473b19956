CONSTANTS
    Clients = {a1}
    MaxRequests = 2
    ResendBufferMaxLen = 1
    ChanCap = 1
    NumShards = 2
    PeriodicIters = 2
SPECIFICATION Spec
CHECK_DEADLOCK FALSE
INVARIANTS TypeOK ResponseSentAtMostOnce
PROPERTIES ResponseEventuallySettled PendingScrapeEventuallyReleased
