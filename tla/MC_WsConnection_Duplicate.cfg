CONSTANTS
    MaxPendingMessages = 1
    SockCap = 1
    MaxRequests = 3
SPECIFICATION Spec
CHECK_DEADLOCK FALSE
INVARIANT AnswersReceivedOnce
