CONSTANTS
    MaxPendingMessages = 2
    SockCap = 2
    MaxRequests = 6
SPECIFICATION Spec
CHECK_DEADLOCK FALSE
INVARIANTS TypeOK PendingMessagesWatched HeldFramesHaveWriter
PROPERTY AnswersEventuallyReceived
