CONSTANTS
    Clients = {c1, c2}
    MaxMsgs = 1
    ValidFor = 1
    MaxTime = 2
SPECIFICATION Spec
PROPERTY WorkerReturnsToPoll
CHECK_DEADLOCK FALSE
