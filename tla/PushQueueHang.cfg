SPECIFICATION PushFairSpec
CONSTANTS
    Consumers = {a}
    Busy = {}
    PushQueueSize = 2
    MaxFrames = 2
    MaxSuspends = 0
    NoLoop = NoLoop
    a = a
PROPERTIES
    NextPushReturns
\* When all frames are read and nobody waits the client is at rest.
CHECK_DEADLOCK FALSE
