SPECIFICATION FramesSpec
CONSTANTS
    \* ClientRequests
    Singles = {}
    Doubles = {d1, d2}
    d1 = d1
    d2 = d2
    Calls <- MCCalls
    ResponseFrames <- MCResponseFrames
    FrameTypes = {TRUE, FALSE}
    MaxTimeouts = 2
    \* PushQueue
    Consumers = {a, b}
    Busy = {a, b}
    PushQueueSize = 2
    MaxFrames = 4
    MaxSuspends = 2
    NoLoop = NoLoop
    a = a
    b = b
    \* JsonFraming
    MaxFrameSize = 2
    MaxSent = 2
    \* BinaryArguments
    Bytes = {0, 1, 255}
    CtypesSize = 2
    MaxParameters = 2
    MaxBytes = 5
    MaxDefaults = 0
INVARIANTS
    FramesTypeOK
    OwnResponses
    PendingInRequestOrder
    NeverOverfull
    NothingTwice
    OvertakenOnlyInReplay
    LossBounded
    StaysInStep
    DecodesTheReading
PROPERTIES
    ServedAsPromised
    CallsEnd
    EofEnds
\* Calls end, frames run out, streams are closed and payloads decoded.
CHECK_DEADLOCK FALSE
