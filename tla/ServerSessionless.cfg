SPECIFICATION FairSpec
CONSTANTS
    MaxRequests = 3
    Commands <- MCCommands
    ResponseFrames <- MCResponseFrames
    SchemaCommand = "schema"
    UnknownCommand = "unknown"
    PushRoutes = {}
    MaxPushes = 0
    Traffic <- MCSessionless
    SilentErrors <- MCNone
    MaxCloses = 1
    Hanging <- MCNone
INVARIANTS
    TypeOK
    SessionlessFIFO
    FramesInOrder
PROPERTIES
    RequestsEnd
    AnswersInTurn
\* A closed connection takes no further step.
CHECK_DEADLOCK FALSE
