SPECIFICATION Spec
CONSTANTS
    MaxRequests = 3
    Commands <- MCCommands
    ResponseFrames <- MCResponseFrames
    SchemaCommand = "schema"
    UnknownCommand = "unknown"
    PushRoutes = {}
    MaxPushes = 0
    Traffic <- MCMixed
    SilentErrors <- MCNone
    MaxCloses = 0
    Hanging <- MCNone
INVARIANTS
    SessionlessFIFO
\* A closed connection takes no further step.
CHECK_DEADLOCK FALSE
