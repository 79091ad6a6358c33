SPECIFICATION FairSpec
CONSTANTS
    MaxRequests = 2
    Commands <- MCCommands
    ResponseFrames <- MCResponseFrames
    SchemaCommand = "schema"
    UnknownCommand = "unknown"
    PushRoutes = {p}
    p = p
    MaxPushes = 1
    Traffic <- MCShared
    SilentErrors <- MCAllButSecond
    MaxCloses = 0
    Hanging <- MCFirstHangs
INVARIANTS
    LockDiscipline
    ClosedIsQuiet
    CompleteResponse
PROPERTIES
    SessionedNotBlocked
    CleanupCompletes
\* A closed connection takes no further step.
CHECK_DEADLOCK FALSE
