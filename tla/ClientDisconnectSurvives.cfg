SPECIFICATION Spec
CONSTANTS
    Calls = {}
    ReconnectTask = loop
    MaxConnections = 2
    Limit <- MCDisconnectOnce
    AsyncCallbacks = FALSE
    Resets = FALSE
    loop = loop
INVARIANTS
    ClosedHasNoConnection
\* A client nobody uses takes no further step.
CHECK_DEADLOCK FALSE
