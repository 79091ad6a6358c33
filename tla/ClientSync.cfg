SPECIFICATION FairSpec
CONSTANTS
    Calls = {c1, c2}
    ReconnectTask = loop
    MaxConnections = 3
    Limit <- MCDisconnects
    AsyncCallbacks = FALSE
    Resets = TRUE
    c1 = c1
    c2 = c2
    loop = loop
INVARIANTS
    TypeOK
    PendingHasReader
    OneConnection
PROPERTIES
    Reconnects
    CallsEndUndisturbed
\* A client nobody uses takes no further step.
CHECK_DEADLOCK FALSE
