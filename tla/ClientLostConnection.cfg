SPECIFICATION FairSpec
CONSTANTS
    Calls = {c1, c2}
    ReconnectTask = loop
    MaxConnections = 2
    Limit <- MCOneLoss
    AsyncCallbacks = FALSE
    Resets = FALSE
    c1 = c1
    c2 = c2
    loop = loop
PROPERTIES
    CallsEnd
\* A client nobody uses takes no further step.
CHECK_DEADLOCK FALSE
