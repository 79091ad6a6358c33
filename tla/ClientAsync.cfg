SPECIFICATION Spec
CONSTANTS
    Calls = {c1, c2}
    ReconnectTask = loop
    MaxConnections = 3
    Limit <- MCLosses
    AsyncCallbacks = TRUE
    Resets = TRUE
    c1 = c1
    c2 = c2
    loop = loop
INVARIANTS
    ConnectionLockDiscipline
    HarmBounded
PROPERTIES
    NeverReplacesWorking
SYMMETRY MCSymmetry
\* A client nobody uses takes no further step.
CHECK_DEADLOCK FALSE
