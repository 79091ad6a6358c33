SPECIFICATION ComponentsSpec
CONSTANTS
    \* ServerLifecycle
    Calls = {c1, c2, c3}
    Serves = {c2, c3}
    Handlers = {h1}
    MaxCloses = 1
    None = None
    c1 = c1
    c2 = c2
    c3 = c3
    h1 = h1
    \* Commands
    Names = {"a", "n7", "schema"}
    NonStrings = {"n7"}
    ReservedName = "schema"
    Endpoints = {"greets", "lists", "blob"}
    Params <- MCParams
    Required <- MCRequired
    Variadic = {}
    Routers = {"router"}
    Invocations = {"call"}
    Values = {"str", "tuple", "bytes"}
    MaxRoutes = 4
    \* SubmitLoop
    Users = {u1, u2}
    NoThread = NoThread
    u1 = u1
    u2 = u2
INVARIANTS
    ComponentsTypeOK
    OneListener
    StaleOnlyWhenLeft
    Forgets
    SnapshotServed
    CheckedCallsAccepted
    HandlerTypes
    OneLoop
PROPERTIES
    CloseEndsAll
    SubmittedCallsEndAlone
\* Each of the components may come to rest.
CHECK_DEADLOCK FALSE
