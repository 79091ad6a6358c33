SPECIFICATION SubmitFairSpec
CONSTANTS
    Users = {u1, u2}
    NoThread = NoThread
    u1 = u1
    u2 = u2
PROPERTIES
    SubmittedCallsEnd
\* Every thread may have made its call.
CHECK_DEADLOCK FALSE
