SPECIFICATION BinarySpec
CONSTANTS
    Bytes = {0, 1, 255}
    CtypesSize = 2
    MaxParameters = 2
    MaxBytes = 4
    MaxDefaults = 1
INVARIANTS
    DefaultsOmittable
\* The decoder ends.
CHECK_DEADLOCK FALSE
