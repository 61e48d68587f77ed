SPECIFICATION Spec
CONSTANTS
    Key <- Buckets
    Limit <- Limits
    Window <- TwoWindows
    MaxWindow = 3
    Second = 1
    MaxTime = 6
    MaxAdmitted = 9
INVARIANTS
    WithinLimit
