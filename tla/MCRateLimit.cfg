SPECIFICATION Spec
CONSTANTS
    Key <- Buckets
    Limit <- Limits
    Window <- OneWindow
    MaxWindow = 3
    Second = 2
    MaxTime = 6
    MaxAdmitted = 9
INVARIANTS
    TypeOK
    WithinLimit
    RetryAfterIsExact
PROPERTIES
    SweepBoundsStore
    ImplementsSlidingWindow
