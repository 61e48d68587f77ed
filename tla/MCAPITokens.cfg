SPECIFICATION Spec
CONSTANTS
    Request = {r1, r2}
    Token = {t1, t2, t3}
    MaxPerUser = 1
    MaxLifetime = 2
    Interval = 0
    Retention = 0
    MaxTime = 3
    MaxIssueTime = 2
    MaxEpoch = 2
SYMMETRY Symmetry
INVARIANTS
    TypeOK
    LimitExceededByRacersOnly
    OutlivesCredentialsOnlyIfExcused
PROPERTIES
    DeadForGood
    LastUsedNeverGoesBack
