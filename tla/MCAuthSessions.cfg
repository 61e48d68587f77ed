SPECIFICATION Spec
CONSTANTS
    Browser = {b1, b2}
    Token = {t1, t2, t3}
    Family = {f1, f2}
    None = None
    Options <- AllOptions
SYMMETRY Symmetry
INVARIANTS
    TypeOK
    NoGhostSession
PROPERTIES
    TerminatedForGood
    OutlivesPasswordOnlyIfExcused
    LogoutNeedsLogin
