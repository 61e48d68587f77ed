SPECIFICATION Spec
CONSTANTS
    User = {u1}
    Selector = {s1, s2}
    Request = {r1, r2}
    NoToken = NoToken
    TTL = 2
    Grace = 1
    MaxTime = 3
    MaxMint = 3
INVARIANTS
    TypeOK
    OneSuccessor
    NoOrphanCookie
    NotMistakenForTheft
PROPERTIES
    RevokedForGood
    ImplementsPromise
