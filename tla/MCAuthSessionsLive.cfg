SPECIFICATION FairSpec
CONSTANTS
    Browser = {b1, b2}
    Token = {t1}
    Family = {f1, f2}
    None = None
    Options <- RememberMeOnly
PROPERTIES
    RevocationFollows
