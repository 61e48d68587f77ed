SPECIFICATION TFSpec
CONSTANTS
    Request = {r1, r2}
    Secret = {s1, s2}
    None = None
    Code = {c1, c2}
    RecoveryCount = 1
    MaxStep = 2
SYMMETRY Symmetry
INVARIANTS
    TFTypeOK
    ActiveSecretProven
    LoginCodesOnce
    RecoveryCodesOnce
