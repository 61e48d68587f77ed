SPECIFICATION Spec
CONSTANTS
    Guard = {"admin", "client"}
    User = {"alice", "bob", "carol"}
    Home <- MCHome
    Role = {"admin", "user"}
    Gate <- MCGate
    Sensitive = {}
    Delegating = {}
    Nobody = Nobody
    MaxEdits = 1
INVARIANTS
    MarkedIsImpersonated
