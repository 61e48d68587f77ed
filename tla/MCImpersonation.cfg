SPECIFICATION Spec
CONSTANTS
    Guard = {"admin", "client"}
    User = {"alice", "bob", "carol"}
    Home <- MCHome
    Role = {"admin", "user"}
    Gate <- MCGate
    Sensitive = {"admin"}
    Delegating = {"admin"}
    Nobody = Nobody
    MaxEdits = 1
INVARIANTS
    TypeOK
    ImpersonatedIsMarked
PROPERTIES
    NothingSensitiveAsAnother
    AuthorityIsFresh
    RestoresOnlyWhoWasThere
