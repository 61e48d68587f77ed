SPECIFICATION Spec
CONSTANTS
    UserId = {a, b}
    NoUser = NoUser
    Email = {e1, e2}
    Role = {admin, editor}
    NoRole = NoRole
    ManagementRole = {admin}
    Request = {r1, r2}
    RevokeOnPasswordChange = TRUE
    MaxOps = 2
SYMMETRY Symmetry
INVARIANTS
    TypeOK
    KeepsActiveAdminUnlessRaced
PROPERTIES
    FreshWritesKeepToTheirColumns
    ManagersKeepTheirAccount
