CONSTANTS
    admin = admin
    client = client
    u1 = u1
    u2 = u2
    u3 = u3
    roleAdmin = roleAdmin
    roleStaff = roleStaff
    None = None
    Gone = Gone
    Unset = Unset
    Guard = {admin, client}
    DefaultGuard = admin
    Table <- MCTable
    DefaultUsersTable = "users"
    DefaultTokensTable = "api_tokens"
    UsersTableFor <- MCUsersTableFor
    TokensTableFor <- MCTokensTableFor
    User = {u1, u2, u3}
    GuardOf <- MCGuardOf
    Role = {roleAdmin, roleStaff}
    AdminRole = roleAdmin
    Confs <- MCConfs
    Rows <- MCRows
    Requests <- MCRequests
    MaxChanges = 1
SPECIFICATION Spec
INVARIANTS
    TypeOK
    DecidedByPolicy
