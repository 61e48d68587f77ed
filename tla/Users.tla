-------------------------------- MODULE Users --------------------------------
(***************************************************************************)
(* Everything that writes the users table but two-factor: the management   *)
(* service (services/users.go: Create, Update, Delete, SetPassword) and    *)
(* the self-service of services/auth.go (UpdateProfile, ChangePassword).   *)
(*                                                                         *)
(* Each is a request that runs one statement at a time and decides in      *)
(* between on the row it read first. Requests interleave at every          *)
(* statement. None of them runs in a transaction. A request of the routes  *)
(* that manage users comes from an actor, whose row RequireRole reads      *)
(* before anything else; the host calls the services without one.          *)
(***************************************************************************)
EXTENDS UsersTable

CONSTANTS
    Email,
    Role,             \* the configured roles
    NoRole,           \* an update that leaves the role alone
    ManagementRole,   \* the roles that may manage users
    Request,          \* requests that may be in flight at the same time
    RevokeOnPasswordChange,  \* whether a password reset revokes API tokens
    MaxOps            \* bound on the operations started

User == [email: Email, role: Role, disabled: BOOLEAN, verified: BOOLEAN, password: Nat]

ASSUME UsersAssumption ==
    /\ NoUser \notin User
    /\ ManagementRole \subseteq Role
    /\ NoRole \notin Role
    /\ RevokeOnPasswordChange \in BOOLEAN
    /\ MaxOps \in Nat

VARIABLES
    rows,     \* the users table
    tokens,   \* the users who hold active API tokens
    used,     \* the ids ever given to a user
    minted,   \* the last password anyone chose
    started,  \* operations started so far
    stage,    \* stage[r]: the statement r runs next, or its answer
    op,       \* op[r]: what r was asked to do
    seen,     \* seen[r]: the row r read, with the edits it made to it
    \* History, read by the properties only:
    stale,    \* stale[r]: what r read and another request has written behind: the
              \* actor's row, the rows it decides on
    raced     \* a request has written although its reads were stale

vars == <<rows, tokens, used, minted, started, stage, op, seen, stale, raced>>

Kind == {"create", "update", "delete", "setPassword", "profile", "changePassword"}

Statement == {"role", "read", "count", "email", "write", "revoke", "reread"}

Answer == {"ok", "unauthorized", "forbidden", "notFound", "invalid", "conflict",
           "lastAdmin", "wrongPassword", "error"}

\* by is the actor, or NoUser.
Operation == [kind: Kind, id: UserId, email: Email, role: Role \cup {NoRole},
              disable: {"keep", "lock", "unlock"}, by: UserId \cup {NoUser}, password: Nat]

AnyOf(S) == CHOOSE x \in S : TRUE

NoOp == [kind |-> "delete", id |-> AnyOf(UserId), email |-> AnyOf(Email),
         role |-> NoRole, disable |-> "keep", by |-> NoUser, password |-> 0]

TypeOK ==
    /\ rows \in [UserId -> User \cup {NoUser}]
    /\ tokens \in SUBSET UserId
    /\ used \in SUBSET UserId
    /\ minted \in Nat
    /\ started \in Nat
    /\ stage \in [Request -> {"idle"} \cup Statement \cup Answer]
    /\ op \in [Request -> Operation]
    /\ seen \in [Request -> User \cup {NoUser}]
    /\ stale \in [Request -> SUBSET {"actor", "rows"}]
    /\ raced \in BOOLEAN
    /\ \A r \in Request :
          stage[r] \in {"write", "revoke"} /\ op[r].kind # "create" => seen[r] \in User

ActiveAdmins ==
    {u \in Stored(rows) : rows[u].role \in ManagementRole /\ ~rows[u].disabled}

\* An installation with its first administrator, in any state the API left it
\* in; every user holds an API token and a verified address.
Init ==
    /\ rows \in [UserId -> [email: Email, role: Role, disabled: BOOLEAN,
                            verified: {TRUE}, password: {1}] \cup {NoUser}]
    /\ \A u \in Stored(rows) : Accepts(rows, u, rows[u])
    /\ Stored(rows) # {}
    /\ ManagementRole = {} \/ ActiveAdmins # {}
    /\ used = Stored(rows)
    /\ tokens = Stored(rows)
    /\ minted = 1
    /\ started = 0
    /\ stage = [r \in Request |-> "idle"]
    /\ op = [r \in Request |-> NoOp]
    /\ seen = [r \in Request |-> NoUser]
    /\ stale = [r \in Request |-> {}]
    /\ raced = FALSE

dataVars == <<rows, tokens, used, minted, raced>>

-----------------------------------------------------------------------------
(* A request *)

\* The operations that name a role, a lock or an address.
NamesRole == {"create", "update"}
NamesEmail == {"create", "update", "profile"}

\* The operations the routes and the host ask for; a field that an operation
\* does not name has a value nobody reads. A request's actor is a user that
\* Authenticated let through, and an empty list of management roles is never
\* mounted. A new user without a role gets one that manages nobody.
Requested ==
    {o \in [kind: Kind, id: UserId, email: Email, role: Role \cup {NoRole},
            disable: {"keep", "lock", "unlock"}, by: UserId \cup {NoUser},
            password: 1..minted] :
        /\ o.by # NoUser =>
              /\ o.kind \notin {"profile", "changePassword"} /\ ManagementRole # {}
              /\ o.by \in Stored(rows) /\ ~rows[o.by].disabled
        /\ o.kind = "create" <=> o.id \notin used
        /\ o.kind = "create" /\ o.role = NoRole => ~(Role \subseteq ManagementRole)
        /\ o.kind \notin NamesRole => o.role = NoRole
        /\ o.kind \notin NamesEmail => o.email = AnyOf(Email)
        /\ o.kind # "update" => o.disable = "keep"
        /\ o.kind # "changePassword" => o.password = 1}

\* The first statement of an operation.
FirstStatement(o) == IF o.kind = "create" THEN "email" ELSE "read"

Start(r) ==
    /\ stage[r] = "idle"
    /\ started < MaxOps
    /\ started' = started + 1
    /\ \E o \in Requested :
          /\ used' = used \cup {o.id}
          /\ op' = [op EXCEPT ![r] = o]
          /\ stage' = [stage EXCEPT ![r] = IF o.by # NoUser THEN "role" ELSE FirstStatement(o)]
    /\ UNCHANGED <<rows, tokens, minted, seen, stale, raced>>

\* r goes on to the statement s, holding row.
Goto(r, s, row) ==
    /\ stage' = [stage EXCEPT ![r] = s]
    /\ seen' = [seen EXCEPT ![r] = row]
    /\ UNCHANGED <<op, started>>

\* The operation returns: what r read is forgotten.
Return(r, answer) ==
    /\ stage' = [stage EXCEPT ![r] = answer]
    /\ seen' = [seen EXCEPT ![r] = NoUser]
    /\ op' = [op EXCEPT ![r] = NoOp]
    /\ UNCHANGED started

\* r reads what: from here on another write leaves r behind.
Reads(r, what) == stale' = [stale EXCEPT ![r] = @ \ {what}]

Ended(r) == stale' = [stale EXCEPT ![r] = {}]

\* What a request has read by the time it is at a statement.
ReadBy(q) ==
    (IF op[q].by # NoUser /\ stage[q] \in {"read", "count", "email", "write"} THEN {"actor"} ELSE {})
    \cup (IF stage[q] \in {"count", "write"} \/ (stage[q] = "email" /\ op[q].kind # "create")
          THEN {"rows"} ELSE {})

\* r writes the table.
Wrote(r) ==
    /\ raced' = (raced \/ "rows" \in stale[r])
    /\ stale' = [q \in Request |-> IF q = r THEN {} ELSE stale[q] \cup ReadBy(q)]

Finish(r) ==
    /\ stage[r] \in Answer
    /\ stage' = [stage EXCEPT ![r] = "idle"]
    /\ UNCHANGED <<dataVars, started, op, seen, stale>>

\* The statement r is about to run returns an error and changes nothing;
\* RequireRole takes that for an actor who is not there.
StatementFails(r) ==
    /\ stage[r] \in Statement
    /\ Return(r, IF stage[r] = "role" THEN "unauthorized" ELSE "error")
    /\ Ended(r)
    /\ UNCHANGED dataVars

\* The input is refused before anything is written: an address, a name, a role
\* or a password that validation does not accept.
Invalid(r) ==
    /\ stage[r] \in {"read", "email"}
    /\ op[r].kind # "delete"
    /\ Return(r, "invalid")
    /\ Ended(r)
    /\ UNCHANGED dataVars

-----------------------------------------------------------------------------
(* The routes that manage users *)

IsManagementRole(role) == role \in ManagementRole

\* Faulty: only a lock is refused.
SelfRefusedByLock(o) == o.kind = "update" /\ o.disable = "lock" /\ o.by = o.id

\* The handlers refuse to lock or to delete the actor.
SelfRefused(o) ==
    /\ o.by = o.id
    /\ o.kind = "delete" \/ (o.kind = "update" /\ o.disable = "lock")

\* RequireRole reads the actor's row and compares the role, and not the lock,
\* which Authenticated read before.
RequireRole(r) ==
    LET o == op[r]
        actor == FindByID(rows, o.by)
        allowed == actor # NoUser /\ IsManagementRole(actor.role)
    IN
    /\ stage[r] = "role"
    /\ Reads(r, "actor")
    /\ \/ ~allowed /\ Return(r, IF actor = NoUser THEN "unauthorized" ELSE "forbidden")
       \/ allowed /\ SelfRefused(o) /\ Return(r, "invalid")
       \/ allowed /\ ~SelfRefused(o) /\ Goto(r, FirstStatement(o), NoUser)
    /\ UNCHANGED dataVars

-----------------------------------------------------------------------------
(* Reading, and the decision taken on the row *)

Disabling(o) == o.disable = "lock"

\* An empty role leaves the role alone.
Demoting(o) == o.role # NoRole /\ ~IsManagementRole(o.role)

\* Faulty: only a demotion is guarded.
GuardedByDemotion(o, row) == IsManagementRole(row.role) /\ ~row.disabled /\ Demoting(o)

\* Update counts the other administrators when it takes one away.
Guarded(o, row) ==
    /\ IsManagementRole(row.role) /\ ~row.disabled
    /\ Disabling(o) \/ Demoting(o)

\* The row Update saves. The address stays verified.
Edited(o, row) ==
    [row EXCEPT !.email = o.email,
                !.role = IF o.role = NoRole THEN @ ELSE o.role,
                !.disabled = CASE o.disable = "lock" -> TRUE
                               [] o.disable = "unlock" -> FALSE
                               [] o.disable = "keep" -> @]

\* Faulty: the verification of the old address is kept.
EditedProfileKeepingVerified(o, row) == [row EXCEPT !.email = o.email]

\* The row UpdateProfile saves.
EditedProfile(o, row) ==
    [row EXCEPT !.email = o.email, !.verified = (o.email = row.email) /\ @]

\* The operation may take an administrator away, or without management roles, a
\* user: it counts the others first.
TakesAdmin(o, row) ==
    \/ o.kind = "update" /\ Guarded(o, row)
    \/ o.kind = "delete" /\ (IsManagementRole(row.role) \/ ManagementRole = {})

\* The statement an operation runs after it read the row.
NextStatement(o, row) ==
    IF TakesAdmin(o, row) THEN "count"
    ELSE IF o.kind \in {"update", "profile"} /\ o.email # row.email THEN "email"
    ELSE "write"

\* A password change needs the old password and must choose a new one. (Update
\* also refuses to lock the actor: the route has done so before.)
Refusal(o, row) ==
    CASE o.kind = "update" /\ Guarded(o, row) /\ Disabling(o) /\ o.by = o.id -> "invalid"
      [] o.kind = "changePassword" /\ o.password # row.password -> "wrongPassword"
      [] OTHER -> "none"

\* UpdateProfile writes nothing when neither address nor name changes.
Unchanged(o, row) == o.kind = "profile" /\ o.email = row.email

Read(r) ==
    LET row == FindByID(rows, op[r].id) IN
    /\ stage[r] = "read"
    /\ Reads(r, "rows")
    /\ \/ row = NoUser /\ Return(r, "notFound")
       \/ row # NoUser /\ Refusal(op[r], row) # "none" /\ Return(r, Refusal(op[r], row))
       \/ row # NoUser /\ Unchanged(op[r], row) /\ Return(r, "ok")
       \/ row # NoUser /\ Refusal(op[r], row) = "none"
             /\ Goto(r, NextStatement(op[r], row), row)
    /\ UNCHANGED dataVars

\* Someone else remains to manage users: an active administrator, or without
\* management roles, any user.
OthersRemain(o) ==
    IF ManagementRole = {}
    THEN \E u, v \in Stored(rows) : u # v
    ELSE ActiveByRolesExcluding(rows, ManagementRole, o.id) # {}

Count(r) ==
    /\ stage[r] = "count"
    /\ IF OthersRemain(op[r])
       THEN /\ Goto(r, IF op[r].kind = "update" /\ op[r].email # seen[r].email
                       THEN "email" ELSE "write", seen[r])
            /\ UNCHANGED stale
       ELSE Return(r, "lastAdmin") /\ Ended(r)
    /\ UNCHANGED dataVars

\* Create looks the address up first; the other operations after the row.
LookUpEmail(r) ==
    LET o == op[r] IN
    /\ stage[r] = "email"
    /\ IF FindByEmail(rows, o.email) \subseteq {o.id}
       THEN Goto(r, "write", seen[r]) /\ IF o.kind = "create" THEN Reads(r, "rows") ELSE UNCHANGED stale
       ELSE Return(r, "conflict") /\ Ended(r)
    /\ UNCHANGED dataVars

-----------------------------------------------------------------------------
(* Writing *)

\* The first configured role that is not a management role.
DefaultRole == AnyOf(Role \ ManagementRole)

NewUser(o, password) ==
    [email |-> o.email, role |-> IF o.role = NoRole THEN DefaultRole ELSE o.role,
     disabled |-> FALSE, verified |-> FALSE, password |-> password]

Written(o, row) == IF o.kind = "update" THEN Edited(o, row) ELSE EditedProfile(o, row)

\* Update and UpdateProfile save the row they read; a lost race for the address
\* is a conflict for UpdateProfile and an internal error for Update.
SaveRow(r) ==
    LET o == op[r]
        row == Written(o, seen[r])
    IN
    /\ stage[r] = "write"
    /\ o.kind \in {"update", "profile"}
    /\ IF Accepts(rows, o.id, row)
       THEN /\ rows' = Save(rows, o.id, row)
            /\ Wrote(r)
            /\ IF Disabling(o) THEN Goto(r, "revoke", seen[r]) ELSE Return(r, "ok")
       ELSE /\ Return(r, IF o.kind = "profile" THEN "conflict" ELSE "error")
            /\ Ended(r)
            /\ UNCHANGED <<rows, raced>>
    /\ UNCHANGED <<tokens, used, minted>>

InsertRow(r) ==
    LET o == op[r]
        row == NewUser(o, minted + 1)
    IN
    /\ stage[r] = "write"
    /\ o.kind = "create"
    /\ minted' = minted + 1
    /\ IF Accepts(rows, o.id, row)
       THEN rows' = Save(rows, o.id, row) /\ Wrote(r) /\ Return(r, "ok")
       ELSE Return(r, "error") /\ Ended(r) /\ UNCHANGED <<rows, raced>>
    /\ UNCHANGED <<tokens, used>>

\* What follows the new password: ChangePassword reads the row again for the
\* stored time of the change, SetPassword revokes API tokens.
AfterPassword(o) ==
    CASE o.kind = "changePassword" -> "reread"
      [] o.kind = "setPassword" /\ RevokeOnPasswordChange -> "revoke"
      [] OTHER -> "ok"

WritePassword(r) ==
    /\ stage[r] = "write"
    /\ op[r].kind \in {"setPassword", "changePassword"}
    /\ minted' = minted + 1
    /\ rows' = UpdatePassword(rows, op[r].id, minted + 1)
    /\ Wrote(r)
    /\ IF AfterPassword(op[r]) = "ok"
       THEN Return(r, "ok")
       ELSE Goto(r, AfterPassword(op[r]), seen[r])
    /\ UNCHANGED <<tokens, used>>

RemoveRow(r) ==
    /\ stage[r] = "write"
    /\ op[r].kind = "delete"
    /\ rows' = DeleteRow(rows, op[r].id)
    /\ Wrote(r)
    /\ Goto(r, "revoke", seen[r])
    /\ UNCHANGED <<tokens, used, minted>>

\* apiTokens.RevokeAll after the row is written.
RevokeTokens(r) ==
    /\ stage[r] = "revoke"
    /\ tokens' = tokens \ {op[r].id}
    /\ Return(r, "ok")
    /\ Ended(r)
    /\ UNCHANGED <<rows, used, minted, raced>>

Reread(r) ==
    /\ stage[r] = "reread"
    /\ Return(r, IF FindByID(rows, op[r].id) = NoUser THEN "notFound" ELSE "ok")
    /\ Ended(r)
    /\ UNCHANGED dataVars

Step(r) ==
    \/ RequireRole(r) \/ Read(r) \/ Count(r) \/ LookUpEmail(r)
    \/ SaveRow(r) \/ InsertRow(r) \/ WritePassword(r) \/ RemoveRow(r)
    \/ RevokeTokens(r) \/ Reread(r)
    \/ StatementFails(r) \/ Invalid(r) \/ Finish(r)

\* The bound on operations is reached and all have been answered.
Done ==
    /\ started = MaxOps
    /\ \A r \in Request : stage[r] = "idle"
    /\ UNCHANGED vars

Next ==
    \/ \E r \in Request : Start(r) \/ Step(r)
    \/ Done

Spec == Init /\ [][Next]_vars

-----------------------------------------------------------------------------
(* Properties *)

\* The installation can still be managed: an active administrator is left, or
\* without management roles, a user.
KeepsActiveAdmin ==
    IF ManagementRole = {} THEN Stored(rows) # {} ELSE ActiveAdmins # {}

\* No sequence of operations leaves the installation without an administrator,
\* and no interleaving does either unless some request wrote after another one
\* had changed the table behind its back: the guards of Update and Delete cover
\* every way to take an administrator away.
KeepsActiveAdminUnlessRaced == raced \/ KeepsActiveAdmin

\* The step in which r writes the table.
Writes(r) == stage[r] = "write" /\ stage'[r] # "write" /\ stage'[r] # "error"

\* What an operation of a kind leaves alone of the row it writes.
SameColumns(kind, old, new) ==
    CASE kind = "update" -> new.password = old.password /\ new.verified = old.verified
      [] kind = "profile" -> /\ new.role = old.role
                             /\ new.disabled = old.disabled
                             /\ new.password = old.password
                             /\ new.verified => old.verified /\ new.email = old.email
      [] OTHER -> [new EXCEPT !.password = old.password] = old

\* An operation that wrote on fresh reads changed its own columns of its own
\* row and nothing else: Update no password, UpdateProfile no role, no lock and
\* no verification of a new address, a password change no other column.
FreshWritesKeepToTheirColumns ==
    [][\A r \in Request : Writes(r) /\ "rows" \notin stale[r] =>
          \A u \in Stored(rows) : rows'[u] # NoUser =>
              \/ rows'[u] = rows[u]
              \/ op[r].id = u /\ SameColumns(op[r].kind, rows[u], rows'[u])]_vars

\* A request of an actor whose row nobody wrote behind it is a manager's, and
\* leaves the actor an account to go on with: nobody deletes or locks
\* themselves on the routes that manage users.
ManagersKeepTheirAccount ==
    [][\A r \in Request :
          LET actor == op[r].by IN
          Writes(r) /\ actor # NoUser /\ "actor" \notin stale[r] =>
              /\ rows[actor] # NoUser /\ IsManagementRole(rows[actor].role)
              /\ rows'[actor] # NoUser
              /\ rows'[actor].disabled => rows[actor].disabled]_vars

=============================================================================
