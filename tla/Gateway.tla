------------------------------ MODULE Gateway -------------------------------
(***************************************************************************)
(* How guards are configured, and what a request passes on its way to a    *)
(* handler.                                                                *)
(*                                                                         *)
(* The host's configuration gives each guard its options, the provider     *)
(* migrates the tables they name, RegisterAll mounts the package's routes, *)
(* and the host puts Protect, ProtectRole, ProtectToken or ProtectAny in   *)
(* front of its own.  A route is a set of middleware in a fixed order,     *)
(* each of which reads the session, the headers or a row on its own, while *)
(* other requests change the rows.  What the handlers do is in the other   *)
(* modules; here a request that reaches its handler is served.             *)
(*                                                                         *)
(* A browser states truthfully which page a request comes from, if it      *)
(* states it at all.  A session is reduced to what the middleware ask of   *)
(* it: whom it is for, whether its password stamp is the row's, whether    *)
(* it carries a tracking token, with its row or without, and whether it is *)
(* marked as impersonated.                                                 *)
(***************************************************************************)
EXTENDS Naturals, FiniteSets, TLC

CONSTANTS
    Guard, DefaultGuard,
    Table, DefaultUsersTable, DefaultTokensTable,
    UsersTableFor, TokensTableFor,      \* the names derived for a declared guard
    Unset,                              \* an option that is empty
    User, GuardOf,                      \* each user belongs to one guard
    Role, AdminRole,
    None, Gone,
    Confs,                              \* the configurations of the host
    Rows,                               \* the rows there may be at first
    Requests,                           \* what clients send
    MaxChanges                          \* bound: changes by others during a request

VARIABLES
    conf,       \* the configuration, which never changes
    mounted,    \* mounted[g]: the options g's routes were mounted with
    migrated,   \* the tables there are
    rows,       \* rows[u]: u's row, in the table of u's guard
    tokens,     \* the users who have an active API token
    req,        \* the request in flight
    todo,       \* the middleware it has not passed yet
    actor,      \* CtxAuthUserID: whom it is authenticated as
    outcome,    \* "idle" between requests, "none" while one is under way
    changes,
    held,       \* history: the facts that held at some moment of it,
    always,     \*   those that held at every moment of it,
    failed      \*   and the middleware whose statement failed

wiring == <<conf, mounted, migrated>>
world == <<rows, tokens>>
progress == <<req, todo, actor, outcome, failed>>
vars == <<wiring, world, progress, changes, held, always>>

-----------------------------------------------------------------------------
(* Options *)

Options == [guard: Guard, usersTable: Table \cup {Unset}, tokensTable: Table \cup {Unset},
            csrf: BOOLEAN, management: BOOLEAN, audit: BOOLEAN, remember: BOOLEAN,
            sessions: BOOLEAN, tokens: BOOLEAN, impersonation: BOOLEAN,
            sensitive: BOOLEAN, roles: SUBSET Role]

DefaultOptions ==
    [guard |-> DefaultGuard, usersTable |-> Unset, tokensTable |-> Unset,
     csrf |-> TRUE, management |-> TRUE, audit |-> TRUE, remember |-> TRUE,
     sessions |-> TRUE, tokens |-> FALSE, impersonation |-> FALSE,
     sensitive |-> FALSE, roles |-> {AdminRole}]

\* c.top: the top-level keys that are set. Each replaces a default.
OptionsFromConfig(c) == c.top @@ DefaultOptions

\* c.guards: for each declared guard, the keys that are set under it. Tables
\* that are not named are named after the guard; the rest is inherited.
\* Impersonation is enabled for all of them or none.
OptionsForGuard(c, g) ==
    (IF g \in DOMAIN c.guards THEN c.guards[g] ELSE <<>>)
        @@ [guard |-> g, usersTable |-> UsersTableFor[g], tokensTable |-> TokensTableFor[g]]
        @@ OptionsFromConfig(c)

GuardOptions(c) ==
    IF DOMAIN c.guards = {} THEN {OptionsFromConfig(c)}
    ELSE {OptionsForGuard(c, g) : g \in DOMAIN c.guards}

\* Faulty: a guard's tables are always those a declared guard would have.
OptionsByGuardDerived(g) == OptionsForGuard(conf, g)

OptionsByGuard(g) ==
    IF \E o \in GuardOptions(conf) : o.guard = g
    THEN CHOOSE o \in GuardOptions(conf) : o.guard = g
    ELSE OptionsForGuard(conf, g)

\* An empty name is the repository's default.
UsersTable(o) == IF o.usersTable = Unset THEN DefaultUsersTable ELSE o.usersTable
TokensTable(o) == IF o.tokensTable = Unset THEN DefaultTokensTable ELSE o.tokensTable

\* The configurations are complete, and no two guards share both their tables:
\* they would be one.
ASSUME TablesAssumption ==
    /\ {DefaultUsersTable, DefaultTokensTable} \subseteq Table
    /\ \A c \in Confs :
          /\ GuardOptions(c) \subseteq Options
          /\ \A o, p \in GuardOptions(c) :
                UsersTable(o) = UsersTable(p) /\ TokensTable(o) = TokensTable(p) =>
                   o.guard = p.guard

\* Faulty: an empty list leaves nobody to ask for.
ManagementRolesAsGiven(o) == o.roles

ManagementRoles(o) == IF o.roles = {} THEN {AdminRole} ELSE o.roles

-----------------------------------------------------------------------------
(* Routes *)

Public == {"meta", "login"}
Management == {"users", "admin/logins"}
\* What a switched session may be kept from.
Sensitive == Management \cup {"password", "api-tokens"}
Guarded == Sensitive \cup {"me", "impersonate", "impersonate/stop"}
HostRoute == {"protect", "protectRole", "protectToken", "protectAny"}
Route == Public \cup Guarded \cup HostRoute

\* The routes that register mounts.
Mounts(o) ==
    (Public \cup Guarded) \
      ((IF o.audit THEN {} ELSE {"admin/logins"})
       \cup (IF o.management THEN {} ELSE {"users"})
       \cup (IF o.tokens THEN {} ELSE {"api-tokens"})
       \cup (IF o.impersonation THEN {} ELSE {"impersonate", "impersonate/stop"}))

\* In this order.
Middleware == {"origin", "remember", "authenticate", "token", "owner", "track",
               "reject", "limit", "role"}
Before ==
    [origin |-> {},
     remember |-> {"origin"},
     authenticate |-> {"origin", "remember"},
     token |-> {"origin"},
     owner |-> {"token"},
     track |-> {"authenticate"},
     reject |-> {"authenticate", "track"},
     limit |-> {"origin", "authenticate", "track", "reject"},
     role |-> {"authenticate", "track", "reject"}]

Method == {"GET", "POST", "PUT", "DELETE"}

\* Of these routes, the ones behind RateLimitByIP.
Limited == {<<"login", "POST">>, <<"password", "PUT">>, <<"api-tokens", "POST">>}

\* page: where the browser was; says: the headers it sent of Origin, Referer
\* and Sec-Fetch-Site; authorization: None, "other", or the user whose token is
\* in a bearer header; roles: those of protectRole; scope: whether one is
\* required; scoped: whether the token has it; session and cookie: what the
\* browser has. A session's tracking: it carries no token (a login from before
\* EnableSessions, or one that was switched into from another guard), or the row
\* of its token is there, or it is gone (terminated, or never written).
Session == [user: User \cup {None}, stamped: BOOLEAN,
            tracking: {"none", "row", "gone"}, marked: BOOLEAN]
Request == [guard: Guard, route: Route, method: Method,
            page: {"host", "trusted", "foreign"},
            says: SUBSET {"origin", "referer", "fetchSite"},
            authorization: User \cup {None, "other"},
            roles: SUBSET Role, scope: BOOLEAN, scoped: BOOLEAN,
            session: Session, cookie: User \cup {None}]

Row == [role: Role, disabled: BOOLEAN]

\* A session's login of a guard is for one of the guard's users.
ASSUME RequestsAssumption ==
    /\ {None, "other"} \cap User = {} /\ Gone \notin Row
    /\ DefaultGuard \in Guard /\ MaxChanges \in Nat
    /\ Rows \subseteq [User -> Row \cup {Gone}]
    /\ Requests \subseteq Request
    /\ \A r \in Requests : r.session.user # None => GuardOf[r.session.user] = r.guard

\* isSafeMethod
Safe(r) == r.method = "GET"

\* UnlessBearer: TrimSpace(Authorization) is not empty.
SkipsBrowserChecks(r) == r.authorization # None

\* Faulty: only a bearer header makes it a bearer request.
UsesBearerScheme(r) == r.authorization \in User

\* AuthenticateAny
UsesBearer(r) == r.authorization # None

PackageChain(o, route, method) ==
    (IF o.csrf THEN {"origin"} ELSE {})
    \cup (IF <<route, method>> \in Limited THEN {"limit"} ELSE {})
    \cup (IF route \notin Guarded THEN {}
          ELSE {"authenticate"}
               \cup (IF o.remember THEN {"remember"} ELSE {})
               \cup (IF o.sessions THEN {"track"} ELSE {})
               \cup (IF \/ route = "impersonate"
                        \/ route \in Sensitive /\ o.impersonation /\ ~o.sensitive
                     THEN {"reject"} ELSE {})
               \cup (IF route \in Management THEN {"role"} ELSE {}))

HostChain(r) ==
    LET o == OptionsByGuard(r.guard)
        origin == IF o.csrf THEN {"origin"} ELSE {} IN
    CASE r.route = "protect" -> origin \cup {"authenticate"}
      [] r.route = "protectRole" -> origin \cup {"authenticate", "role"}
      [] r.route = "protectToken" -> {"token", "owner"}
      [] r.route = "protectAny" ->
           (IF SkipsBrowserChecks(r) THEN {} ELSE origin)
           \cup (IF UsesBearer(r) THEN {"token", "owner"} ELSE {"authenticate"})

Chain(r) == IF r.route \in HostRoute THEN HostChain(r)
            ELSE PackageChain(mounted[r.guard], r.route, r.method)

\* The options whose tables the middleware of a request read.
ReadOptions(r) == IF r.route \in HostRoute THEN OptionsByGuard(r.guard) ELSE mounted[r.guard]

-----------------------------------------------------------------------------
(* Boot *)

NoSession == [user |-> None, stamped |-> FALSE, tracking |-> "none", marked |-> FALSE]

NoRequest ==
    [guard |-> DefaultGuard, route |-> "meta", method |-> "GET", page |-> "host",
     says |-> {}, authorization |-> None, roles |-> {}, scope |-> FALSE,
     scoped |-> FALSE, session |-> NoSession, cookie |-> None]

Init ==
    /\ conf \in Confs
    /\ mounted = <<>>
    /\ migrated = {}
    /\ rows \in Rows
    /\ tokens = User
    /\ req = NoRequest
    /\ todo = {}
    /\ actor = None
    /\ outcome = "idle"
    /\ changes = 0
    /\ held = {} /\ always = {} /\ failed = {}

\* ServiceProvider.Boot registers the migrations, which the host runs.
Boot ==
    /\ migrated = {}
    /\ migrated' = UNION {{UsersTable(o), TokensTable(o)} : o \in GuardOptions(conf)}
    /\ UNCHANGED <<conf, mounted, world, progress, changes, held, always>>

\* RegisterAll, from the host's routing callback. A default fills what is empty.
RegisterAll ==
    /\ migrated # {} /\ mounted = <<>>
    /\ mounted' = [g \in {o.guard : o \in GuardOptions(conf)} |->
                     CHOOSE o \in GuardOptions(conf) : o.guard = g]
    /\ UNCHANGED <<conf, migrated, world, progress, changes, held, always>>

-----------------------------------------------------------------------------
(* What is true, whatever the middleware found *)

RowOf(u) == IF u \in User THEN rows[u] ELSE Gone
IsActive(u) == RowOf(u) # Gone /\ ~RowOf(u).disabled
HasRole(u, roles) == RowOf(u) # Gone /\ RowOf(u).role \in roles

Fact == {"origin", "login", "active", "unterminated", "unmarked", "manager", "role",
         "token", "owner", "scope"}

\* Of the request in flight.
Facts ==
    LET u == req.session.user
        t == req.authorization IN
    {f \in Fact :
        CASE f = "origin" -> \/ Safe(req)
                             \/ req.page = "host" /\ req.says # {}
                             \/ req.page = "trusted" /\ req.says \cap {"origin", "referer"} # {}
          [] f = "login" -> RowOf(u) # Gone /\ req.session.stamped
          [] f = "active" -> IsActive(u)
          [] f = "unterminated" -> req.session.tracking # "gone"
          [] f = "unmarked" -> ~req.session.marked
          [] f = "manager" -> LET roles == mounted[req.guard].roles IN
                              HasRole(u, IF roles = {} THEN {AdminRole} ELSE roles)
          [] f = "role" -> req.roles = {} \/ HasRole(u, req.roles)
          [] f = "token" -> /\ mounted[req.guard].tokens
                             /\ t \in tokens /\ GuardOf[t] = req.guard
          [] f = "owner" -> IsActive(t)
          [] f = "scope" -> req.scoped}

\* What a request's route promises, by the options its guard is mounted with.
Required ==
    LET o == mounted[req.guard]
        byToken == \/ req.route = "protectToken"
                   \/ req.route = "protectAny" /\ req.authorization # None IN
    (IF o.csrf /\ ~byToken THEN {"origin"} ELSE {})
    \cup (IF byToken THEN {"token", "owner"} ELSE {})
    \cup (IF byToken /\ req.scope THEN {"scope"} ELSE {})
    \cup (IF byToken \/ req.route \in Public THEN {} ELSE {"login", "active"})
    \cup (IF req.route \in Guarded /\ o.sessions THEN {"unterminated"} ELSE {})
    \cup (IF \/ req.route = "impersonate"
             \/ req.route \in Sensitive /\ o.impersonation /\ ~o.sensitive
          THEN {"unmarked"} ELSE {})
    \cup (IF req.route \in Management THEN {"manager"} ELSE {})
    \cup (IF req.route = "protectRole" THEN {"role"} ELSE {})

\* Every step of a request that is still under way adds what holds after it.
History ==
    IF outcome' = "none"
    THEN /\ held' = IF outcome = "idle" THEN Facts' ELSE held \cup Facts'
         /\ always' = IF outcome = "idle" THEN Facts' ELSE always \cap Facts'
    ELSE UNCHANGED <<held, always>>

-----------------------------------------------------------------------------
(* A request *)

Receive(r) ==
    /\ outcome = "idle"
    /\ r.guard \in DOMAIN mounted
    /\ r.route \in Mounts(mounted[r.guard]) \cup HostRoute
    /\ req' = r
    /\ todo' = Chain(r)
    /\ actor' = None
    /\ outcome' = "none"
    /\ failed' = {}
    /\ UNCHANGED <<wiring, world, changes>>
    /\ History

\* m is the next middleware.
Runs(m) == outcome = "none" /\ m \in todo /\ Before[m] \cap todo = {}

Pass(m) ==
    /\ todo' = todo \ {m}
    /\ UNCHANGED outcome

\* Faulty: the response is written and the chain goes on.
RefuseWithoutAbort(how) ==
    /\ \E m \in todo : Before[m] \cap todo = {} /\ todo' = todo \ {m}
    /\ outcome' = how

Refuse(how) ==
    /\ todo' = {}
    /\ outcome' = how

Others == UNCHANGED <<wiring, world, changes>> /\ History

\* What belongs to a user is found only in the table of the user's guard.
FindByID(table, u) ==
    IF GuardOf[u] \in DOMAIN mounted /\ table = UsersTable(mounted[GuardOf[u]])
    THEN rows[u] ELSE Gone

\* FindBySelector, and whether the token is active
HasToken(table, u) ==
    /\ u \in tokens
    /\ GuardOf[u] \in DOMAIN mounted /\ table = TokensTable(mounted[GuardOf[u]])

\* A statement answers, fails, or has no table to read.
Answers(table) == table \in migrated /\ UNCHANGED failed
Fails(m, table) ==
    \/ table \notin migrated /\ UNCHANGED failed
    \/ failed' = failed \cup {m}

\* The first header that is there decides.
Allowed(page, says) ==
    IF says \cap {"origin", "referer"} # {} THEN page \in {"host", "trusted"}
    ELSE "fetchSite" \in says /\ page = "host"

Origin ==
    /\ Runs("origin")
    /\ IF Safe(req) \/ Allowed(req.page, req.says) THEN Pass("origin") ELSE Refuse("refused")
    /\ UNCHANGED <<req, actor, failed>>
    /\ Others

\* A login puts a new token into the session, whether or not its row is written.
TrackingAfter(o, session) == IF o.sessions THEN {"row", "gone"} ELSE {session.tracking}

\* Whatever goes wrong, the request goes on without a login.
RememberLogin ==
    LET u == req.cookie IN
    /\ Runs("remember")
    /\ Pass("remember")
    /\ IF req.session.user = None /\ u # None
       THEN \/ /\ UsersTable(ReadOptions(req)) \in migrated
               /\ LET row == FindByID(UsersTable(ReadOptions(req)), u) IN
                  row # Gone /\ ~row.disabled
               /\ \E tracking \in TrackingAfter(ReadOptions(req), req.session) :
                     req' = [req EXCEPT !.session.user = u, !.session.stamped = TRUE,
                                        !.session.tracking = tracking]
            \/ req' = [req EXCEPT !.cookie = None]
       ELSE UNCHANGED req
    /\ UNCHANGED <<actor, failed>>
    /\ Others

Authenticate ==
    LET u == req.session.user
        table == UsersTable(ReadOptions(req)) IN
    /\ Runs("authenticate")
    /\ \/ /\ u = None
          /\ Refuse("refused")
          /\ UNCHANGED <<req, actor, failed>>
       \/ /\ u # None /\ Fails("authenticate", table)
          /\ Refuse("refused")
          /\ UNCHANGED <<req, actor>>
       \/ /\ u # None /\ Answers(table)
          /\ LET row == FindByID(table, u) IN
             IF row # Gone /\ ~row.disabled /\ req.session.stamped
             THEN Pass("authenticate") /\ actor' = u /\ UNCHANGED req
             ELSE /\ Refuse("refused")
                  /\ req' = IF row = Gone THEN req ELSE [req EXCEPT !.session.user = None]
                  /\ UNCHANGED actor
    /\ Others

\* APITokens.Resolve
BearerToken ==
    LET t == req.authorization
        o == ReadOptions(req)
        table == TokensTable(o) IN
    /\ Runs("token")
    /\ IF ~o.tokens \/ t \notin User
       THEN Refuse("refused") /\ UNCHANGED failed
       ELSE \/ Fails("token", table) /\ Refuse("unavailable")
            \/ /\ Answers(table)
               /\ IF HasToken(table, t)
                  THEN Pass("token") ELSE Refuse("refused")
    /\ UNCHANGED <<req, actor>>
    /\ Others

\* The rest of BearerAuthenticated.
Owner ==
    LET t == req.authorization
        table == UsersTable(ReadOptions(req)) IN
    /\ Runs("owner")
    /\ \/ /\ Fails("owner", table)
          /\ Refuse("unavailable")
          /\ UNCHANGED actor
       \/ /\ Answers(table)
          /\ LET row == FindByID(table, t) IN
             IF row # Gone /\ ~row.disabled /\ (req.scope => req.scoped)
             THEN Pass("owner") /\ actor' = t
             ELSE Refuse("refused") /\ UNCHANGED actor
    /\ UNCHANGED req
    /\ Others

\* Faulty: a session without a token passes for one whose row is gone.
AliveWithRow(session) == session.tracking = "row"

\* Touch answers TRUE for a session that carries no token.
Alive(session) == session.tracking # "gone"

\* TrackSession lets a request pass when it cannot tell.
Track ==
    /\ Runs("track")
    /\ \/ /\ failed' = failed \cup {"track"}
          /\ Pass("track")
          /\ UNCHANGED req
       \/ /\ UNCHANGED failed
          /\ IF Alive(req.session)
             THEN Pass("track") /\ UNCHANGED req
             ELSE Refuse("refused") /\ req' = [req EXCEPT !.session.user = None]
    /\ UNCHANGED actor
    /\ Others

\* RejectWhileImpersonating
Reject ==
    /\ Runs("reject")
    /\ IF req.session.marked THEN Refuse("refused") ELSE Pass("reject")
    /\ UNCHANGED <<req, actor, failed>>
    /\ Others

\* RateLimitByIP: the count is another module's. A limiter that fails lets
\* nothing through.
Limit ==
    /\ Runs("limit")
    /\ \/ (Pass("limit") \/ Refuse("limited")) /\ UNCHANGED failed
       \/ Refuse("unavailable") /\ failed' = failed \cup {"limit"}
    /\ UNCHANGED <<req, actor>>
    /\ Others

\* RequireRole. Nothing to ask for is nothing to refuse.
RequireRole ==
    LET o == ReadOptions(req)
        table == UsersTable(o)
        allowed == IF req.route \in HostRoute THEN req.roles ELSE ManagementRoles(o) IN
    /\ Runs("role")
    /\ \/ allowed = {} /\ Pass("role") /\ UNCHANGED failed
       \/ allowed # {} /\ Fails("role", table) /\ Refuse("refused")
       \/ /\ allowed # {} /\ Answers(table)
          /\ LET row == FindByID(table, actor) IN
             IF row # Gone /\ row.role \in allowed THEN Pass("role") ELSE Refuse("refused")
    /\ UNCHANGED <<req, actor>>
    /\ Others

Serve ==
    /\ outcome = "none" /\ todo = {}
    /\ outcome' = "served"
    /\ UNCHANGED <<wiring, world, req, todo, actor, changes, failed>>
    /\ History

Respond ==
    /\ outcome \notin {"idle", "none"}
    /\ outcome' = "idle"
    /\ req' = NoRequest
    /\ actor' = None
    /\ todo' = {}
    /\ held' = {} /\ always' = {} /\ failed' = {}
    /\ UNCHANGED <<wiring, world, changes>>

-----------------------------------------------------------------------------
(* Other requests change what this one reads *)

Changing ==
    /\ outcome = "none" /\ changes < MaxChanges
    /\ changes' = changes + 1
    /\ UNCHANGED <<wiring, todo, actor, outcome, failed>>

\* A role or a lock, or the row is gone.
ChangeRow(u) ==
    /\ Changing
    /\ rows[u] # Gone
    /\ \E row \in Row \cup {Gone} : row # rows[u] /\ rows' = [rows EXCEPT ![u] = row]
    /\ UNCHANGED <<tokens, req>>
    /\ History

RevokeToken(u) ==
    /\ Changing
    /\ u \in tokens
    /\ tokens' = tokens \ {u}
    /\ UNCHANGED <<rows, req>>
    /\ History

\* Its user's password changes, or it is terminated from the list of sessions,
\* in which only a session with a row is shown.
SpoilSession ==
    /\ Changing
    /\ req.session.user # None
    /\ \/ req.session.stamped /\ req' = [req EXCEPT !.session.stamped = FALSE]
       \/ /\ req.session.tracking = "row"
          /\ req' = [req EXCEPT !.session.tracking = "gone"]
    /\ UNCHANGED world
    /\ History

Next ==
    \/ Boot \/ RegisterAll
    \/ \E r \in Requests : Receive(r)
    \/ Origin \/ RememberLogin \/ Authenticate \/ BearerToken \/ Owner
    \/ Track \/ Reject \/ Limit \/ RequireRole
    \/ Serve \/ Respond
    \/ \E u \in User : ChangeRow(u) \/ RevokeToken(u)
    \/ SpoilSession

Spec == Init /\ [][Next]_vars

-----------------------------------------------------------------------------
(* Properties *)

\* Every variable has its type, and a request that has been answered has no
\* middleware left to pass: each refusal aborts the chain.
TypeOK ==
    /\ conf \in Confs
    /\ mounted = <<>> \/ \A g \in DOMAIN mounted : mounted[g] \in Options
    /\ migrated \in SUBSET Table
    /\ rows \in [User -> Row \cup {Gone}]
    /\ tokens \in SUBSET User
    /\ req \in Request
    /\ todo \in SUBSET Middleware
    /\ actor \in User \cup {None}
    /\ outcome \in {"idle", "none", "served", "refused", "limited", "unavailable"}
    /\ outcome # "none" => todo = {}
    /\ changes \in 0 .. MaxChanges
    /\ held \in SUBSET Fact /\ always \in SUBSET held
    /\ failed \in SUBSET Middleware

\* What the routes promise is what decides: a request that reaches its handler
\* had, each at some moment on the way, every fact its route requires by the
\* options its guard is mounted with, but that a session whose tracking token has
\* no row is served when the look for the row failed; and a request is refused,
\* or told that the service is unavailable, only when a fact it requires was
\* missing at some moment or a statement failed.  The options are resolved once
\* for the routes and again for the host's, an empty list of management roles
\* must not open the routes it guards, a session that carries no tracking token
\* is not one that was terminated, and two middleware of protectAny decide
\* separately whether a request is a browser's.
DecidedByPolicy ==
    /\ outcome = "served" =>
         Required \subseteq held \cup (IF "track" \in failed THEN {"unterminated"} ELSE {})
    /\ outcome = "refused" /\ failed = {} =>
         ~(Required \subseteq always)
    /\ outcome = "unavailable" => failed # {}

=============================================================================
