----------------------------- MODULE MCGateway ------------------------------
(***************************************************************************)
(* Two guards, with one user each that a request comes from and one more   *)
(* for the guard that most requests are for.  The configurations are those *)
(* that differ in what is resolved: one guard with default tables, one     *)
(* with names of its own, two guards whose names are derived or given.     *)
(***************************************************************************)
EXTENDS Gateway

CONSTANTS admin, client, u1, u2, u3, roleAdmin, roleStaff

MCGuardOf == (u1 :> admin) @@ (u2 :> admin) @@ (u3 :> client)
MCUsersTableFor == (admin :> "admin_users") @@ (client :> "client_users")
MCTokensTableFor == (admin :> "admin_api_tokens") @@ (client :> "client_api_tokens")
MCTable == {"users", "api_tokens", "accounts", "admin_users", "client_users",
            "admin_api_tokens", "client_api_tokens"}

MCConfs ==
    { [top |-> <<>>, guards |-> <<>>],
      [top |-> [tokens |-> TRUE, usersTable |-> "accounts", roles |-> {}],
       guards |-> <<>>],
      [top |-> [impersonation |-> TRUE, tokens |-> TRUE, csrf |-> FALSE, sessions |-> FALSE],
       guards |-> (admin :> <<>>)
                  @@ (client :> [usersTable |-> "accounts",
                                 tokensTable |-> "admin_api_tokens"])],
      [top |-> [impersonation |-> TRUE, remember |-> FALSE, audit |-> FALSE],
       guards |-> (admin :> [tokens |-> TRUE, sensitive |-> TRUE, roles |-> {roleStaff}])
                  @@ (client :> [tokensTable |-> "api_tokens", tokens |-> TRUE,
                                 management |-> FALSE])] }

Active(role) == [role |-> role, disabled |-> FALSE]
MCRows ==
    { (u1 :> Active(roleAdmin)) @@ (u2 :> Active(roleStaff)) @@ (u3 :> Active(roleAdmin)),
      (u1 :> [role |-> roleAdmin, disabled |-> TRUE]) @@ (u2 :> Gone)
        @@ (u3 :> Active(roleStaff)) }

Methods(route) ==
    CASE route \in {"login", "impersonate", "impersonate/stop"} -> {"POST"}
      [] route = "password" -> {"PUT"}
      [] route \in {"meta", "admin/logins"} -> {"GET"}
      [] route = "api-tokens" -> {"GET", "POST", "DELETE"}
      [] OTHER -> {"GET", "POST"}

Base == [NoRequest EXCEPT !.says = {"origin"}]
LoggedIn(u) == [user |-> u, stamped |-> TRUE, tracking |-> "row", marked |-> FALSE]

\* Each of these varies what it is named for.
FromPages ==
    {[Base EXCEPT !.route = route, !.method = method, !.page = page, !.says = says, !.authorization = auth,
                  !.session = LoggedIn(u1)] :
        route \in {"login", "users", "protect", "protectAny"}, method \in {"GET", "POST"},
        page \in {"host", "trusted", "foreign"},
        says \in SUBSET {"origin", "referer", "fetchSite"}, auth \in {None, "other"}}

OfSessions ==
    {[Base EXCEPT !.guard = IF u = u3 THEN client ELSE admin, !.route = route,
                  !.method = method, !.session = s, !.roles = IF route = "protectRole" THEN roles ELSE {}] :
        u \in User, route \in Route \ {"protectToken"}, method \in Method,
        s \in [user : User, stamped : BOOLEAN, tracking : {"none", "row", "gone"},
              marked : BOOLEAN],
        roles \in {{}, {roleStaff}}}

OfCookies ==
    {[Base EXCEPT !.guard = GuardOf[u], !.route = route, !.method = method, !.cookie = u] :
        u \in User, route \in Route \ {"protectToken"}, method \in Method}

OfTokens ==
    {[Base EXCEPT !.guard = guard, !.route = route, !.method = "POST", !.authorization = auth,
                  !.scope = scope, !.scoped = scoped, !.page = "foreign",
                  !.session = [LoggedIn(u1) EXCEPT !.user = user]] :
        guard \in Guard, route \in {"protectToken", "protectAny"},
        auth \in User \cup {None, "other"}, scope \in BOOLEAN, scoped \in BOOLEAN,
        user \in {None, u1}}

MCRequests ==
    {r \in FromPages \cup OfSessions \cup OfCookies \cup OfTokens :
        /\ r.method \in Methods(r.route)
        /\ r.session.user \in User => GuardOf[r.session.user] = r.guard}

=============================================================================
