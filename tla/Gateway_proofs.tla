--------------------------- MODULE Gateway_proofs ----------------------------
(***************************************************************************)
(* What decides over the requests of Gateway, for any guards, tables,      *)
(* users, roles, configurations and requests.                              *)
(***************************************************************************)
EXTENDS Gateway, TLAPS

-----------------------------------------------------------------------------
(* The inductive invariant *)

\* The options of the guard a request is for.
Opts == mounted[req.guard]

ByToken ==
    \/ req.route = "protectToken"
    \/ req.route = "protectAny" /\ req.authorization # None

\* A guard's routes are mounted with the options that the host's routes resolve,
\* and its tables are there.
Mounted ==
    /\ migrated # {} =>
          \A o \in GuardOptions(conf) : {UsersTable(o), TokensTable(o)} \subseteq migrated
    /\ \A g \in DOMAIN mounted :
          /\ mounted[g] \in GuardOptions(conf) /\ mounted[g].guard = g
          /\ mounted[g] = OptionsByGuard(g)
          /\ {UsersTable(mounted[g]), TokensTable(mounted[g])} \subseteq migrated
    /\ outcome # "idle" => req.guard \in DOMAIN mounted

\* u's row is in the users table of the guard the request is for.
SameUsersTable(u) ==
    /\ GuardOf[u] \in DOMAIN mounted
    /\ UsersTable(mounted[GuardOf[u]]) = UsersTable(Opts)

\* What history says of a request under way is true of this moment.
Underway ==
    outcome = "none" =>
       /\ todo \subseteq Chain(req)
       /\ always \subseteq Facts /\ Facts \subseteq held
       /\ req.session.user # None => SameUsersTable(req.session.user)

\* What is known when the middleware m has let the request pass. That a token was
\* active is known, but not yet whose guard it is for.
Passed(m) ==
    /\ m = "origin" => "origin" \in held
    /\ m = "authenticate" =>
          {"login", "active"} \subseteq held /\ actor = req.session.user /\ actor # None
    /\ m = "track" => "unterminated" \in held \/ "track" \in failed
    /\ m = "reject" => "unmarked" \in held
    /\ m = "role" => (IF req.route \in HostRoute THEN "role" ELSE "manager") \in held
    /\ m = "token" =>
          /\ req.authorization \in User
          /\ GuardOf[req.authorization] \in DOMAIN mounted
          /\ TokensTable(mounted[GuardOf[req.authorization]]) = TokensTable(Opts)
          /\ GuardOf[req.authorization] = req.guard => "token" \in held
    /\ m = "owner" =>
          {"owner", "token"} \subseteq held /\ (req.scope => "scope" \in held)

PassedAll == outcome = "none" => \A m \in Chain(req) \ todo : Passed(m)

IInv ==
    /\ TypeOK
    /\ Mounted
    /\ Underway
    /\ PassedAll
    /\ DecidedByPolicy

-----------------------------------------------------------------------------
(* Facts, requirements and chains, one by one *)

LEMMA FactsShape ==
    LET u == req.session.user
        t == req.authorization IN
    /\ Facts \subseteq Fact
    /\ "origin" \in Facts <=>
          \/ Safe(req)
          \/ req.page = "host" /\ req.says # {}
          \/ req.page = "trusted" /\ req.says \cap {"origin", "referer"} # {}
    /\ "login" \in Facts <=> RowOf(u) # Gone /\ req.session.stamped
    /\ "active" \in Facts <=> IsActive(u)
    /\ "unterminated" \in Facts <=> req.session.tracking # "gone"
    /\ "unmarked" \in Facts <=> ~req.session.marked
    /\ "manager" \in Facts <=> HasRole(u, IF Opts.roles = {} THEN {AdminRole} ELSE Opts.roles)
    /\ "role" \in Facts <=> req.roles = {} \/ HasRole(u, req.roles)
    /\ "token" \in Facts <=> Opts.tokens /\ t \in tokens /\ GuardOf[t] = req.guard
    /\ "owner" \in Facts <=> IsActive(t)
    /\ "scope" \in Facts <=> req.scoped
BY DEF Facts, Fact, Opts

LEMMA RequiredShape ==
    LET o == Opts IN
    /\ Required \subseteq Fact
    /\ "origin" \in Required <=> o.csrf /\ ~ByToken
    /\ "token" \in Required <=> ByToken
    /\ "owner" \in Required <=> ByToken
    /\ "scope" \in Required <=> ByToken /\ req.scope
    /\ "login" \in Required <=> ~ByToken /\ req.route \notin Public
    /\ "active" \in Required <=> ~ByToken /\ req.route \notin Public
    /\ "unterminated" \in Required <=> req.route \in Guarded /\ o.sessions
    /\ "unmarked" \in Required <=>
          \/ req.route = "impersonate"
          \/ req.route \in Sensitive /\ o.impersonation /\ ~o.sensitive
    /\ "manager" \in Required <=> req.route \in Management
    /\ "role" \in Required <=> req.route = "protectRole"
BY DEF Required, Fact, Opts, ByToken

\* The routes mount their middleware by the options that decide what they require.
LEMMA ChainShape ==
    ASSUME IInv, outcome = "none"
    PROVE  LET o == Opts IN
           /\ Chain(req) \subseteq Middleware
           /\ "origin" \in Chain(req) <=> o.csrf /\ ~ByToken
           /\ "token" \in Chain(req) <=> ByToken
           /\ "owner" \in Chain(req) <=> ByToken
           /\ "authenticate" \in Chain(req) <=> ~ByToken /\ req.route \notin Public
           /\ "track" \in Chain(req) <=> req.route \in Guarded /\ o.sessions
           /\ "reject" \in Chain(req) <=>
                 \/ req.route = "impersonate"
                 \/ req.route \in Sensitive /\ o.impersonation /\ ~o.sensitive
           /\ "role" \in Chain(req) <=> req.route \in Management \cup {"protectRole"}
<1>1. req.route \in Route /\ OptionsByGuard(req.guard) = Opts
    BY DEF IInv, TypeOK, Request, Mounted, Opts
<1>2. CASE req.route \in HostRoute
    BY <1>1, <1>2 DEF Chain, HostChain, SkipsBrowserChecks, UsesBearer, ByToken, Middleware,
       HostRoute, Public, Guarded, Sensitive, Management
<1>3. CASE req.route \notin HostRoute
    BY <1>1, <1>3 DEF Chain, PackageChain, ByToken, Middleware, Opts,
       Route, HostRoute, Public, Guarded, Sensitive, Management
<1> QED
    BY <1>2, <1>3

LEMMA ReadOptionsAre ==
    ASSUME IInv, outcome = "none"
    PROVE  /\ ReadOptions(req) = Opts /\ req.guard \in DOMAIN mounted
           /\ UsersTable(Opts) \in migrated /\ TokensTable(Opts) \in migrated
BY DEF IInv, Mounted, ReadOptions, Opts

-----------------------------------------------------------------------------
(* Steps of a request under way *)

\* What a request was when it came, as far as its chain depends on it.
SameRequest ==
    /\ req'.guard = req.guard /\ req'.route = req.route /\ req'.method = req.method
    /\ req'.authorization = req.authorization /\ req'.scope = req.scope

LEMMA SameChain ==
    ASSUME UNCHANGED wiring, SameRequest
    PROVE  /\ Chain(req)' = Chain(req)
           /\ Required' = Required
           /\ Opts' = Opts
           /\ \A u : SameUsersTable(u)' <=> SameUsersTable(u)
<1>1. conf' = conf /\ mounted' = mounted
    BY DEF wiring
<1>2. Opts' = Opts
    BY <1>1 DEF Opts, SameRequest
<1>3. Required' = Required
    BY <1>1 DEF Required, SameRequest
<1>4. OptionsByGuard(req.guard)' = OptionsByGuard(req.guard)
    BY <1>1 DEF OptionsByGuard, SameRequest
<1>5. HostChain(req)' = HostChain(req)
    BY <1>4 DEF HostChain, SkipsBrowserChecks, UsesBearer, SameRequest
<1>6. Chain(req)' = Chain(req)
    BY <1>1, <1>5 DEF Chain, PackageChain, SameRequest
<1> QED
    BY <1>1, <1>2, <1>3, <1>6 DEF SameUsersTable

LEMMA StepKeeps ==
    ASSUME IInv, outcome = "none", outcome' = "none", UNCHANGED wiring, SameRequest,
           req' \in Request, actor' \in User \cup {None},
           rows' \in [User -> Row \cup {Gone}], tokens' \in SUBSET User,
           changes' \in 0 .. MaxChanges,
           failed' \in SUBSET Middleware, failed \subseteq failed',
           todo' \subseteq todo, History,
           req'.session.user # None => SameUsersTable(req'.session.user),
           "authenticate" \in Chain(req) \ todo =>
              actor' = actor /\ req'.session.user = req.session.user,
           \A m \in todo \ todo' : Passed(m)'
    PROVE  IInv'
<1>1. /\ Chain(req)' = Chain(req) /\ Opts' = Opts
      /\ \A u : SameUsersTable(u)' <=> SameUsersTable(u)
    BY SameChain
<1>2. conf' = conf /\ mounted' = mounted /\ migrated' = migrated
    BY DEF wiring
<1>3. held' = held \cup Facts' /\ always' = always \cap Facts'
    BY DEF History
<1>4. TypeOK'
  <2>1. Facts' \subseteq Fact
      BY DEF Facts
  <2> QED
      BY <1>2, <1>3, <2>1 DEF IInv, TypeOK
<1>5. Mounted'
  <2>1. \A g : OptionsByGuard(g)' = OptionsByGuard(g)
      BY <1>2 DEF OptionsByGuard
  <2> QED
      BY <1>2, <2>1 DEF IInv, Mounted, SameRequest
<1>6. Underway'
  <2>1. todo' \subseteq Chain(req)'
      BY <1>1 DEF IInv, Underway
  <2>2. req'.session.user # None => SameUsersTable(req.session.user)'
      <3>1. SameUsersTable(req'.session.user) => SameUsersTable(req.session.user)'
          BY <1>1, <1>2 DEF SameUsersTable
      <3> QED
          BY <3>1
  <2> QED
      BY <1>3, <2>1, <2>2 DEF Underway
<1>7. PassedAll'
  <2> SUFFICES ASSUME NEW m \in Chain(req) \ todo' PROVE Passed(m)'
      BY <1>1 DEF PassedAll
  <2>1. CASE m \in todo
      BY <2>1
  <2>2. CASE m \notin todo
    <3>1. Passed(m)
        BY <2>2 DEF IInv, PassedAll
    <3> QED
        BY <3>1, <2>2, <1>1, <1>2, <1>3 DEF Passed, SameRequest
  <2> QED
      BY <2>1, <2>2
<1>8. DecidedByPolicy'
    BY DEF DecidedByPolicy
<1> QED
    BY <1>4, <1>5, <1>6, <1>7, <1>8 DEF IInv

\* An answer in place of the handler's.
LEMMA RefuseKeeps ==
    ASSUME IInv, outcome = "none",
           NEW how \in {"refused", "limited", "unavailable"}, Refuse(how), Others,
           SameRequest, req' \in Request, actor' = actor, UNCHANGED world,
           failed' \in SUBSET Middleware,
           how = "refused" /\ failed' = {} => \E f \in Required : f \notin Facts,
           how = "unavailable" => failed' # {}
    PROVE  IInv'
<1>1. outcome' = how /\ todo' = {} /\ UNCHANGED <<wiring, world, changes, held, always>>
    BY DEF Refuse, Others, History
<1>2. conf' = conf /\ mounted' = mounted /\ migrated' = migrated
    BY <1>1 DEF wiring
<1>3. Required' = Required
    BY <1>1, SameChain
<1>4. TypeOK'
    BY <1>1, <1>2 DEF IInv, TypeOK, world
<1>5. Mounted'
  <2>1. \A g : OptionsByGuard(g)' = OptionsByGuard(g)
      BY <1>2 DEF OptionsByGuard
  <2> QED
      BY <1>1, <1>2, <2>1 DEF IInv, Mounted, SameRequest
<1>6. Underway' /\ PassedAll'
    BY <1>1 DEF Underway, PassedAll
<1>7. DecidedByPolicy'
  <2>1. always \subseteq Facts
      BY DEF IInv, Underway
  <2> QED
      BY <1>1, <1>3, <2>1 DEF DecidedByPolicy
<1> QED
    BY <1>4, <1>5, <1>6, <1>7 DEF IInv

-----------------------------------------------------------------------------
(* Each middleware *)

\* A request's middleware, in their order.
LEMMA Ordered ==
    ASSUME IInv, NEW m \in Middleware, Runs(m)
    PROVE  /\ outcome = "none" /\ m \in todo /\ m \in Chain(req)
           /\ \A n \in Before[m] : n \in Chain(req) => Passed(n)
BY DEF Runs, IInv, Underway, PassedAll, TypeOK

\* A session's user and the row that is found for it.
LEMMA RowFound ==
    ASSUME IInv, outcome = "none", NEW u \in User, SameUsersTable(u)
    PROVE  FindByID(UsersTable(Opts), u) = RowOf(u)
BY DEF SameUsersTable, FindByID, RowOf

\* One that lets the request pass, and changes neither it nor what is known of it.
LEMMA PassKeeps ==
    ASSUME IInv, NEW m \in Middleware, Runs(m), Pass(m), Others, UNCHANGED <<world, req, actor>>,
           failed' \in SUBSET Middleware, failed \subseteq failed', Passed(m)'
    PROVE  IInv'
<1>1. outcome = "none" /\ outcome' = "none" /\ todo' = todo \ {m}
    BY DEF Runs, Pass
<1>2. UNCHANGED wiring /\ changes' = changes /\ History /\ SameRequest
    BY DEF Others, SameRequest
<1>3. /\ req' \in Request /\ actor' \in User \cup {None}
      /\ rows' \in [User -> Row \cup {Gone}] /\ tokens' \in SUBSET User
      /\ changes' \in 0 .. MaxChanges
    BY <1>2 DEF IInv, TypeOK, world
<1>4. req'.session.user # None => SameUsersTable(req'.session.user)
    BY <1>1 DEF IInv, Underway
<1>5. "authenticate" \in Chain(req) \ todo =>
         actor' = actor /\ req'.session.user = req.session.user
    OBVIOUS
<1>6. todo' \subseteq todo /\ \A n \in todo \ todo' : Passed(n)'
    BY <1>1
<1> QED
    BY <1>1, <1>2, <1>3, <1>4, <1>5, <1>6, StepKeeps

\* One that refuses it for a fact that is missing.
LEMMA MissingKeeps ==
    ASSUME IInv, NEW m \in Middleware, Runs(m), Refuse("refused"), Others,
           SameRequest, req' \in Request, UNCHANGED <<world, actor, failed>>,
           \E f \in Required : f \notin Facts
    PROVE  IInv'
<1>1. outcome = "none"
    BY DEF Runs
<1>2. failed' \in SUBSET Middleware
    BY DEF IInv, TypeOK
<1> QED
    BY <1>1, <1>2, RefuseKeeps

\* One whose statement fails.
LEMMA FailKeeps ==
    ASSUME IInv, NEW m \in Middleware, Runs(m),
           NEW how \in {"refused", "limited", "unavailable"}, Refuse(how), Others,
           UNCHANGED <<world, req, actor>>, failed' = failed \cup {m}
    PROVE  IInv'
<1>1. outcome = "none"
    BY DEF Runs
<1>2. failed' \in SUBSET Middleware /\ failed' # {}
    BY DEF IInv, TypeOK
<1>3. SameRequest /\ req' \in Request /\ actor' = actor
    BY DEF IInv, TypeOK, SameRequest
<1> QED
    BY <1>1, <1>2, <1>3, RefuseKeeps

LEMMA OriginKeeps ==
    ASSUME IInv, Origin
    PROVE  IInv'
<1>1. /\ Runs("origin") /\ Others /\ UNCHANGED <<req, actor, failed>>
      /\ "origin" \in Middleware
    BY DEF Origin, Middleware
<1>2. outcome = "none" /\ "origin" \in Chain(req)
    BY <1>1, Ordered
<1>3. UNCHANGED world /\ SameRequest /\ req' \in Request /\ req \in Request
    BY <1>1 DEF Others, SameRequest, IInv, TypeOK
<1>4. "origin" \in Required
    BY <1>2, ChainShape, RequiredShape
<1>5. CASE Safe(req) \/ Allowed(req.page, req.says)
  <2>1. Pass("origin")
      BY <1>5 DEF Origin
  <2>2. "origin" \in Facts
    <3>1. req.page \in {"host", "trusted", "foreign"} /\
          req.says \in SUBSET {"origin", "referer", "fetchSite"}
        BY <1>3 DEF Request
    <3> QED
        BY <1>5, <3>1, FactsShape DEF Allowed
  <2>3. "origin" \in held'
      BY <1>2, <1>1, <2>1, <2>2 DEF Others, History, Pass, IInv, Underway
  <2>4. Passed("origin")'
      BY <2>3 DEF Passed
  <2>5. failed' \in SUBSET Middleware /\ failed \subseteq failed'
      BY <1>1 DEF IInv, TypeOK
  <2> QED
      BY <1>1, <1>3, <2>1, <2>4, <2>5, PassKeeps
<1>6. CASE ~(Safe(req) \/ Allowed(req.page, req.says))
  <2>1. Refuse("refused")
      BY <1>6 DEF Origin
  <2>2. "origin" \notin Facts
    <3>1. req.page \in {"host", "trusted", "foreign"} /\
          req.says \in SUBSET {"origin", "referer", "fetchSite"}
        BY <1>3 DEF Request
    <3> QED
        BY <1>6, <3>1, FactsShape DEF Allowed
  <2>3. \E f \in Required : f \notin Facts
      BY <1>4, <2>2
  <2> QED
      BY <1>1, <1>3, <2>1, <2>3, MissingKeeps
<1> QED
    BY <1>5, <1>6

LEMMA RememberLoginKeeps ==
    ASSUME IInv, RememberLogin
    PROVE  IInv'
<1> DEFINE u == req.cookie
<1>1. Runs("remember") /\ Pass("remember") /\ Others /\ UNCHANGED <<actor, failed>>
    BY DEF RememberLogin
<1>2. outcome = "none" /\ outcome' = "none" /\ todo' = todo \ {"remember"}
    BY <1>1 DEF Runs, Pass
<1>3. UNCHANGED wiring /\ world' = world /\ changes' = changes /\ History
    BY <1>1 DEF RememberLogin, Others
<1>4. req \in Request /\ u \in User \cup {None} /\ req.session \in Session
    BY DEF IInv, TypeOK, Request
<1>5. \/ UNCHANGED req \/ req' = [req EXCEPT !.cookie = None]
      \/ /\ req.session.user = None /\ u # None /\ SameUsersTable(u)
         /\ \E tracking \in TrackingAfter(Opts, req.session) :
               req' = [req EXCEPT !.session.user = u, !.session.stamped = TRUE,
                                  !.session.tracking = tracking]
  <2>1. ReadOptions(req) = Opts
      BY <1>2, ReadOptionsAre
  <2>2. FindByID(UsersTable(Opts), u) # Gone => SameUsersTable(u)
      BY DEF FindByID, SameUsersTable
  <2> QED
      BY <2>1, <2>2 DEF RememberLogin
<1>6. /\ req' \in Request /\ SameRequest
      /\ req'.session.user # None => SameUsersTable(req'.session.user)
      /\ req.session.user # None => req'.session.user = req.session.user
  <2>1. CASE UNCHANGED req \/ req' = [req EXCEPT !.cookie = None]
      BY <2>1, <1>2, <1>4 DEF IInv, Underway, Request, SameRequest
  <2>2. CASE /\ req.session.user = None /\ u # None /\ SameUsersTable(u)
             /\ \E tracking \in TrackingAfter(Opts, req.session) :
                   req' = [req EXCEPT !.session.user = u, !.session.stamped = TRUE,
                                      !.session.tracking = tracking]
    <3>1. PICK tracking \in TrackingAfter(Opts, req.session) :
             req' = [req EXCEPT !.session.user = u, !.session.stamped = TRUE,
                                !.session.tracking = tracking]
        BY <2>2
    <3> DEFINE s == [req.session EXCEPT !.user = u, !.stamped = TRUE, !.tracking = tracking]
    <3>2. s \in Session /\ s.user = u
      <4>1. tracking \in {"none", "row", "gone"}
          BY <1>4 DEF TrackingAfter, Session
      <4> QED
          BY <4>1, <1>4 DEF Session
    <3>3. req' = [req EXCEPT !.session = s]
        BY <3>1, <1>4 DEF Request, Session
    <3> QED
        BY <3>2, <3>3, <2>2, <1>4 DEF Request, SameRequest
  <2> QED
      BY <1>5, <2>1, <2>2
<1>7. "authenticate" \in Chain(req) \ todo =>
         actor' = actor /\ req'.session.user = req.session.user
    BY <1>1, <1>2, <1>6 DEF IInv, PassedAll, Passed
<1>8. /\ actor' \in User \cup {None} /\ rows' \in [User -> Row \cup {Gone}]
      /\ tokens' \in SUBSET User /\ changes' \in 0 .. MaxChanges
      /\ failed' \in SUBSET Middleware /\ failed \subseteq failed'
    BY <1>1, <1>3 DEF IInv, TypeOK, world
<1>9. todo' \subseteq todo /\ \A m \in todo \ todo' : Passed(m)'
    BY <1>2 DEF Passed
<1> QED
    BY <1>2, <1>3, <1>6, <1>7, <1>8, <1>9, StepKeeps

LEMMA AuthenticateKeeps ==
    ASSUME IInv, Authenticate
    PROVE  IInv'
<1> DEFINE u == req.session.user
           row == FindByID(UsersTable(Opts), u)
<1>1. Runs("authenticate") /\ Others /\ "authenticate" \in Middleware
    BY DEF Authenticate, Middleware
<1>2. outcome = "none" /\ "authenticate" \in todo /\ "authenticate" \in Chain(req)
    BY <1>1, Ordered
<1>3. ReadOptions(req) = Opts /\ UsersTable(Opts) \in migrated
    BY <1>2, ReadOptionsAre
<1>4. "login" \in Required /\ "active" \in Required
    BY <1>2, ChainShape, RequiredShape
<1>5. UNCHANGED world /\ req \in Request /\ req.session \in Session /\ u \in User \cup {None}
  <2>1. UNCHANGED world
      BY <1>1 DEF Others
  <2>2. req \in Request
      BY DEF IInv, TypeOK
  <2>3. req.session \in Session
      BY <2>2 DEF Request
  <2> QED
      BY <2>1, <2>2, <2>3 DEF Session
<1>6. u # None => u \in User /\ SameUsersTable(u) /\ row = RowOf(u)
    BY <1>2, <1>5, RowFound DEF IInv, Underway
<1>7. CASE u = None /\ Refuse("refused") /\ UNCHANGED <<req, actor, failed>>
  <2>1. "login" \notin Facts
      BY <1>7, FactsShape, RequestsAssumption DEF RowOf
  <2>2. \E f \in Required : f \notin Facts
      BY <2>1, <1>4
  <2>3. SameRequest /\ req' \in Request
      BY <1>7, <1>5 DEF SameRequest
  <2> QED
      BY <1>1, <1>5, <1>7, <2>2, <2>3, MissingKeeps
<1>8. CASE /\ u # None /\ Fails("authenticate", UsersTable(Opts))
           /\ Refuse("refused") /\ UNCHANGED <<req, actor>>
  <2>1. failed' = failed \cup {"authenticate"}
      BY <1>8, <1>3 DEF Fails
  <2> QED
      BY <1>1, <1>5, <1>8, <2>1, FailKeeps
<1>9. CASE /\ u # None /\ UNCHANGED failed /\ row # Gone /\ ~row.disabled
           /\ req.session.stamped /\ Pass("authenticate") /\ actor' = u /\ UNCHANGED req
  <2>1. "login" \in Facts /\ "active" \in Facts
      BY <1>9, <1>6, FactsShape DEF IsActive
  <2>2. outcome' = "none" /\ todo' = todo \ {"authenticate"} /\ History /\ UNCHANGED wiring
      BY <1>1, <1>2, <1>9 DEF Pass, Others
  <2>3. {"login", "active"} \subseteq held'
      BY <2>1, <2>2, <1>2 DEF History, IInv, Underway
  <2>4. Passed("authenticate")'
      BY <2>3, <1>9 DEF Passed
  <2>5. \A m \in todo \ todo' : Passed(m)'
      BY <2>2, <2>4
  <2>6. /\ req' \in Request /\ SameRequest /\ actor' \in User \cup {None}
        /\ rows' \in [User -> Row \cup {Gone}] /\ tokens' \in SUBSET User
        /\ changes' \in 0 .. MaxChanges
        /\ failed' \in SUBSET Middleware /\ failed \subseteq failed'
      BY <1>9, <1>1, <1>5 DEF IInv, TypeOK, world, SameRequest, Others
  <2>7. req'.session.user # None => SameUsersTable(req'.session.user)
      BY <1>6, <1>9
  <2>8. "authenticate" \in Chain(req) \ todo =>
           actor' = actor /\ req'.session.user = req.session.user
      BY <1>2
  <2>9. todo' \subseteq todo
      BY <2>2
  <2> QED
      BY <1>2, <2>2, <2>5, <2>6, <2>7, <2>8, <2>9, StepKeeps
<1>10. CASE /\ u # None /\ UNCHANGED failed /\ Refuse("refused") /\ UNCHANGED actor
            /\ row = Gone \/ row.disabled \/ ~req.session.stamped
            /\ req' = IF row = Gone THEN req ELSE [req EXCEPT !.session.user = None]
  <2>1. "login" \notin Facts \/ "active" \notin Facts
      BY <1>10, <1>6, FactsShape DEF IsActive
  <2>2. \E f \in Required : f \notin Facts
      BY <2>1, <1>4
  <2>3. SameRequest /\ req' \in Request
    <3> DEFINE s == [req.session EXCEPT !.user = None]
    <3>1. s \in Session
        BY <1>5 DEF Session
    <3>2. req' = req \/ req' = [req EXCEPT !.session = s]
        BY <1>10, <1>5 DEF Request, Session
    <3> QED
        BY <3>1, <3>2, <1>5 DEF SameRequest, Request
  <2> QED
      BY <1>1, <1>5, <1>10, <2>2, <2>3, MissingKeeps
<1> QED
    BY <1>3, <1>7, <1>8, <1>9, <1>10 DEF Authenticate, Answers

LEMMA BearerTokenKeeps ==
    ASSUME IInv, BearerToken
    PROVE  IInv'
<1> DEFINE t == req.authorization
           table == TokensTable(Opts)
<1>1. /\ Runs("token") /\ Others /\ UNCHANGED <<req, actor>>
      /\ "token" \in Middleware
    BY DEF BearerToken, Middleware
<1>2. outcome = "none" /\ "token" \in Chain(req)
    BY <1>1, Ordered
<1>3. ReadOptions(req) = Opts /\ table \in migrated /\ req.guard \in DOMAIN mounted
    BY <1>2, ReadOptionsAre
<1>4. "token" \in Required
    BY <1>2, ChainShape, RequiredShape
<1>5. UNCHANGED world /\ SameRequest /\ req' \in Request
    BY <1>1 DEF Others, SameRequest, IInv, TypeOK
<1>6. tokens \subseteq User
    BY DEF IInv, TypeOK
<1>7. CASE (~Opts.tokens \/ t \notin User) /\ Refuse("refused") /\ UNCHANGED failed
  <2>1. "token" \notin Facts
      BY <1>6, <1>7, FactsShape
  <2>2. \E f \in Required : f \notin Facts
      BY <2>1, <1>4
  <2> QED
      BY <1>1, <1>5, <1>7, <2>2, MissingKeeps
<1>8. CASE Fails("token", table) /\ Refuse("unavailable")
  <2>1. failed' = failed \cup {"token"}
      BY <1>8, <1>3 DEF Fails
  <2> QED
      BY <1>1, <1>5, <1>8, <2>1, FailKeeps
<1>9. CASE /\ Opts.tokens /\ t \in User /\ UNCHANGED failed
           /\ HasToken(table, t) /\ Pass("token")
  <2>1. t \in tokens /\ GuardOf[t] \in DOMAIN mounted /\ table = TokensTable(mounted[GuardOf[t]])
      BY <1>9 DEF HasToken
  <2>2. GuardOf[t] = req.guard => "token" \in Facts
      BY <2>1, <1>9, FactsShape
  <2>3. History /\ outcome' = "none" /\ UNCHANGED wiring
      BY <1>1, <1>2, <1>9 DEF Others, Pass
  <2>4. GuardOf[t] = req.guard => "token" \in held'
      BY <2>2, <2>3, <1>2 DEF History, IInv, Underway
  <2>5. Passed("token")'
      BY <2>1, <2>3, <2>4, <1>1, <1>9 DEF Passed, Opts, wiring
  <2>6. failed' \in SUBSET Middleware /\ failed \subseteq failed'
      BY <1>9 DEF IInv, TypeOK
  <2> QED
      BY <1>1, <1>5, <1>9, <2>5, <2>6, PassKeeps
<1>10. CASE /\ Opts.tokens /\ t \in User /\ UNCHANGED failed
            /\ ~HasToken(table, t) /\ Refuse("refused")
  <2>1. "token" \notin Facts
    <3>1. SUFFICES ASSUME t \in tokens, GuardOf[t] = req.guard PROVE FALSE
        BY FactsShape
    <3> QED
        BY <3>1, <1>3, <1>10 DEF HasToken, Opts
  <2>2. \E f \in Required : f \notin Facts
      BY <2>1, <1>4
  <2> QED
      BY <1>1, <1>5, <1>10, <2>2, MissingKeeps
<1> QED
    BY <1>3, <1>7, <1>8, <1>9, <1>10 DEF BearerToken, Answers

\* Two guards may share a table, but not both their tables: a token found in the
\* one and an owner found in the other are of the guard the request is for.
LEMMA OwnerKeeps ==
    ASSUME IInv, Owner
    PROVE  IInv'
<1> DEFINE t == req.authorization
           table == UsersTable(Opts)
           row == FindByID(table, t)
<1>1. Runs("owner") /\ Others /\ UNCHANGED req /\ "owner" \in Middleware
    BY DEF Owner, Middleware
<1>2. outcome = "none" /\ "owner" \in todo /\ "owner" \in Chain(req)
    BY <1>1, Ordered
<1>3. ReadOptions(req) = Opts /\ table \in migrated /\ req.guard \in DOMAIN mounted
    BY <1>2, ReadOptionsAre
<1>4. ByToken /\ "token" \in Chain(req) /\ {"token", "owner"} \subseteq Required
      /\ (req.scope => "scope" \in Required)
    BY <1>2, ChainShape, RequiredShape
<1>5. UNCHANGED world /\ SameRequest /\ req' \in Request
    BY <1>1 DEF Others, SameRequest, IInv, TypeOK
<1>6. /\ t \in User /\ GuardOf[t] \in DOMAIN mounted
      /\ TokensTable(mounted[GuardOf[t]]) = TokensTable(Opts)
      /\ GuardOf[t] = req.guard => "token" \in held
  <2>1. Passed("token")
      BY <1>1, <1>4, Ordered DEF Before
  <2> QED
      BY <2>1 DEF Passed
<1>7. CASE Fails("owner", table) /\ Refuse("unavailable") /\ UNCHANGED actor
  <2>1. failed' = failed \cup {"owner"}
      BY <1>7, <1>3 DEF Fails
  <2> QED
      BY <1>1, <1>5, <1>7, <2>1, FailKeeps
<1>8. CASE /\ UNCHANGED failed /\ row # Gone /\ ~row.disabled /\ (req.scope => req.scoped)
           /\ Pass("owner") /\ actor' = t
  <2>1. UsersTable(mounted[GuardOf[t]]) = table /\ row = rows[t]
      BY <1>8 DEF FindByID
  <2>2. GuardOf[t] = req.guard
    <3>1. /\ conf \in Confs
          /\ mounted[GuardOf[t]] \in GuardOptions(conf) /\ mounted[GuardOf[t]].guard = GuardOf[t]
          /\ Opts \in GuardOptions(conf) /\ Opts.guard = req.guard
        BY <1>3, <1>6 DEF IInv, TypeOK, Mounted, Opts
    <3> QED
        BY <3>1, <2>1, <1>6, TablesAssumption
  <2>3. "owner" \in Facts /\ (req.scope => "scope" \in Facts)
      BY <1>6, <1>8, <2>1, FactsShape DEF IsActive, RowOf
  <2>4. outcome' = "none" /\ todo' = todo \ {"owner"} /\ History /\ UNCHANGED wiring
      BY <1>1, <1>2, <1>8 DEF Pass, Others
  <2>5. {"owner", "token"} \subseteq held' /\ (req.scope => "scope" \in held')
      BY <2>2, <2>3, <2>4, <1>2, <1>6 DEF History, IInv, Underway
  <2>6. Passed("owner")'
      BY <2>5, <1>1 DEF Passed
  <2>7. \A m \in todo \ todo' : Passed(m)'
      BY <2>4, <2>6
  <2>8. /\ actor' \in User \cup {None}
        /\ rows' \in [User -> Row \cup {Gone}] /\ tokens' \in SUBSET User
        /\ changes' \in 0 .. MaxChanges
        /\ failed' \in SUBSET Middleware /\ failed \subseteq failed'
      BY <1>8, <1>1, <1>6 DEF IInv, TypeOK, world, Others
  <2>9. req'.session.user # None => SameUsersTable(req'.session.user)
      BY <1>1, <1>2 DEF IInv, Underway
  <2>10. "authenticate" \in Chain(req) \ todo =>
            actor' = actor /\ req'.session.user = req.session.user
      BY <1>2, <1>4, ChainShape
  <2>11. todo' \subseteq todo
      BY <2>4
  <2> QED
      BY <1>2, <1>5, <2>4, <2>7, <2>8, <2>9, <2>10, <2>11, StepKeeps
<1>9. CASE /\ UNCHANGED failed /\ Refuse("refused") /\ UNCHANGED actor
           /\ row = Gone \/ row.disabled \/ (req.scope /\ ~req.scoped)
  <2>1. \E f \in {"token", "owner"} \cup (IF req.scope THEN {"scope"} ELSE {}) : f \notin Facts
    <3>1. SUFFICES ASSUME "token" \in Facts, "owner" \in Facts, req.scope => "scope" \in Facts
                   PROVE  FALSE
        OBVIOUS
    <3>2. GuardOf[t] = req.guard /\ RowOf(t) # Gone /\ ~RowOf(t).disabled
        BY <3>1, FactsShape DEF IsActive
    <3>3. row = RowOf(t)
        BY <3>2, <1>3, <1>6 DEF FindByID, RowOf, Opts
    <3> QED
        BY <3>1, <3>2, <3>3, <1>9, FactsShape
  <2>2. \E f \in Required : f \notin Facts
      BY <2>1, <1>4
  <2> QED
      BY <1>1, <1>5, <1>9, <2>2, MissingKeeps
<1> QED
    BY <1>3, <1>7, <1>8, <1>9 DEF Owner, Answers

LEMMA TrackKeeps ==
    ASSUME IInv, Track
    PROVE  IInv'
<1>1. Runs("track") /\ Others /\ actor' = actor /\ "track" \in Middleware
    BY DEF Track, Middleware
<1>2. outcome = "none" /\ "track" \in Chain(req)
    BY <1>1, Ordered
<1>3. "unterminated" \in Required
    BY <1>2, ChainShape, RequiredShape
<1>4. UNCHANGED world /\ req \in Request /\ failed \in SUBSET Middleware
    BY <1>1 DEF Others, IInv, TypeOK
<1>5. CASE failed' = failed \cup {"track"} /\ Pass("track") /\ UNCHANGED req
  <2>1. Passed("track")'
      BY <1>5 DEF Passed
  <2> QED
      BY <1>1, <1>4, <1>5, <2>1, PassKeeps
<1>6. CASE UNCHANGED failed /\ Alive(req.session) /\ Pass("track") /\ UNCHANGED req
  <2>1. "unterminated" \in Facts
      BY <1>6, FactsShape DEF Alive
  <2>2. History /\ outcome' = "none"
      BY <1>1, <1>2, <1>6 DEF Others, Pass
  <2>3. Passed("track")'
      BY <2>1, <2>2, <1>2 DEF History, IInv, Underway, Passed
  <2> QED
      BY <1>1, <1>4, <1>6, <2>3, PassKeeps
<1>7. CASE /\ UNCHANGED failed /\ ~Alive(req.session) /\ Refuse("refused")
           /\ req' = [req EXCEPT !.session.user = None]
  <2>1. \E f \in Required : f \notin Facts
      BY <1>3, <1>7, FactsShape DEF Alive
  <2>2. SameRequest /\ req' \in Request
    <3> DEFINE s == [req.session EXCEPT !.user = None]
    <3>1. req.session \in Session
        BY <1>4 DEF Request
    <3>2. s \in Session
        BY <3>1 DEF Session
    <3>3. req' = [req EXCEPT !.session = s]
        BY <1>7, <1>4, <3>1 DEF Request, Session
    <3> QED
        BY <3>2, <3>3, <1>4 DEF SameRequest, Request
  <2> QED
      BY <1>1, <1>4, <1>7, <2>1, <2>2, MissingKeeps
<1> QED
    BY <1>5, <1>6, <1>7 DEF Track

LEMMA RejectKeeps ==
    ASSUME IInv, Reject
    PROVE  IInv'
<1>1. Runs("reject") /\ Others /\ UNCHANGED <<req, actor, failed>> /\ "reject" \in Middleware
    BY DEF Reject, Middleware
<1>2. outcome = "none" /\ "reject" \in Chain(req)
    BY <1>1, Ordered
<1>3. "unmarked" \in Required
    BY <1>2, ChainShape, RequiredShape
<1>4. UNCHANGED world /\ SameRequest /\ req' \in Request /\ failed \in SUBSET Middleware
    BY <1>1 DEF Others, SameRequest, IInv, TypeOK
<1>5. CASE req.session.marked /\ Refuse("refused")
  <2>1. \E f \in Required : f \notin Facts
      BY <1>3, <1>5, FactsShape
  <2> QED
      BY <1>1, <1>4, <1>5, <2>1, MissingKeeps
<1>6. CASE ~req.session.marked /\ Pass("reject")
  <2>1. "unmarked" \in Facts
      BY <1>6, FactsShape
  <2>2. History /\ outcome' = "none"
      BY <1>1, <1>2, <1>6 DEF Others, Pass
  <2>3. Passed("reject")'
      BY <2>1, <2>2, <1>2 DEF History, IInv, Underway, Passed
  <2> QED
      BY <1>1, <1>4, <1>6, <2>3, PassKeeps
<1> QED
    BY <1>5, <1>6 DEF Reject

LEMMA LimitKeeps ==
    ASSUME IInv, Limit
    PROVE  IInv'
<1>1. Runs("limit") /\ Others /\ UNCHANGED <<req, actor>> /\ "limit" \in Middleware
    BY DEF Limit, Middleware
<1>2. outcome = "none"
    BY <1>1 DEF Runs
<1>3. UNCHANGED world /\ SameRequest /\ req' \in Request /\ failed \in SUBSET Middleware
    BY <1>1 DEF Others, SameRequest, IInv, TypeOK
<1>4. CASE Pass("limit") /\ UNCHANGED failed
  <2>1. Passed("limit")'
      BY DEF Passed
  <2> QED
      BY <1>1, <1>3, <1>4, <2>1, PassKeeps
<1>5. CASE Refuse("limited") /\ UNCHANGED failed
  <2>1. actor' = actor /\ failed' \in SUBSET Middleware
      BY <1>1, <1>3, <1>5
  <2> QED
      BY <1>1, <1>2, <1>3, <1>5, <2>1, RefuseKeeps
<1>6. CASE Refuse("unavailable") /\ failed' = failed \cup {"limit"}
    BY <1>1, <1>3, <1>6, FailKeeps
<1> QED
    BY <1>4, <1>5, <1>6 DEF Limit

LEMMA RequireRoleKeeps ==
    ASSUME IInv, RequireRole
    PROVE  IInv'
<1> DEFINE table == UsersTable(Opts)
           u == req.session.user
           row == FindByID(table, actor)
           allowed == IF req.route \in HostRoute THEN req.roles ELSE ManagementRoles(Opts)
           fact == IF req.route \in HostRoute THEN "role" ELSE "manager"
<1>1. Runs("role") /\ Others /\ UNCHANGED <<req, actor>> /\ "role" \in Middleware
    BY DEF RequireRole, Middleware
<1>2. outcome = "none" /\ "role" \in Chain(req)
    BY <1>1, Ordered
<1>3. ReadOptions(req) = Opts /\ table \in migrated
    BY <1>2, ReadOptionsAre
<1>4. UNCHANGED world /\ SameRequest /\ req' \in Request /\ failed \in SUBSET Middleware
    BY <1>1 DEF Others, SameRequest, IInv, TypeOK
<1>5. fact \in Required /\ "authenticate" \in Chain(req)
  <2>1. req.route \in Management \cup {"protectRole"}
      BY <1>2, ChainShape
  <2>2. "authenticate" \in Chain(req)
      BY <1>2, <2>1, ChainShape DEF ByToken, Public, Management
  <2> QED
      BY <2>1, <2>2, RequiredShape DEF Management, HostRoute
<1>6. actor = u /\ u # None
  <2>1. Passed("authenticate")
      BY <1>1, <1>5, Ordered DEF Before
  <2> QED
      BY <2>1 DEF Passed
<1>7. row = RowOf(u)
  <2>1. actor \in User
      BY <1>6 DEF IInv, TypeOK
  <2>2. SameUsersTable(u)
      BY <1>2, <1>6 DEF IInv, Underway
  <2> QED
      BY <2>1, <2>2, <1>2, <1>6, RowFound
<1>8. fact \in Facts <=>
         (req.route \in HostRoute /\ allowed = {}) \/ HasRole(u, allowed)
    BY FactsShape DEF ManagementRoles
<1>9. ASSUME Pass("role"), fact \in Facts, failed' \in SUBSET Middleware, failed \subseteq failed'
      PROVE  IInv'
  <2>1. History /\ outcome' = "none"
      BY <1>1, <1>2, <1>9 DEF Others, Pass
  <2>2. fact \in held'
      BY <2>1, <1>2, <1>9 DEF History, IInv, Underway
  <2>3. Passed("role")'
      BY <2>2, <1>1 DEF Passed
  <2> QED
      BY <1>1, <1>4, <1>9, <2>3, PassKeeps
<1>10. CASE allowed = {} /\ Pass("role") /\ UNCHANGED failed
  <2>1. req.route \in HostRoute
      BY <1>10 DEF ManagementRoles
  <2> QED
      BY <2>1, <1>4, <1>8, <1>9, <1>10
<1>11. CASE Fails("role", table) /\ Refuse("refused")
  <2>1. failed' = failed \cup {"role"}
      BY <1>11, <1>3 DEF Fails
  <2> QED
      BY <1>1, <1>4, <1>11, <2>1, FailKeeps
<1>12. CASE UNCHANGED failed /\ row # Gone /\ row.role \in allowed /\ Pass("role")
    BY <1>4, <1>7, <1>8, <1>9, <1>12 DEF HasRole
<1>13. CASE /\ UNCHANGED failed /\ allowed # {} /\ (row = Gone \/ row.role \notin allowed)
            /\ Refuse("refused")
  <2>1. fact \notin Facts
      BY <1>7, <1>8, <1>13 DEF HasRole
  <2>2. \E f \in Required : f \notin Facts
      BY <2>1, <1>5
  <2> QED
      BY <1>1, <1>4, <1>13, <2>2, MissingKeeps
<1> QED
    BY <1>3, <1>10, <1>11, <1>12, <1>13 DEF RequireRole, Answers

\* Every middleware of the chain was passed, and each knows what is required of it.
LEMMA ServeKeeps ==
    ASSUME IInv, Serve
    PROVE  IInv'
<1>1. /\ outcome = "none" /\ todo = {} /\ outcome' = "served"
      /\ UNCHANGED <<wiring, world, req, todo, actor, changes, failed, held, always>>
    BY DEF Serve, History
<1>2. conf' = conf /\ mounted' = mounted /\ migrated' = migrated
    BY <1>1 DEF wiring
<1>3. Required' = Required
    BY <1>1, SameChain DEF SameRequest
<1>4. \A m \in Chain(req) : Passed(m)
    BY <1>1 DEF IInv, PassedAll
<1>5. Required \subseteq held \cup (IF "track" \in failed THEN {"unterminated"} ELSE {})
  <2> SUFFICES ASSUME NEW f \in Required, f # "unterminated" \/ "track" \notin failed
               PROVE  f \in held
      OBVIOUS
  <2>1. f \in Fact
      BY RequiredShape
  <2>2. CASE f = "origin"
      BY <2>2, <1>1, <1>4, ChainShape, RequiredShape DEF Passed
  <2>3. CASE f \in {"login", "active"}
    <3>1. "authenticate" \in Chain(req)
        BY <2>3, <1>1, ChainShape, RequiredShape
    <3> QED
        BY <3>1, <2>3, <1>4 DEF Passed
  <2>4. CASE f = "unterminated"
    <3>1. "track" \in Chain(req)
        BY <2>4, <1>1, ChainShape, RequiredShape
    <3> QED
        BY <3>1, <2>4, <1>4 DEF Passed
  <2>5. CASE f = "unmarked"
    <3>1. "reject" \in Chain(req)
        BY <2>5, <1>1, ChainShape, RequiredShape
    <3> QED
        BY <3>1, <2>5, <1>4 DEF Passed
  <2>6. CASE f \in {"manager", "role"}
    <3>1. /\ f = "manager" => req.route \in Management
          /\ f = "role" => req.route = "protectRole"
        BY <2>6, RequiredShape
    <3>2. /\ f = (IF req.route \in HostRoute THEN "role" ELSE "manager")
          /\ req.route \in Management \cup {"protectRole"}
        BY <2>6, <3>1 DEF Management, HostRoute
    <3>3. "role" \in Chain(req)
        BY <3>2, <1>1, ChainShape
    <3> QED
        BY <3>2, <3>3, <1>4 DEF Passed
  <2>7. CASE f \in {"token", "owner", "scope"}
    <3>1. "owner" \in Chain(req) /\ (f = "scope" => req.scope)
        BY <2>7, <1>1, ChainShape, RequiredShape
    <3> QED
        BY <3>1, <2>7, <1>4 DEF Passed
  <2> QED
      BY <2>1, <2>2, <2>3, <2>4, <2>5, <2>6, <2>7 DEF Fact
<1>6. TypeOK'
    BY <1>1, <1>2 DEF IInv, TypeOK, world
<1>7. Mounted'
  <2>1. \A g : OptionsByGuard(g)' = OptionsByGuard(g)
      BY <1>2 DEF OptionsByGuard
  <2> QED
      BY <1>1, <1>2, <2>1 DEF IInv, Mounted
<1>8. Underway' /\ PassedAll'
    BY <1>1 DEF Underway, PassedAll
<1>9. DecidedByPolicy'
    BY <1>1, <1>3, <1>5 DEF DecidedByPolicy
<1> QED
    BY <1>6, <1>7, <1>8, <1>9 DEF IInv

-----------------------------------------------------------------------------
(* Other requests *)

\* A step that leaves the request where it is.
LEMMA ChangingKeeps ==
    ASSUME IInv, Changing, History, SameRequest, req' \in Request,
           req'.session.user = req.session.user,
           rows' \in [User -> Row \cup {Gone}], tokens' \in SUBSET User
    PROVE  IInv'
<1>1. /\ outcome = "none" /\ outcome' = "none" /\ todo' = todo /\ actor' = actor
      /\ failed' = failed /\ UNCHANGED wiring
    BY DEF Changing
<1>2. changes' \in 0 .. MaxChanges
    BY RequestsAssumption DEF Changing, IInv, TypeOK
<1>3. /\ actor' \in User \cup {None} /\ failed' \in SUBSET Middleware
      /\ failed \subseteq failed'
    BY <1>1 DEF IInv, TypeOK
<1>4. req'.session.user # None => SameUsersTable(req'.session.user)
    BY <1>1 DEF IInv, Underway
<1>5. "authenticate" \in Chain(req) \ todo =>
         actor' = actor /\ req'.session.user = req.session.user
    BY <1>1
<1>6. todo' \subseteq todo /\ \A m \in todo \ todo' : Passed(m)'
    BY <1>1
<1> QED
    BY <1>1, <1>2, <1>3, <1>4, <1>5, <1>6, StepKeeps

LEMMA ChangeRowKeeps ==
    ASSUME IInv, NEW u \in User, ChangeRow(u)
    PROVE  IInv'
<1>1. Changing /\ History /\ UNCHANGED <<tokens, req>>
    BY DEF ChangeRow
<1>2. rows' \in [User -> Row \cup {Gone}]
  <2>1. PICK row \in Row \cup {Gone} : rows' = [rows EXCEPT ![u] = row]
      BY DEF ChangeRow
  <2> QED
      BY <2>1 DEF IInv, TypeOK
<1>3. tokens' \in SUBSET User /\ req' \in Request /\ SameRequest
    BY <1>1 DEF IInv, TypeOK, SameRequest
<1> QED
    BY <1>1, <1>2, <1>3, ChangingKeeps

LEMMA RevokeTokenKeeps ==
    ASSUME IInv, NEW u \in User, RevokeToken(u)
    PROVE  IInv'
<1>1. Changing /\ History /\ UNCHANGED <<rows, req>> /\ tokens' = tokens \ {u}
    BY DEF RevokeToken
<1>2. /\ tokens' \in SUBSET User /\ rows' \in [User -> Row \cup {Gone}]
      /\ req' \in Request /\ SameRequest
    BY <1>1 DEF IInv, TypeOK, SameRequest
<1> QED
    BY <1>1, <1>2, ChangingKeeps

LEMMA SpoilSessionKeeps ==
    ASSUME IInv, SpoilSession
    PROVE  IInv'
<1>1. Changing /\ History /\ UNCHANGED world
    BY DEF SpoilSession
<1>2. req \in Request
    BY DEF IInv, TypeOK
<1>3. req.session \in Session
    BY <1>2 DEF Request
<1>4. PICK s \in Session : s.user = req.session.user /\ req' = [req EXCEPT !.session = s]
  <2> DEFINE a == [req.session EXCEPT !.stamped = FALSE]
             b == [req.session EXCEPT !.tracking = "gone"]
  <2>1. /\ a \in Session /\ a.user = req.session.user
        /\ b \in Session /\ b.user = req.session.user
      BY <1>3 DEF Session
  <2>2. req' = [req EXCEPT !.session = a] \/ req' = [req EXCEPT !.session = b]
      BY <1>2, <1>3 DEF SpoilSession, Request, Session
  <2> QED
      BY <2>1, <2>2
<1>5. req' \in Request /\ SameRequest /\ req'.session.user = req.session.user
    BY <1>2, <1>4 DEF Request, SameRequest
<1>6. rows' \in [User -> Row \cup {Gone}] /\ tokens' \in SUBSET User
    BY <1>1 DEF IInv, TypeOK, world
<1> QED
    BY <1>1, <1>5, <1>6, ChangingKeeps

-----------------------------------------------------------------------------
(* Boot, and requests between two others *)

LEMMA OptionsTyped ==
    ASSUME conf \in Confs
    PROVE  \A o \in GuardOptions(conf) :
              o \in Options /\ UsersTable(o) \in Table /\ TokensTable(o) \in Table
<1> TAKE o \in GuardOptions(conf)
<1>1. o \in Options
    BY TablesAssumption
<1>2. o.usersTable \in Table \cup {Unset} /\ o.tokensTable \in Table \cup {Unset}
    BY <1>1 DEF Options
<1> QED
    BY <1>1, <1>2, TablesAssumption DEF UsersTable, TokensTable

LEMMA ChainTyped ==
    ASSUME NEW r \in Request
    PROVE  Chain(r) \subseteq Middleware
<1>1. r.route \in Route
    BY DEF Request
<1>2. CASE r.route \in HostRoute
    BY <1>2 DEF Chain, HostChain, HostRoute, Middleware
<1>3. CASE r.route \notin HostRoute
    BY <1>3 DEF Chain, PackageChain, Middleware
<1> QED
    BY <1>2, <1>3

LEMMA NoRequestTyped == NoRequest \in Request
<1>1. NoSession \in Session
    BY DEF NoSession, Session
<1> QED
    BY <1>1, RequestsAssumption DEF NoRequest, Request, Method, Route, Public

\* Before a route is mounted there is no request.
LEMMA IdleKeeps ==
    ASSUME IInv, outcome = "idle", UNCHANGED <<conf, world, progress, changes, held, always>>,
           migrated' \in SUBSET Table,
           mounted' = <<>> \/ \A g \in DOMAIN mounted' : mounted'[g] \in Options,
           Mounted'
    PROVE  IInv'
<1>1. TypeOK'
    BY DEF IInv, TypeOK, world, progress
<1>2. outcome' = "idle"
    BY DEF progress
<1> QED
    BY <1>1, <1>2 DEF IInv, Underway, PassedAll, DecidedByPolicy

LEMMA BootKeeps ==
    ASSUME IInv, Boot
    PROVE  IInv'
<1>1. /\ migrated = {} /\ mounted' = mounted /\ conf' = conf
      /\ migrated' = UNION {{UsersTable(o), TokensTable(o)} : o \in GuardOptions(conf)}
      /\ UNCHANGED <<world, progress, changes, held, always>>
    BY DEF Boot
<1>2. DOMAIN mounted = {}
    BY <1>1 DEF IInv, Mounted
<1>3. outcome = "idle"
    BY <1>2 DEF IInv, Mounted
<1>4. conf \in Confs /\ (mounted' = <<>> \/ \A g \in DOMAIN mounted' : mounted'[g] \in Options)
    BY <1>1, <1>2 DEF IInv, TypeOK
<1>5. migrated' \in SUBSET Table
    BY <1>1, <1>4, OptionsTyped
<1>6. Mounted'
  <2>1. outcome' = "idle"
      BY <1>1, <1>3 DEF progress
  <2>2. \A o \in GuardOptions(conf) : {UsersTable(o), TokensTable(o)} \subseteq migrated'
      BY <1>1
  <2> QED
      BY <1>1, <1>2, <2>1, <2>2 DEF Mounted
<1> QED
    BY <1>1, <1>3, <1>4, <1>5, <1>6, IdleKeeps

LEMMA RegisterAllKeeps ==
    ASSUME IInv, RegisterAll
    PROVE  IInv'
<1>1. /\ migrated # {} /\ mounted = <<>> /\ conf' = conf /\ migrated' = migrated
      /\ UNCHANGED <<world, progress, changes, held, always>>
    BY DEF RegisterAll
<1>2. outcome = "idle"
  <2>1. DOMAIN mounted = {}
      BY <1>1
  <2> QED
      BY <2>1 DEF IInv, Mounted
<1>3. conf \in Confs /\ migrated' \in SUBSET Table
    BY <1>1 DEF IInv, TypeOK
<1>4. \A g \in DOMAIN mounted' :
         /\ mounted'[g] \in GuardOptions(conf) /\ mounted'[g].guard = g
         /\ mounted'[g] = OptionsByGuard(g)
  <2>1. TAKE g \in DOMAIN mounted'
  <2>2. \E o \in GuardOptions(conf) : o.guard = g
      BY DEF RegisterAll
  <2>3. mounted'[g] = CHOOSE o \in GuardOptions(conf) : o.guard = g
      BY DEF RegisterAll
  <2> QED
      BY <2>2, <2>3 DEF OptionsByGuard
<1>5. \A g \in DOMAIN mounted' : mounted'[g] \in Options
    BY <1>3, <1>4, OptionsTyped
<1>6. Mounted'
  <2>1. outcome' = "idle"
      BY <1>1, <1>2 DEF progress
  <2>2. \A o \in GuardOptions(conf) : {UsersTable(o), TokensTable(o)} \subseteq migrated
      BY <1>1 DEF IInv, Mounted
  <2>3. \A g : OptionsByGuard(g)' = OptionsByGuard(g)
      BY <1>1 DEF OptionsByGuard
  <2> QED
      BY <1>1, <1>4, <2>1, <2>2, <2>3 DEF Mounted
<1> QED
    BY <1>1, <1>2, <1>3, <1>5, <1>6, IdleKeeps

LEMMA ReceiveKeeps ==
    ASSUME IInv, NEW r \in Requests, Receive(r)
    PROVE  IInv'
<1>1. /\ r.guard \in DOMAIN mounted /\ req' = r /\ todo' = Chain(r) /\ actor' = None
      /\ outcome' = "none" /\ failed' = {} /\ UNCHANGED <<wiring, world, changes>>
    BY DEF Receive
<1>2. held' = Facts' /\ always' = Facts'
    BY DEF Receive, History
<1>3. conf' = conf /\ mounted' = mounted /\ migrated' = migrated
    BY <1>1 DEF wiring
<1>4. r \in Request /\ (r.session.user # None => GuardOf[r.session.user] = r.guard)
    BY RequestsAssumption
<1>5. Chain(req)' = Chain(r)
  <2>1. OptionsByGuard(r.guard)' = OptionsByGuard(r.guard)
      BY <1>1, <1>3 DEF OptionsByGuard
  <2>2. HostChain(req)' = HostChain(r)
      BY <1>1, <2>1 DEF HostChain, SkipsBrowserChecks, UsesBearer
  <2> QED
      BY <1>1, <1>3, <2>2 DEF Chain, PackageChain
<1>6. TypeOK'
  <2>1. Facts' \subseteq Fact
      BY DEF Facts
  <2>2. todo' \subseteq Middleware
      BY <1>1, <1>4, ChainTyped
  <2> QED
      BY <1>1, <1>2, <1>3, <1>4, <2>1, <2>2 DEF IInv, TypeOK, world
<1>7. Mounted'
  <2>1. \A g : OptionsByGuard(g)' = OptionsByGuard(g)
      BY <1>3 DEF OptionsByGuard
  <2> QED
      BY <1>1, <1>3, <2>1 DEF IInv, Mounted
<1>8. Underway'
  <2>1. req'.session.user # None => SameUsersTable(req.session.user)'
      BY <1>1, <1>3, <1>4 DEF SameUsersTable, Opts
  <2> QED
      BY <1>1, <1>2, <1>5, <2>1 DEF Underway
<1>9. PassedAll'
    BY <1>1, <1>5 DEF PassedAll
<1>10. DecidedByPolicy'
    BY <1>1 DEF DecidedByPolicy
<1> QED
    BY <1>6, <1>7, <1>8, <1>9, <1>10 DEF IInv

LEMMA RespondKeeps ==
    ASSUME IInv, Respond
    PROVE  IInv'
<1>1. /\ outcome' = "idle" /\ req' = NoRequest /\ actor' = None /\ todo' = {}
      /\ held' = {} /\ always' = {} /\ failed' = {} /\ UNCHANGED <<wiring, world, changes>>
    BY DEF Respond
<1>2. conf' = conf /\ mounted' = mounted /\ migrated' = migrated
    BY <1>1 DEF wiring
<1>3. TypeOK'
    BY <1>1, <1>2, NoRequestTyped DEF IInv, TypeOK, world
<1>4. Mounted'
  <2>1. \A g : OptionsByGuard(g)' = OptionsByGuard(g)
      BY <1>2 DEF OptionsByGuard
  <2> QED
      BY <1>1, <1>2, <2>1 DEF IInv, Mounted
<1> QED
    BY <1>1, <1>3, <1>4 DEF IInv, Underway, PassedAll, DecidedByPolicy

-----------------------------------------------------------------------------
(* Every step, and the theorems *)

LEMMA InitHolds ==
    ASSUME Init
    PROVE  IInv
<1>1. outcome = "idle" /\ mounted = <<>> /\ migrated = {} /\ DOMAIN mounted = {}
    BY DEF Init
<1>2. TypeOK
    BY NoRequestTyped, RequestsAssumption DEF Init, TypeOK
<1>3. Mounted
    BY <1>1 DEF Mounted
<1> QED
    BY <1>1, <1>2, <1>3 DEF IInv, Underway, PassedAll, DecidedByPolicy

LEMMA StutterKeeps ==
    ASSUME IInv, UNCHANGED vars
    PROVE  IInv'
<1>1. /\ UNCHANGED <<conf, mounted, migrated, rows, tokens, req, todo, actor, outcome, failed>>
      /\ UNCHANGED <<changes, held, always>>
    BY DEF vars, wiring, world, progress
<1>2. Facts' = Facts /\ Required' = Required
    BY <1>1 DEF Facts, Required, RowOf, IsActive, HasRole
<1>3. UNCHANGED wiring /\ SameRequest
    BY <1>1 DEF wiring, SameRequest
<1>4. /\ Chain(req)' = Chain(req) /\ Opts' = Opts
      /\ \A u : SameUsersTable(u)' <=> SameUsersTable(u)
    BY <1>3, SameChain
<1>5. TypeOK'
    BY <1>1 DEF IInv, TypeOK
<1>6. Mounted'
  <2>1. \A g : OptionsByGuard(g)' = OptionsByGuard(g)
      BY <1>1 DEF OptionsByGuard
  <2> QED
      BY <1>1, <2>1 DEF IInv, Mounted
<1>7. Underway'
  <2>1. req.session.user # None /\ outcome = "none" => SameUsersTable(req.session.user)'
      BY <1>1, <1>4 DEF IInv, Underway, SameUsersTable
  <2> QED
      BY <1>1, <1>2, <1>4, <2>1 DEF IInv, Underway
<1>8. PassedAll'
  <2>1. \A m : Passed(m)' <=> Passed(m)
      BY <1>1, <1>4 DEF Passed
  <2> QED
      BY <1>1, <1>4, <2>1 DEF IInv, PassedAll
<1>9. DecidedByPolicy'
    BY <1>1, <1>2 DEF IInv, DecidedByPolicy
<1> QED
    BY <1>5, <1>6, <1>7, <1>8, <1>9 DEF IInv

\* The inductive invariant holds of every state the code reaches.
THEOREM InvariantHolds == Spec => []IInv
<1>1. Init => IInv
    BY InitHolds
<1>2. IInv /\ [Next]_vars => IInv'
  <2> SUFFICES ASSUME IInv, [Next]_vars PROVE IInv'
      OBVIOUS
  <2>1. CASE Boot
      BY <2>1, BootKeeps
  <2>2. CASE RegisterAll
      BY <2>2, RegisterAllKeeps
  <2>3. ASSUME NEW r \in Requests, Receive(r) PROVE IInv'
      BY <2>3, ReceiveKeeps
  <2>4. CASE Origin
      BY <2>4, OriginKeeps
  <2>5. CASE RememberLogin
      BY <2>5, RememberLoginKeeps
  <2>6. CASE Authenticate
      BY <2>6, AuthenticateKeeps
  <2>7. CASE BearerToken
      BY <2>7, BearerTokenKeeps
  <2>8. CASE Owner
      BY <2>8, OwnerKeeps
  <2>9. CASE Track
      BY <2>9, TrackKeeps
  <2>10. CASE Reject
      BY <2>10, RejectKeeps
  <2>11. CASE Limit
      BY <2>11, LimitKeeps
  <2>12. CASE RequireRole
      BY <2>12, RequireRoleKeeps
  <2>13. CASE Serve
      BY <2>13, ServeKeeps
  <2>14. CASE Respond
      BY <2>14, RespondKeeps
  <2>15. ASSUME NEW u \in User, ChangeRow(u) PROVE IInv'
      BY <2>15, ChangeRowKeeps
  <2>16. ASSUME NEW u \in User, RevokeToken(u) PROVE IInv'
      BY <2>16, RevokeTokenKeeps
  <2>17. CASE SpoilSession
      BY <2>17, SpoilSessionKeeps
  <2>18. CASE UNCHANGED vars
      BY <2>18, StutterKeeps
  <2> QED
      BY <2>1, <2>2, <2>3, <2>4, <2>5, <2>6, <2>7, <2>8, <2>9, <2>10, <2>11, <2>12,
         <2>13, <2>14, <2>15, <2>16, <2>17, <2>18 DEF Next
<1> QED
    BY <1>1, <1>2, PTL DEF Spec

\* Every variable has its type, and a request that has been answered has no
\* middleware left to pass.
THEOREM GatewayTyped == Spec => []TypeOK
<1>1. IInv => TypeOK
    BY DEF IInv
<1> QED
    BY <1>1, InvariantHolds, PTL

\* A request reaches its handler only with every fact that its route requires by
\* the options of its guard (a session that carries a tracking token had its row,
\* unless the look for it failed; one without a token needs none), and is refused only for want of one or because a
\* statement failed, whatever the configuration and the other requests.
THEOREM GatewayDecidesByPolicy == Spec => []DecidedByPolicy
<1>1. IInv => DecidedByPolicy
    BY DEF IInv
<1> QED
    BY <1>1, InvariantHolds, PTL

=============================================================================
