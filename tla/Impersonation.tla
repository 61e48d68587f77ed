---------------------------- MODULE Impersonation ----------------------------
(***************************************************************************)
(* One browser session that several guards share, and the switches into    *)
(* another user's login that an actor makes in it: Start and Stop of       *)
(* http/controllers/impersonation.go, the routes that are closed during a  *)
(* switch, the tokens issued in the actor's name, and what every other     *)
(* route does to the login a marker belongs to.                            *)
(*                                                                         *)
(* Each guard has its table of users, its login, its marker and its        *)
(* remember cookie; the session carries all of them. It has one request in *)
(* flight. Users change at any time, by requests of other sessions.        *)
(***************************************************************************)
EXTENDS Naturals

CONSTANTS
    Guard,
    User,
    Home,        \* Home[u]: the guard whose table holds u
    Role,
    Gate,        \* Gate[g]: the impersonation rules of g's actors
    Sensitive,   \* the guards with allow_sensitive_actions
    Delegating,  \* the guards with allow_impersonated_creation
    Nobody,
    MaxEdits     \* bound on the changes of users

ASSUME ImpersonationAssumption ==
    /\ Home \in [User -> Guard]
    /\ Gate \in [Guard -> [roles: SUBSET Role, targetGuards: SUBSET Guard,
                           protectedRoles: SUBSET Role]]
    /\ Sensitive \subseteq Guard
    /\ Delegating \subseteq Guard
    /\ Nobody \notin User \cup Guard \cup Role
    /\ MaxEdits \in Nat

VARIABLES
    rows,      \* rows[u]: the user's row, or Nobody
    sess,      \* sess[g]: what the session holds for guard g
    jar,       \* jar[g]: whose remember cookie of g the browser holds
    req,       \* the request in flight
    edits,     \* changes of users so far
    \* History, read by the properties only:
    acting,    \* acting[g]: who switched into the login of g, Nobody if it is the user's own
    entered,   \* entered[g]: the users g's login was for, by a login or a Stop, since
               \* the last logout there
    changed    \* the users whose rows changed since the request began

vars == <<rows, sess, jar, req, edits, acting, entered, changed>>

\* A password also stands for the time it was changed.
Row == [role: Role, disabled: BOOLEAN, password: Nat \ {0}]

\* marker: the actor's id; the actor's guard is Home[marker].
Slot == [user: User \cup {Nobody}, stamp: Nat, marker: User \cup {Nobody},
         tracked: BOOLEAN]

EmptySlot == [user |-> Nobody, stamp |-> 0, marker |-> Nobody, tracked |-> FALSE]

Stage == {"idle", "remember", "authenticate", "serve", "target", "owner", "create"}

Route == {"logout", "start", "stop", "sensitive", "issue"}

\* user: the id Authenticated injected; role: the actor's role as it was read.
Request == [stage: Stage, guard: Guard \cup {Nobody}, route: Route \cup {"none"},
            user: User \cup {Nobody}, actor: User \cup {Nobody},
            target: User \cup {Nobody}, role: Role \cup {Nobody},
            answer: {"none", "ok", "refused"}]

Idle == [stage |-> "idle", guard |-> Nobody, route |-> "none", user |-> Nobody,
         actor |-> Nobody, target |-> Nobody, role |-> Nobody, answer |-> "none"]

UsersOf(g) == {u \in User : Home[u] = g}

\* The login of a guard, its cookie and the marker of a switch within the guard
\* name users of that guard's table.
TypeOK ==
    /\ rows \in [User -> Row \cup {Nobody}]
    /\ sess \in [Guard -> Slot]
    /\ jar \in [Guard -> User \cup {Nobody}]
    /\ req \in Request
    /\ edits \in Nat
    /\ acting \in [Guard -> User \cup {Nobody}]
    /\ entered \in [Guard -> SUBSET User]
    /\ changed \in SUBSET User
    /\ \A g \in Guard : {sess[g].user, jar[g]} \subseteq UsersOf(g) \cup {Nobody}

Init ==
    /\ rows \in [User -> [role: Role, disabled: {FALSE}, password: {1}]]
    /\ sess = [g \in Guard |-> EmptySlot]
    /\ jar = [g \in Guard |-> Nobody]
    /\ req = Idle
    /\ edits = 0
    /\ acting = [g \in Guard |-> Nobody]
    /\ entered = [g \in Guard |-> {}]
    /\ changed = {}

-----------------------------------------------------------------------------
(* Steps of a request *)

Goto(stage) == req' = [req EXCEPT !.stage = stage]

Answer(answer) == req' = [Idle EXCEPT !.answer = answer]

SetSlot(g, slot) == sess' = [sess EXCEPT ![g] = slot]

LoggedOut(slot) == [slot EXCEPT !.user = Nobody]

\* Whose login on g the session holds now, and who switched into it.
ActsFor(g, actor) == acting' = [acting EXCEPT ![g] = actor]

Exists(u) == rows[u] # Nobody

Active(u) == Exists(u) /\ ~rows[u].disabled

\* helpers.IsImpersonating
IsImpersonating(g) == sess[g].marker # Nobody

\* The request ends with nothing changed: a bad or forbidden one, a host hook
\* that says no, a statement or a session login that fails.
Refuse ==
    /\ req.stage \notin {"idle", "remember"}
    /\ Answer("refused")
    /\ UNCHANGED <<rows, sess, jar, edits, acting, entered, changed>>

-----------------------------------------------------------------------------
(* The guard's own logins, and the middleware of its routes *)

\* completeLogin, with or without a remember cookie. The marker stays.
Login(u, remember) ==
    LET g == Home[u] IN
    /\ req.stage = "idle"
    /\ Active(u)
    /\ SetSlot(g, [sess[g] EXCEPT !.user = u, !.stamp = rows[u].password, !.tracked = TRUE])
    /\ jar' = [jar EXCEPT ![g] = IF remember THEN u ELSE @]
    /\ ActsFor(g, Nobody)
    /\ entered' = [entered EXCEPT ![g] = @ \cup {u}]
    /\ UNCHANGED <<rows, req, edits, changed>>

Receive(g, route) ==
    /\ req.stage = "idle"
    /\ req' = [Idle EXCEPT !.guard = g, !.route = route,
                  !.stage = IF sess[g].user = Nobody /\ jar[g] # Nobody
                            THEN "remember" ELSE "authenticate"]
    /\ changed' = {}
    /\ UNCHANGED <<rows, sess, jar, edits, acting, entered>>

\* RememberLogin: the cookie resolves and its user is active, or it is cleared.
RememberLogin ==
    LET g == req.guard
        u == jar[g]
    IN
    /\ req.stage = "remember"
    /\ Goto("authenticate")
    /\ \/ /\ Active(u)
          /\ SetSlot(g, [sess[g] EXCEPT !.user = u, !.stamp = rows[u].password, !.tracked = TRUE])
          /\ ActsFor(g, Nobody)
          /\ entered' = [entered EXCEPT ![g] = @ \cup {u}]
          /\ UNCHANGED jar
       \/ jar' = [jar EXCEPT ![g] = Nobody] /\ UNCHANGED <<sess, acting, entered>>
    /\ UNCHANGED <<rows, edits, changed>>

Admitted(g) ==
    LET slot == sess[g] IN
    /\ slot.user # Nobody
    /\ Active(slot.user)
    /\ slot.stamp = rows[slot.user].password

\* Authenticated and TrackSession. A lock, another password and a tracking row
\* that is gone end the login; a user who is gone is refused and stays in the
\* session. No refusal touches the marker.
Authenticate ==
    LET g == req.guard
        slot == sess[g]
    IN
    /\ req.stage = "authenticate"
    /\ \/ /\ Admitted(g)
          /\ req' = [req EXCEPT !.stage = "serve", !.user = slot.user]
          /\ UNCHANGED <<sess, acting>>
       \/ /\ slot.user # Nobody /\ Exists(slot.user) /\ ~Admitted(g)
          /\ SetSlot(g, IF rows[slot.user].disabled THEN LoggedOut(slot)
                        ELSE [LoggedOut(slot) EXCEPT !.stamp = 0])
          /\ ActsFor(g, Nobody)
          /\ Answer("refused")
       \/ /\ Admitted(g) /\ slot.tracked
          /\ SetSlot(g, LoggedOut(slot))
          /\ ActsFor(g, Nobody)
          /\ Answer("refused")
    /\ UNCHANGED <<rows, jar, edits, entered, changed>>

\* Logout ends the login, its tracking and its cookie. The marker stays.
Logout ==
    LET g == req.guard IN
    /\ req.stage = "serve"
    /\ req.route = "logout"
    /\ SetSlot(g, [LoggedOut(sess[g]) EXCEPT !.stamp = 0, !.tracked = FALSE])
    /\ jar' = [jar EXCEPT ![g] = Nobody]
    /\ ActsFor(g, Nobody)
    /\ entered' = [entered EXCEPT ![g] = {}]
    /\ Answer("ok")
    /\ UNCHANGED <<rows, edits, changed>>

\* Faulty: the route is closed by the markers of switches that left the guard.
RejectedByActor(g) == \E h \in Guard : IsImpersonating(h) /\ Home[sess[h].marker] = g

\* RejectWhileImpersonating
Rejected(g) == IsImpersonating(g)

\* The other routes that a switch closes unless the guard allows them: user
\* management and the sign-in history, which leave the session alone, and the
\* password change, which stamps it anew and clears the cookie.
ServeSensitive ==
    LET g == req.guard
        u == req.user
    IN
    /\ req.stage = "serve"
    /\ req.route = "sensitive"
    /\ g \in Sensitive \/ ~Rejected(g)
    /\ Answer("ok")
    /\ \/ UNCHANGED <<rows, sess, jar, edits, changed>>
       \/ /\ Exists(u)
          /\ edits < MaxEdits
          /\ edits' = edits + 1
          /\ rows' = [rows EXCEPT ![u].password = @ + 1]
          /\ changed' = changed \cup {u}
          /\ SetSlot(g, [sess[g] EXCEPT !.stamp = rows[u].password + 1])
          /\ jar' = [jar EXCEPT ![g] = Nobody]
    /\ UNCHANGED <<acting, entered>>

-----------------------------------------------------------------------------
(* Start and Stop *)

\* Faulty: the target's role is not looked at.
AuthorizedByActor(role, actor, target) ==
    LET gate == Gate[Home[actor]] IN
    /\ gate.roles = {} \/ role \in gate.roles
    /\ Home[target] \in gate.targetGuards

\* Impersonation.Authorize, for an actor read with this role. Without roles any
\* actor may. The host hook can only refuse, see Refuse.
Authorized(role, actor, target) ==
    LET gate == Gate[Home[actor]] IN
    /\ gate.roles = {} \/ role \in gate.roles
    /\ Home[target] \in gate.targetGuards
    /\ rows[target].role \notin gate.protectedRoles

\* Start reads the actor, and checks the request: another user, in a guard that
\* no switch is active on.
StartReadsActor ==
    /\ req.stage = "serve"
    /\ req.route = "start"
    /\ ~Rejected(req.guard)
    /\ Exists(req.user)
    /\ \E t \in User \ {req.user} :
          /\ ~IsImpersonating(Home[t])
          /\ req' = [req EXCEPT !.stage = "target", !.actor = req.user, !.target = t,
                                !.role = rows[req.user].role]
    /\ UNCHANGED <<rows, sess, jar, edits, acting, entered, changed>>

\* Faulty: the marker is stored under the actor's guard.
MarkedGuardOfActor(actor, target) == Home[actor]

\* SetImpersonator: the guard whose login the marker describes.
MarkedGuard(actor, target) == Home[target]

\* Start reads the target, asks the gate, and puts the target's login and the
\* marker into the session. The guard's tracking token stays.
StartSwitches ==
    LET t == req.target
        h == Home[t]
        login == [sess EXCEPT ![h].user = t, ![h].stamp = rows[t].password]
    IN
    /\ req.stage = "target"
    /\ Active(t)
    /\ Authorized(req.role, req.actor, t)
    /\ sess' = [login EXCEPT ![MarkedGuard(req.actor, t)].marker = req.actor]
    /\ ActsFor(h, req.actor)
    /\ Answer("ok")
    /\ UNCHANGED <<rows, jar, edits, entered, changed>>

\* Faulty: the actor is restored whatever its guard.
RestoresAlways(g) == TRUE

\* The switch was made within the guard, so that Stop restores the actor.
SameGuard(g) == Home[sess[g].marker] = g

\* Faulty: the login of g stays when nobody is restored.
DroppedMarker(g) == [sess[g] EXCEPT !.marker = Nobody]

\* What Stop leaves of g when it restores nobody.
Dropped(g) == [LoggedOut(sess[g]) EXCEPT !.stamp = 0, !.marker = Nobody]

Restored(g) ==
    [sess[g] EXCEPT !.user = sess[g].marker, !.stamp = rows[sess[g].marker].password,
                    !.marker = Nobody]

\* Stop. An actor who is gone, or whose row cannot be read, is not restored.
Stop ==
    LET g == req.guard IN
    /\ req.stage = "serve"
    /\ req.route = "stop"
    /\ IsImpersonating(g)
    /\ \/ SameGuard(g) /\ Exists(sess[g].marker) /\ SetSlot(g, Restored(g))
       \/ SetSlot(g, Dropped(g))
    /\ ActsFor(g, Nobody)
    /\ entered' = [entered EXCEPT ![g] = @ \cup ({sess'[g].user} \ {Nobody})]
    /\ Answer("ok")
    /\ UNCHANGED <<rows, jar, edits, changed>>

-----------------------------------------------------------------------------
(* API tokens issued in the actor's name *)

\* Store with a marker: IssueImpersonated reads the actor again. A guard that
\* does not delegate asks for the owner's credentials, see APITokens.
IssueReadsActor ==
    LET g == req.guard
        m == sess[g].marker
    IN
    /\ req.stage = "serve"
    /\ req.route = "issue"
    /\ g \in Sensitive \cap Delegating
    /\ IsImpersonating(g)
    /\ Active(m)
    /\ req' = [req EXCEPT !.stage = "owner", !.actor = m, !.target = req.user,
                          !.role = rows[m].role]
    /\ UNCHANGED <<rows, sess, jar, edits, acting, entered, changed>>

\* issue reads the owner and asks the gate.
IssueReadsOwner ==
    /\ req.stage = "owner"
    /\ Active(req.target)
    /\ Authorized(req.role, req.actor, req.target)
    /\ Goto("create")
    /\ UNCHANGED <<rows, sess, jar, edits, acting, entered, changed>>

\* The token is created.
Issue ==
    /\ req.stage = "create"
    /\ Answer("ok")
    /\ UNCHANGED <<rows, sess, jar, edits, acting, entered, changed>>

-----------------------------------------------------------------------------
(* Other sessions, and time *)

Edit(u, row) ==
    /\ Exists(u)
    /\ edits < MaxEdits
    /\ edits' = edits + 1
    /\ rows' = [rows EXCEPT ![u] = row]
    /\ changed' = changed \cup {u}
    /\ UNCHANGED <<sess, jar, req, acting, entered>>

\* Users.Update: role and lock.
Update(u) ==
    /\ Exists(u)
    /\ \E role \in Role, disabled \in BOOLEAN :
          /\ [rows[u] EXCEPT !.role = role, !.disabled = disabled] # rows[u]
          /\ Edit(u, [rows[u] EXCEPT !.role = role, !.disabled = disabled])

\* Users.SetPassword, or a password change in another session.
SetPassword(u) == Exists(u) /\ Edit(u, [rows[u] EXCEPT !.password = @ + 1])

\* Users.Delete
Delete(u) == Edit(u, Nobody)

\* The session store drops the session, with all it holds.
Expire ==
    /\ req.stage = "idle"
    /\ sess' = [g \in Guard |-> EmptySlot]
    /\ acting' = [g \in Guard |-> Nobody]
    /\ UNCHANGED <<rows, jar, req, edits, entered, changed>>

Next ==
    \/ \E u \in User, remember \in BOOLEAN : Login(u, remember)
    \/ \E g \in Guard, route \in Route : Receive(g, route)
    \/ RememberLogin \/ Authenticate \/ Refuse \/ Logout \/ ServeSensitive
    \/ StartReadsActor \/ StartSwitches \/ Stop
    \/ IssueReadsActor \/ IssueReadsOwner \/ Issue
    \/ \E u \in User : Update(u) \/ SetPassword(u) \/ Delete(u)
    \/ Expire

Spec == Init /\ [][Next]_vars

-----------------------------------------------------------------------------
(* Properties *)

\* The switch that req asks for is made, the token it asks for is issued.
Switches == req.stage = "target" /\ req'.answer = "ok"
Delegates == req.stage = "create" /\ req'.answer = "ok"

\* A route that is closed during a switch is served.
ServesSensitive == req.route = "sensitive" /\ req.stage = "serve" /\ req'.answer = "ok"

\* A login that somebody switched into carries the marker that says who, until
\* it ends: no other login, no other guard's request and no cookie takes the
\* marker away from under it. GET /auth/me and RejectWhileImpersonating rely on it.
ImpersonatedIsMarked ==
    \A g \in Guard : acting[g] # Nobody => sess[g].marker = acting[g]

\* In somebody else's login nobody switches further, and nobody reaches the
\* closed routes unless the guard opens them; the rejection reads the marker of
\* the right guard whatever the order of logins, switches and refusals.
NothingSensitiveAsAnother ==
    [][/\ Switches => acting[req.guard] = Nobody
       /\ ServesSensitive /\ req.guard \notin Sensitive => acting[req.guard] = Nobody]_vars

\* The rules hold for the two users as they are: an active actor of the right
\* role, an active target that is not protected.
MayImpersonate(actor, target) ==
    LET gate == Gate[Home[actor]] IN
    /\ Active(actor) /\ (gate.roles = {} \/ rows[actor].role \in gate.roles)
    /\ Home[target] \in gate.targetGuards
    /\ Active(target) /\ rows[target].role \notin gate.protectedRoles

\* A switch is made, and a token issued in the actor's name, on authority that
\* holds now, however long ago the actor logged in or switched; unless one of
\* the two rows changed while the request itself was under way.
AuthorityIsFresh ==
    [][Switches \/ Delegates =>
          \/ MayImpersonate(req.actor, req.target)
          \/ {req.actor, req.target} \cap changed # {}]_vars

\* Stop puts back nobody but a user who logged in on this guard and has not
\* logged out since, or no one at all; a marker that outlived the login it
\* described is the exception (MarkedIsImpersonated).
RestoresOnlyWhoWasThere ==
    [][req.route = "stop" /\ req'.answer = "ok" =>
          \/ sess'[req.guard].user \in entered[req.guard] \cup {Nobody}
          \/ sess[req.guard].marker # acting[req.guard]]_vars

\* docs/api-reference.md: impersonatedBy is present only while this user is
\* being impersonated. A login with a marker is one that the marker's user
\* switched into.
MarkedIsImpersonated ==
    \A g \in Guard :
        sess[g].user # Nobody /\ sess[g].marker # Nobody => acting[g] = sess[g].marker

=============================================================================
