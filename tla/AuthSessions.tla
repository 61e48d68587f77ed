---------------------------- MODULE AuthSessions ----------------------------
(***************************************************************************)
(* One account of one guard, seen from its browsers: how a session begins  *)
(* (password, second factor, remember cookie), what keeps it going on each *)
(* request, and what ends it (logout, termination from another device, a   *)
(* password change or reset, a lock).                                      *)
(*                                                                         *)
(* A browser has one request in flight at a time; requests of different    *)
(* browsers interleave at every statement that another one could notice.   *)
(* The account is one row: its password (a number: a fresh one is larger,  *)
(* and it stands for password_changed_at too) and its lock. A remember     *)
(* cookie is a token family, which a lookup finds live or not, as          *)
(* RememberPromise states and Remember implements; a tracking token is a   *)
(* random value. A name nobody holds any more may be given out again.      *)
(***************************************************************************)
EXTENDS Naturals, FiniteSets

CONSTANTS
    Browser,
    Token,        \* tracking tokens
    Family,       \* remember-token families
    None,         \* no token, no cookie
    Options       \* the configurations of the guard and its account

\* twoFactor: the account has confirmed two-factor; rememberMe, tracking: the
\* guard's options EnableRememberMe and EnableSessions; faults: statements may
\* fail; maxPassword, maxFamilies: bounds on the passwords and on the families
\* at a time.
Option == [twoFactor: BOOLEAN, rememberMe: BOOLEAN, tracking: BOOLEAN,
           faults: BOOLEAN, maxPassword: Nat \ {0}, maxFamilies: Nat]

ASSUME AuthSessionsAssumption ==
    /\ None \notin Browser \cup Token \cup Family
    /\ Browser \cap Family = {}
    /\ Options \subseteq Option

VARIABLES
    option,     \* the configuration, which never changes
    password,   \* the row's password_hash and password_changed_at
    locked,     \* the row's disabled_at
    live,       \* the families in the remember-token table
    tracks,     \* the tokens in the active-session table
    sess,       \* sess[b]: the data of b's session
    jar,        \* jar[b]: b's remember cookie
    pc,         \* pc[b]: the statement b's request runs next
    call,       \* call[b]: what b's request is, and the password it read
    \* History, read by the properties only:
    origin,     \* origin[b], origin[f]: the password that was typed to begin it
    excused,    \* sessions and families that overlapped with a password change
    left,       \* browsers that logged out and have not logged in since
    lost        \* tokens in the table that no session carries any more

serverVars == <<password, locked, live, tracks>>
clientVars == <<sess, jar, pc, call>>
historyVars == <<origin, excused, left, lost>>
vars == <<option, serverVars, clientVars, historyVars>>

TwoFactor == option.twoFactor
RememberMe == option.rememberMe
Tracking == option.tracking
MaxPassword == option.maxPassword
MaxFamilies == option.maxFamilies

Session == [authed: BOOLEAN, stamp: Nat, track: Token \cup {None},
            pending: Nat,      \* 0, or the password that was typed
            intent: BOOLEAN]

NoSession ==
    [authed |-> FALSE, stamp |-> 0, track |-> None, pending |-> 0, intent |-> FALSE]

Stage == {"idle", "verify", "issue", "track", "remember", "rotate", "load",
          "authenticate", "touch", "serve", "write", "reread", "revoke", "drop"}

\* The guarded routes whose handlers touch this state, and any other.
Route == {"logout", "password", "terminate", "terminateOthers", "other"}

NoCall == [route |-> "login", read |-> 0, want |-> FALSE]

TypeOK ==
    /\ option \in Option
    /\ password \in Nat
    /\ locked \in BOOLEAN
    /\ live \in SUBSET Family
    /\ tracks \in SUBSET Token
    /\ sess \in [Browser -> Session]
    /\ jar \in [Browser -> Family \cup {None}]
    /\ pc \in [Browser -> Stage]
    /\ call \in [Browser -> [route: Route \cup {"login"}, read: Nat, want: BOOLEAN]]
    /\ origin \in [Browser \cup Family -> Nat]
    /\ excused \in SUBSET (Browser \cup Family)
    /\ left \in SUBSET Browser
    /\ lost \in SUBSET tracks
    /\ \A b \in Browser : pc[b] \in {"rotate", "load"} => jar[b] # None

Init ==
    /\ option \in Options
    /\ password = 1
    /\ locked = FALSE
    /\ live = {}
    /\ tracks = {}
    /\ sess = [b \in Browser |-> NoSession]
    /\ jar = [b \in Browser |-> None]
    /\ pc = [b \in Browser |-> "idle"]
    /\ call = [b \in Browser |-> NoCall]
    /\ origin = [x \in Browser \cup Family |-> 0]
    /\ excused = {}
    /\ left = {}
    /\ lost = {}

-----------------------------------------------------------------------------
(* Steps of a request *)

Goto(b, stage) == pc' = [pc EXCEPT ![b] = stage]

\* The response is sent.
Answer(b) == Goto(b, "idle") /\ call' = [call EXCEPT ![b] = NoCall]

\* A statement fails, if statements may.
Fails == option.faults

SetSession(b, data) == sess' = [sess EXCEPT ![b] = data]

LoggedOut(data) == [data EXCEPT !.authed = FALSE]

Held == {sess[b].track : b \in Browser} \cup tracks

FreshTokens == Token \ Held

FreshFamilies ==
    LET known == (live \cup {jar[b] : b \in Browser}) \cap Family IN
    IF Cardinality(known) < MaxFamilies THEN Family \ known ELSE {}

\* Faulty: the response forgets to clear the cookie.
ClearedNever(b) == jar

\* ClearRememberCookie
Cleared(b) == [jar EXCEPT ![b] = None]

\* SetRememberCookie
Handed(b, f) == [jar EXCEPT ![b] = f]

\* sessions.Forget
WithoutRow(t) == tracks \ {t}

\* A family is revoked or a session ends: history forgets it.
Forget(ended) ==
    /\ origin' = [x \in Browser \cup Family |-> IF x \in ended THEN 0 ELSE origin[x]]
    /\ excused' = excused \ ended

\* What a request does after completeLogin's session data is in place.
AfterLogin(want) == IF RememberMe /\ want THEN "issue" ELSE IF Tracking THEN "track" ELSE "idle"

-----------------------------------------------------------------------------
(* Login and the two-factor challenge *)

\* completeLogin: the session of b, logged in with the row it read.
Stamped(b, stamp) ==
    [sess[b] EXCEPT !.authed = TRUE, !.stamp = stamp, !.pending = 0, !.intent = FALSE]

CompleteLogin(b, stamp, typed, want) ==
    /\ SetSession(b, Stamped(b, stamp))
    /\ Goto(b, AfterLogin(want))
    /\ call' = [call EXCEPT ![b] = NoCall]
    /\ origin' = [origin EXCEPT ![b] = typed]
    /\ excused' = IF typed = password THEN excused \ {b} ELSE excused \cup {b}
    /\ left' = left \ {b}

\* auth.Authenticate, of the password typed.
PasswordAccepted(typed) == typed = password

\* The right password for an account that is not locked; every other login is
\* refused and changes nothing. With a second factor the session waits for the
\* challenge; a remember intent is recorded and never taken back.
Login(b, typed, want) ==
    /\ pc[b] = "idle"
    /\ PasswordAccepted(typed)
    /\ ~locked
    /\ IF TwoFactor
       THEN /\ SetSession(b, [sess[b] EXCEPT !.pending = typed, !.intent = @ \/ want])
            /\ UNCHANGED <<pc, call, origin, excused, left>>
       ELSE CompleteLogin(b, password, typed, want)
    /\ UNCHANGED <<serverVars, jar, lost>>

\* The challenge reads the row of the pending user.
Challenge(b) ==
    /\ pc[b] = "idle"
    /\ sess[b].pending # 0
    /\ Goto(b, "verify")
    /\ call' = [call EXCEPT ![b] = [NoCall EXCEPT !.read = password]]
    /\ UNCHANGED <<serverVars, sess, jar, historyVars>>

\* The code is right, and the login completes with the row read before; or it
\* is wrong.
Verify(b) ==
    /\ pc[b] = "verify"
    /\ \/ CompleteLogin(b, call[b].read, sess[b].pending, sess[b].intent)
       \/ Answer(b) /\ UNCHANGED <<sess, origin, excused, left>>
    /\ UNCHANGED <<serverVars, jar, lost>>

\* remember.Issue; its failure is logged, and the bound on families shows as one.
Issue(b) ==
    /\ pc[b] = "issue"
    /\ Goto(b, AfterLogin(FALSE))
    /\ \/ \E f \in FreshFamilies :
             /\ live' = live \cup {f}
             /\ jar' = Handed(b, f)
             /\ origin' = [origin EXCEPT ![f] = origin[b]]
             /\ excused' = IF origin[b] = password THEN excused \ {f} ELSE excused \cup {f}
       \/ /\ Fails \/ FreshFamilies = {}
          /\ UNCHANGED <<live, jar, origin, excused>>
    /\ UNCHANGED <<password, locked, tracks, sess, call, left, lost>>

\* Faulty: the row of the session's earlier token is left behind.
TracksKeepingOld(old, new) == tracks \cup {new}

\* Faulty: every row of the user is deleted, not that of the session alone.
TracksAlone(old, new) == {new}

\* The table after Forget of the session's earlier token and Track of the new.
TracksAfter(old, new) == (tracks \ {old}) \cup {new}

\* sessions.Forget and sessions.Track at the end of a login and of a remember
\* login. Each may fail, and the session carries the new token all the same.
Track(b) ==
    LET old == sess[b].track IN
    /\ pc[b] = "track"
    /\ \E new \in FreshTokens :
          /\ SetSession(b, [sess[b] EXCEPT !.track = new])
          /\ \/ tracks' = TracksAfter(old, new) /\ lost' = lost
             \/ Fails /\ tracks' = WithoutRow(old) /\ lost' = lost
             \/ Fails /\ tracks' = tracks \cup {new} /\ lost' = lost \cup (tracks \cap {old})
             \/ Fails /\ tracks' = tracks /\ lost' = lost \cup (tracks \cap {old})
    /\ IF call[b].route = "login" THEN Answer(b) ELSE Goto(b, "authenticate") /\ UNCHANGED call
    /\ UNCHANGED <<password, locked, live, jar, origin, excused, left>>

-----------------------------------------------------------------------------
(* The middleware of a guarded route: RememberLogin, Authenticated and     *)
(* TrackSession.                                                           *)

\* The session holds a login of the guard.
LoggedIn(b) == sess[b].authed

Request(b, route) ==
    /\ pc[b] = "idle"
    /\ call' = [call EXCEPT ![b] = [NoCall EXCEPT !.route = route]]
    /\ Goto(b, IF RememberMe /\ ~LoggedIn(b) /\ jar[b] # None
               THEN "remember" ELSE "authenticate")
    /\ UNCHANGED <<serverVars, sess, jar, historyVars>>

\* Another browser's password change has written the row and not yet revoked
\* the remember tokens.
Changing(b) == \E a \in Browser \ {b} : pc[a] \in {"reread", "revoke"}

\* Resolve looks the family up.
Resolve(b) ==
    LET f == jar[b] IN
    /\ pc[b] = "remember"
    /\ \/ /\ f \in live
          /\ Goto(b, "rotate")
          /\ origin' = [origin EXCEPT ![b] = origin[f]]
          /\ excused' = IF Changing(b) \/ f \in excused THEN excused \cup {b} ELSE excused \ {b}
          /\ UNCHANGED jar
       \/ /\ f \notin live \/ Fails
          /\ jar' = Cleared(b)
          /\ Goto(b, "authenticate")
          /\ UNCHANGED <<origin, excused>>
    /\ UNCHANGED <<serverVars, sess, call, left, lost>>

\* A remember login is refused: the cookie is cleared, and families are revoked.
RefuseCookie(b, families) ==
    /\ live' = live \ families
    /\ jar' = Cleared(b)
    /\ Goto(b, "authenticate")
    /\ Forget(families \cup {b})

\* Resolve rotates the validator or accepts the superseded one, and the login
\* goes on; or it deletes an expired family, or every family because of a
\* validator it does not know, and refuses.
Rotate(b) ==
    /\ pc[b] = "rotate"
    /\ \/ Goto(b, "load") /\ UNCHANGED <<live, jar, origin, excused>>
       \/ \E families \in {{jar[b]}, live} : RefuseCookie(b, families)
    /\ UNCHANGED <<password, locked, tracks, sess, call, left, lost>>

\* RememberLogin loads the account: a locked one loses every family, another
\* one has a session again, with the password stamp of now.
Load(b) ==
    /\ pc[b] = "load"
    /\ \/ /\ ~locked
          /\ SetSession(b, [sess[b] EXCEPT !.authed = TRUE, !.stamp = password])
          /\ Goto(b, IF Tracking THEN "track" ELSE "authenticate")
          /\ UNCHANGED <<live, jar, origin, excused>>
       \/ /\ locked \/ Fails
          /\ RefuseCookie(b, live)
          /\ UNCHANGED sess
    /\ UNCHANGED <<password, locked, tracks, call, left, lost>>

\* Faulty: a session without a stamp, or with another one, passes.
StampValidUnchecked(b) == TRUE

\* sessionPasswordTimestampValid
StampValid(b) == sess[b].stamp = password

Admitted(b) == LoggedIn(b) /\ ~locked /\ StampValid(b)

\* What Authenticated leaves of a session it refuses.
Refused(data) ==
    IF ~data.authed THEN data
    ELSE IF locked THEN LoggedOut(data)
    ELSE [LoggedOut(data) EXCEPT !.stamp = 0]

Authenticate(b) ==
    /\ pc[b] = "authenticate"
    /\ \/ /\ Admitted(b)
          /\ Goto(b, IF Tracking THEN "touch" ELSE "serve")
          /\ UNCHANGED <<sess, call, origin, excused>>
       \/ ~Admitted(b) /\ SetSession(b, Refused(sess[b])) /\ Answer(b) /\ Forget({b})
       \/ Fails /\ Answer(b) /\ UNCHANGED <<sess, origin, excused>>
    /\ UNCHANGED <<serverVars, jar, left, lost>>

\* Faulty: Touch inserts the row when there is none to update.
TouchedByUpsert(b) == tracks \cup ({sess[b].track} \cap Token)

\* The tracking table after Touch: the update of last_active_at adds no row.
Touched(b) == tracks

\* What sessions.Touch reports: a session without a token is alive.
Alive(b) == sess[b].track \in Touched(b) \cup {None}

\* TrackSession lets any session pass while the statement fails.
Touch(b) ==
    /\ pc[b] = "touch"
    /\ \/ /\ Alive(b) \/ Fails
          /\ Goto(b, "serve")
          /\ UNCHANGED <<sess, call, origin, excused>>
       \/ /\ ~Alive(b)
          /\ SetSession(b, LoggedOut(sess[b]))
          /\ Answer(b)
          /\ Forget({b})
    /\ tracks' = Touched(b)
    /\ UNCHANGED <<password, locked, live, jar, left, lost>>

-----------------------------------------------------------------------------
(* The handlers *)

\* The rows that are not this session's.
Others(b) == tracks \ {sess[b].track}

\* Any other route, or Terminate of a session that is not on the list.
ServeOther(b) ==
    /\ pc[b] = "serve"
    /\ call[b].route = "other" \/ (call[b].route = "terminate" /\ Others(b) = {})
    /\ Answer(b)
    /\ UNCHANGED <<serverVars, sess, jar, historyVars>>

\* Logout drops the guard's login, its stamp and its token, then the token's
\* row and the cookie's family: two statements on tables of their own, taken
\* together. Each may fail; the cookie is cleared all the same.
Logout(b) ==
    /\ pc[b] = "serve"
    /\ call[b].route = "logout"
    /\ SetSession(b, [LoggedOut(sess[b]) EXCEPT !.stamp = 0, !.track = None])
    /\ \/ tracks' = WithoutRow(sess[b].track) /\ lost' = lost
       \/ Fails /\ tracks' = tracks /\ lost' = lost \cup (tracks \cap {sess[b].track})
    /\ \/ live' = live \ {jar[b]} /\ Forget({jar[b], b})
       \/ Fails /\ Forget({b}) /\ UNCHANGED live
    /\ jar' = Cleared(b)
    /\ left' = left \cup {b}
    /\ Answer(b)
    /\ UNCHANGED <<password, locked>>

\* sessions.Terminate, of another session on the list.
Terminate(b) ==
    /\ pc[b] = "serve"
    /\ call[b].route = "terminate"
    /\ \E t \in Others(b) :
          tracks' = tracks \ {t} /\ lost' = lost \ {t}
    /\ Answer(b)
    /\ UNCHANGED <<password, locked, live, sess, jar, origin, excused, left>>

\* sessions.TerminateOthers, as a route of its own and at the end of a password
\* change, where its failure is logged.
TerminateOthers(b) ==
    /\ \/ pc[b] = "serve" /\ call[b].route = "terminateOthers"
       \/ pc[b] = "drop"
    /\ \/ tracks' = tracks \ Others(b) /\ lost' = lost \ Others(b)
       \/ Fails /\ UNCHANGED <<tracks, lost>>
    /\ Answer(b)
    /\ UNCHANGED <<password, locked, live, sess, jar, origin, excused, left>>

\* auth.ChangePassword reads the row and compares the password typed with it.
CheckPassword(b) ==
    /\ pc[b] = "serve"
    /\ call[b].route = "password"
    /\ \/ password < MaxPassword /\ Goto(b, "write") /\ UNCHANGED call
       \/ Answer(b)      \* wrong, or not acceptable
    /\ UNCHANGED <<serverVars, sess, jar, historyVars>>

\* Requests that are about to put a new stamp on a session that began with the
\* password as it was before.
Overtaken(b) == {c \in Browser \ {b} : pc[c] \in {"rotate", "load", "reread"}}

WritePassword(b) ==
    /\ pc[b] = "write"
    /\ \/ /\ password < MaxPassword
          /\ password' = password + 1
          /\ call' = [call EXCEPT ![b].read = password + 1]
          /\ excused' = excused \cup Overtaken(b)
          /\ Goto(b, "reread")
       \/ /\ Fails \/ password = MaxPassword
          /\ Answer(b)
          /\ UNCHANGED <<password, excused>>
    /\ UNCHANGED <<locked, live, tracks, sess, jar, origin, left, lost>>

AfterPassword == IF RememberMe THEN "revoke" ELSE IF Tracking THEN "drop" ELSE "idle"

\* The row is read again for the stamp. If that fails the request ends with an
\* error: the session is not stamped and the remember tokens stay.
Reread(b) ==
    /\ pc[b] = "reread"
    /\ \/ /\ SetSession(b, [sess[b] EXCEPT !.stamp = password])
          /\ origin' = [origin EXCEPT ![b] = call[b].read]
          /\ excused' = IF call[b].read = password THEN excused \ {b} ELSE excused \cup {b}
          /\ Goto(b, AfterPassword)
          /\ call' = [call EXCEPT ![b] = NoCall]
       \/ /\ Fails
          /\ excused' = excused \cup live
          /\ Answer(b)
          /\ UNCHANGED <<sess, origin>>
    /\ UNCHANGED <<serverVars, jar, left, lost>>

\* Faulty: only the family of this browser's cookie is revoked.
OwnFamilies(b) == {jar[b]}

\* The families RevokeAllForUser deletes after a password change.
AllFamilies(b) == live

RevokeAllForUser(b) ==
    /\ pc[b] = "revoke"
    /\ \/ live' = live \ AllFamilies(b) /\ Forget(AllFamilies(b))
       \/ Fails /\ excused' = excused \cup live /\ UNCHANGED <<live, origin>>
    /\ jar' = Cleared(b)
    /\ Goto(b, IF Tracking THEN "drop" ELSE "idle")
    /\ UNCHANGED <<password, locked, tracks, sess, call, left, lost>>

-----------------------------------------------------------------------------
(* The administrator, the schedule and the passing of time *)

\* Users.SetPassword: the reads it runs first change nothing it writes.
SetPassword ==
    /\ password < MaxPassword
    /\ password' = password + 1
    /\ excused' = excused \cup Overtaken(None) \cup live
    /\ UNCHANGED <<locked, live, tracks, clientVars, origin, left, lost>>

\* Users.Update with disabled set; Users shows what happens between its read
\* and its save.
Lock ==
    /\ ~locked
    /\ locked' = TRUE
    /\ UNCHANGED <<password, live, tracks, clientVars, historyVars>>

Unlock ==
    /\ locked
    /\ locked' = FALSE
    /\ UNCHANGED <<password, live, tracks, clientVars, historyVars>>

\* The session store drops b's session.
Expire(b) ==
    /\ pc[b] = "idle"
    /\ sess[b] # NoSession
    /\ SetSession(b, NoSession)
    /\ lost' = lost \cup (tracks \cap {sess[b].track})
    /\ Forget({b})
    /\ UNCHANGED <<serverVars, jar, pc, call, left>>

\* sessions.PruneStale: rows whose session has expired.
PruneStale ==
    /\ tracks' = tracks \ lost
    /\ lost' = {}
    /\ lost # {}
    /\ UNCHANGED <<password, locked, live, clientVars, origin, excused, left>>

-----------------------------------------------------------------------------

\* The next statement of b's request.
Step(b) ==
    /\ \/ Verify(b) \/ Issue(b) \/ Track(b)
       \/ Resolve(b) \/ Rotate(b) \/ Load(b) \/ Authenticate(b) \/ Touch(b)
       \/ ServeOther(b) \/ Logout(b) \/ Terminate(b) \/ TerminateOthers(b)
       \/ CheckPassword(b) \/ WritePassword(b) \/ Reread(b) \/ RevokeAllForUser(b)
    /\ UNCHANGED option

Next ==
    /\ \/ \E b \in Browser :
             \/ \E typed \in 1..MaxPassword, want \in BOOLEAN : Login(b, typed, want)
             \/ \E route \in Route : Request(b, route)
             \/ Challenge(b) \/ Expire(b) \/ Step(b)
       \/ SetPassword \/ Lock \/ Unlock \/ PruneStale
    /\ UNCHANGED option

Spec == Init /\ [][Next]_vars

\* The server runs a request it has received to its end.
FairSpec == Spec /\ \A b \in Browser : WF_vars(Step(b))

-----------------------------------------------------------------------------
(* Properties *)

\* Authenticated lets b's request through.
Passes(b) == pc[b] = "authenticate" /\ pc'[b] \in {"touch", "serve"}

\* A session that began with an earlier password is served only if it slipped
\* through one of the windows the code leaves: its login, remember login or
\* re-stamp was in flight while the password was written, its second factor was
\* still owed, its cookie was kept by an administrator's reset, or the statement
\* that revokes remember tokens was not reached or failed.
OutlivesPasswordOnlyIfExcused ==
    [][\A b \in Browser : Passes(b) => origin[b] = password \/ b \in excused]_vars

\* A browser that logged out is served again only after a login with the
\* password: neither its session nor its remember cookie brings it back.
LogoutNeedsLogin == [][\A b \in Browser : Passes(b) => b \notin left]_vars

\* A session that another device terminated stays terminated: no request that
\* was under way, not even one that refreshes last_active_at, brings back the
\* row of its token.
TerminatedForGood ==
    [][\A b \in Browser :
          LET t == sess[b].track IN
          t # None /\ t \notin tracks /\ sess'[b].track = t => t \notin tracks']_vars

\* The list of active sessions shows no device twice: every row belongs to a
\* session that carries its token, or to one that was lost to expiry or to a
\* failed statement and that the prune will delete.
NoGhostSession == tracks \subseteq {sess[b].track : b \in Browser} \cup lost

\* Once a password change has written the row, every remember token issued
\* before it is revoked, except those the windows above let survive.
RevocationFollows ==
    \A f \in Family :
        (f \in live /\ origin[f] # password) ~> (f \notin live \/ f \in excused)

=============================================================================
