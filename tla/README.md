# A TLA+ verification of goravel-authkit

goravel-authkit adds authentication to a Goravel application: logins with a
password, a second factor or a remember cookie, sessions that can be listed and
terminated, user management, personal API tokens, impersonation, and the rate
limits in front of all of it. This directory holds TLA+ modules translated from
its source, the TLC configurations that check them, and theorems about them
that TLAPS proves.

Almost nothing in the code runs in a transaction. An operation is a request
that reads rows, decides, and writes in later statements, while other requests
do the same to the same rows. Two places lock a row (`MutateLocked`), one
compares and sets (`RotateValidator`), one holds a mutex (the rate-limit
store). The project asks what the rest relies on, and what survives when the
statements of several requests interleave, fail in between, or come late.

## The system

| Component | State | Operations | Correct when |
|---|---|---|---|
| Remember-me tokens (`services/remember.go`, `repositories/remember.go`) | token table: selector, validator, previous validator, times | Issue, Resolve (find, rotate by compare-and-set, accept the superseded validator for a grace period, revoke everything on a wrong one), Revoke, RevokeAllForUser, PruneExpired | one validator has one successor; no browser is left with an unknown cookie; a race is not theft; what is revoked stays revoked |
| Rate limiter (`http/middleware/rate_limit.go`) | attempts per bucket, time of the last sweep, a mutex | Hit, and the sweep it may trigger | no window admits more than its limit; Retry-After is right; the store does not grow without bound |
| User accounts (`services/users.go`, `services/auth.go`, `repositories/users.go`) | users table | Create, Update, Delete, SetPassword, UpdateProfile, ChangePassword | someone can always manage users; an operation changes its own columns only |
| Sessions and logins (`http/controllers/auth.go`, `http/controllers/twofactor.go`, `http/middleware/{remember,authenticated,track_session}.go`, `services/sessions.go`) | session data (login, password stamp, tracking token, pending second factor), cookies, tracking table | Login, Challenge, remember login, the middleware of a guarded route, Logout, terminate, password change, lock | a password change, a termination and a logout end what they say they end |
| Two-factor (`services/twofactor.go`) | four columns of the user's row | Enable, Confirm, Disable, RegenerateRecoveryCodes, VerifyLoginCode, ConsumeRecoveryCode | the active secret is one the user has; a code works once |
| API tokens (`services/api_tokens.go`, `http/middleware/api_token.go`) | token table | Issue, bearer request, Revoke, RevokeAll, Prune | a dead token stays dead; tokens do not outlive the credentials they were issued for; the limit holds |
| Impersonation (`services/impersonation.go`, `http/controllers/impersonation.go`) | a marker in the session, the logins of several guards in one session | Start, Stop, rejection of sensitive routes | the actor comes back, and nobody else is taken for impersonated |
| Audit log (`services/audit.go`, `services/admin_logins.go`, `repositories/login_events.go`) | append-only table | Log, and the administrator's pages of sign-ins | no sign-in falls between two pages; the number of pages is not a promise that the rows break |
| Role check (`RequireRole` in `http/middleware/authenticated.go`) | none; reads the actor's row | in front of user management | only managers manage |
| Origin check (`http/middleware/csrf.go`) | none | per request | a write from a foreign page, or from one that does not say, is refused |
| Routes and wiring (`routes/routes.go`, `routes/guards.go`, `service_provider.go`) | the options of each guard, the migrated tables, the mounted routes | Boot, RegisterAll, Protect, ProtectRole, ProtectToken, ProtectAny, and each middleware of a request | what a route promises is what decides a request, by the options its guard is mounted with |

How they meet. `routes` mounts, per guard, the middleware RememberLogin,
Authenticated and TrackSession before a handler. RememberLogin calls
`Remember.Resolve` and makes a session; Authenticated compares the session's
password stamp with `password_changed_at` and looks at `disabled_at`;
TrackSession refuses a session that carries a tracking token whose row is gone
(one that carries none passes). A password change
writes the user's row and then, in statements of their own, revokes remember
tokens, tracking rows and API tokens. A lock revokes API tokens only. The
second factor lives in columns of the user's row, which the whole-row saves of
`Users.Update` and `Auth.UpdateProfile` write too. All guards of an application
share one rate-limit store unless the host configures another.

What is hard: the interleaving of statements (all of the above), requests that
stop half way because a statement failed, reads that are stale when they are
used, clocks read before the statement that uses them, and boundaries
(expiry, limits, grace). There are no messages between processes and no
recovery code: a restart loses the rate-limit store and nothing else.

## Modules

| Module | Models |
|---|---|
| `RememberTable` | the remember-token table and each statement on it |
| `Remember` | the service: requests that present cookies, one statement at a time |
| `RememberPromise` | what the service promises: families are live until revoked, and a request is logged in by the family of its own cookie, if that was live while it ran |
| `SlidingWindow` | a rate limiter that forgets nothing and knows one bucket at a time |
| `RateLimit` | the store with filtering, sweep and Retry-After |
| `UsersTable`, `Users` | the users table, the six operations that write it, and the role check in front of four of them |
| `AuthSessions` | one account, its browsers, sessions and cookies |
| `TwoFactor` | the second factor of one user |
| `APITokens` | the API tokens of one user and the bearer requests that use them |
| `Impersonation` | the logins and switches of several guards in one session, and what they close and allow |
| `AdminLogins` | the audit table and an administrator who reads it page by page |
| `Gateway` | the configuration of guards and the middleware a request passes |
| `Remember_proofs`, `RateLimit_proofs`, `LoginRecords_proofs` (of `TwoFactor` and `AdminLogins`), `APITokens_proofs`, `Impersonation_proofs`, `Users_proofs`, `AuthSessions_proofs`, `Gateway_proofs` | theorems |
| `MC*` | symmetry sets and constants for TLC |

`Remember` implements `RememberPromise`, and `RateLimit` implements
`SlidingWindow`, by refinement mappings. `AuthSessions` uses a remember family
as `RememberPromise` states it (live or not), so that what `Remember` is shown
to implement is what the sessions rely on. `Users` EXTENDS `UsersTable`, and
`Remember` EXTENDS `RememberTable`: the tables are operators that take rows and
return rows, the services are the actions around them.

### How the models read

* A statement on the database is one step. An operation is a sequence of
  steps of a request that holds in a variable (`stage`, `work`, `pc`) which
  statement comes next and what it read. Whatever happens between two
  statements of one request without touching shared state is part of the step
  before or after.
* `StatementFails`, or the disjuncts with `Fails`, let any statement fail; the
  request then does what the code does with the error: return, log and go on,
  or clear the cookie.
* Secrets, selectors, validators, codes and cookies are values of small sets.
  A fresh one was never used before. A password is a number, which also stands
  for `password_changed_at`: the two columns are written together.
* History variables are named as such at their declaration. No guard reads
  them.
* An operator under a comment that begins with "Faulty" is a variant of the
  definition that follows it with a plausible mistake. No specification uses
  it. Put in place of the definition, it breaks one property, which shows that
  the property says something about that code.

### `Remember`

A cookie is a selector and a validator. `Present` and `Find` are the split of
the cookie and `FindBySelector`; `Verdict` is the decision of `Resolve` on the
row it found (expired, current, superseded within grace, stolen); `Rotate` is
the compare-and-set `RotateValidator`, whose zero rows are taken for a lost
race; `Expire` and `RevokeFamily` are its two deletes. Any cookie that was ever
handed out may be presented at any time, so a stolen, delayed or lost response
is covered by the choice of the cookie.

The promise keeps what a request asked for: `claim` is the family whose cookie
it presents, and `Admitted` needs that family live, whichever others are. The
refinement mapping takes it from the cookie the request holds in `Remember`
(`Claim`), so `Decision`, which goes by the row of the cookie's selector, is
what implements it.

### `RateLimit`

`Hit` holds the mutex throughout, so it is one step, `Deny` or `Allow`. The
list of a bucket is a set of attempts with serial numbers. `Init` puts
`lastSweep` further back than any window, as the zero `time.Time` is.
`RetrySeconds` is the header that `enforceRateLimit` and the middleware compute
from the store's answer: whole seconds, rounded up.

### `Users`

`Start` chooses an operation and its arguments, and for a management operation
whether it comes over the routes, from an actor whom Authenticated let through
(`op[r].by`), or from the host. `RequireRole` reads the actor's row, compares
the role, and applies the handlers' refusals (`SelfRefused`); it does not look
at the lock again. `Read`, `Count`, `LookUpEmail`,
`SaveRow`, `InsertRow`, `WritePassword`, `RemoveRow`, `RevokeTokens` and
`Reread` are the statements; `NextStatement`, `Guarded` and `Refusal` are the
decisions. `stale[r]` says which reads of `r` another request has written
behind, those of the actor's row or those it decides on, and `raced` that some
request has written on stale reads of the second kind. The gap between
`RequireRole` and the write is in the model: a manager who is demoted or locked
in between still writes.

### `AuthSessions`

One account of one guard. Each browser has one request in flight, `pc[b]` says
where it is: `verify` and `issue` and `track` are the rest of a login,
`remember`, `rotate` and `load` the remember middleware, `authenticate` and
`touch` the other two, `serve` the handler, `write`, `reread`, `revoke` and
`drop` the rest of a password change. `option` is the guard's configuration
and never changes; a run gives the set it starts from. `excused` holds the
sessions and families whose beginning overlapped with a password change, or
that a failed statement left, each in the action where it happens:

* a challenge or a login that read the row before the change (`CompleteLogin`, `Issue`);
* a remember login or another password change that was about to take a new
  stamp (`Overtaken`, `Reread`) or found its family before it was revoked (`Changing`);
* a change whose revocation failed or was not reached (`Reread`, `RevokeAllForUser`);
* every family at an administrator's reset, which revokes none (`SetPassword`).

### `TwoFactor`

`VerifyLoginCode` and `ConsumeRecoveryCode` are one step each: `MutateLocked`
locks the row. All others read and write in two (`...Reads`, `...Writes`), and
write what they computed from the row they read. `Disable` writes constants.
`proven` holds the secrets a code of which `Confirm` accepted, `accepted` what
logins consumed.

### `APITokens`

`ReadOwner`, `Count`, `Create` are `issue`; `Find`, `Touch`, `LoadOwner` are a
bearer request; `ChangeCredentials` and `RevokeAll` are any operation that
writes the owner's password or lock and then revokes. An operation works with
the time it read when it began, which is `work[r].at`.

### `Impersonation`

One session, two guards with a table of users each. `sess[g]` is what the
session holds for guard `g`: the login, its password stamp, whether a tracking
token is there, and the marker, which is the actor's id (`Home` gives its
guard). One request is in flight, and `req` says where it is and what it read;
requests of other sessions change the users at any time (`Update`,
`SetPassword`, `Delete`). `StartReadsActor` and `StartSwitches` are `Start`,
`Stop` is `Stop`, `Rejected` is RejectWhileImpersonating, and `IssueReadsActor`,
`IssueReadsOwner`, `Issue` are a token issued in the actor's name. `Login`,
`RememberLogin`, `Authenticate` and `Logout` are here as far as they touch what
guards share; their statements, second factor and faults are in `AuthSessions`.
`acting[g]` says who switched into the login of `g`, without looking at the
marker, and `entered[g]` who logged in there; the properties compare the two
with the marker. A host policy can only refuse (`Refuse`).

### `AdminLogins`

`Log` is the moment at which an entry takes its id and its time, `LogWritten`
the moment at which others see it; between the two other entries appear, so
times and appearance disagree. `Statements` is the order of the two statements
of `List`, `Count` and `Rows`. `Positions` are the orders that the `ORDER BY`
allows, so a tie the clause leaves open is open in the model. `walk` follows an
administrator who asks for page after page with the same filters: what matched
at the first page (`from`), what was shown since (`seen`), and whether a user
changed on the way (`moved`). The ids are ordered and random, as UUIDs are. A
page or a page size may be asked for that is negative; `Refused` ends such a
request, and a size of more than `MaxPageSize`, before any statement.

### `Gateway`

`conf` is what the host wrote, and `OptionsFromConfig`, `OptionsForGuard` and
`GuardOptions` make options of it. `Boot` migrates the tables they name,
`RegisterAll` mounts them; the host's own routes ask `OptionsByGuard` again
(`HostChain`). A request has a set of middleware to pass, `todo`, and `Before`
says in which order; each middleware is one action, which reads the headers,
the session or a row as it is then. `Facts` says what is true of the request,
without the tables' names and without the middleware; `Required` says which of
the facts its route promises. `held` and `always` are the facts that held at
some moment of the request and at every moment.

One route stands for those with the same middleware: `me` for logout, sessions,
two-factor and the login history, `login` for the challenge. A middleware whose
statements other modules interleave is one step here (`RememberLogin`), and the
counts of the rate limiter are a choice (`Limit`), which is asked only where
`RateLimitByIP` is mounted (`Limited`).

A session's `tracking` says whether it carries a tracking token and whether the
row of the token is there. A session without a token is one from before
`EnableSessions`, or one that was switched into from another guard; `Alive`
lets it pass, as `Touch` does. A remember login writes a token whether or not
the statement that writes its row succeeds (`TrackingAfter`).

## Runs

| Run | Instance | Shows |
|---|---|---|
| `remember` | 2 requests, 2 families, 3 validators | `OneSuccessor`, `NoOrphanCookie`, `NotMistakenForTheft`, `RevokedForGood`, and that `Remember` implements `RememberPromise` |
| `rate_limit` | 2 buckets with limits 2 and 1, one window of 3, 9 attempts, time to 6 | `WithinLimit`, `RetryAfterIsExact` (a client that waits what the header says is admitted, one that comes a second earlier is not), `SweepBoundsStore`, and that `RateLimit` implements `SlidingWindow` |
| `rate_limit_guards` | windows of 1 and 3 | violates `WithinLimit` |
| `users` | 2 requests, 2 users, 2 operations | `KeepsActiveAdminUnlessRaced`, `FreshWritesKeepToTheirColumns`, `ManagersKeepTheirAccount` |
| `sessions` | 2 browsers; tracking, remember-me, both (each with faults), remember-me with two-factor; 3 passwords and 2 families, or 2 and 1 in the last two configurations | `NoGhostSession`, `TerminatedForGood`, `OutlivesPasswordOnlyIfExcused`, `LogoutNeedsLogin` |
| `sessions_live` | 2 browsers, remember-me, no faults | `RevocationFollows` |
| `two_factor` | 2 requests, 2 secrets, 2 recovery codes, 2 time steps | `ActiveSecretProven`, `LoginCodesOnce`, `RecoveryCodesOnce` |
| `api_tokens` | 2 requests, 3 tokens, limit 1, time to 3, issues that begin by 2, 1 change of credentials | `LimitExceededByRacersOnly`, `OutlivesCredentialsOnlyIfExcused`, `DeadForGood`, `LastUsedNeverGoesBack` |
| `impersonation` | the rules of the demo application: 2 administrators, 1 client, 1 change of a user; sensitive actions and delegated tokens open on one guard and closed on the other | `ImpersonatedIsMarked`, `NothingSensitiveAsAnother`, `AuthorityIsFresh`, `RestoresOnlyWhoWasThere` |
| `impersonation_marker` | the same users, the default configuration | violates `MarkedIsImpersonated` |
| `admin_logins` | 3 entries, 2 instants, 1 user with 2 addresses, pages of 1 and 2, 1 change of the user; with and without filters, in both orders | `WalkSkipsNothing`, `PromisedPagesHaveRows` |
| `gateway` | 2 guards, 3 users, 4 configurations (one guard with default and with own names, two guards with derived and with given names, which share a token table in one; each feature on and off), 1 change during requests | `DecidedByPolicy` |

Every run also checks its module's `TypeOK` (`TFTypeOK` in `TwoFactor`, whose
`Init`, `Next` and `Spec` have that prefix too, so that the proofs about it and
about `AdminLogins` can stand in one module), where it expects no violation.

**Bounds.** Two requests are enough for every race in the code: each decision
depends on the row that one other request changed, and the third request of a
chain (the third generation of a remember cookie) comes from the same two
requests starting again. Three validators make two rotations, so a validator
can be current, superseded and forgotten. Three API tokens with limit 1 leave
room for one token more than two racing requests can create. An issue begins by
the instant before the last (`MaxIssueTime`), so that some time is left in
which its token is used, expires and is pruned. Times reach past each window,
expiry, grace period and retention by at least one unit, so both sides of each
comparison and the equality occur. Two operations are one pair that overlaps or
follows. One change of a user falls before, between or after the two reads of
any switch or delegated token, or the reads of two middleware; it may bring a
fact about or end one. Three passwords make a second change possible
while the first is unfinished. Two families let a change or a theft revoke one
that another browser holds; where a second option multiplies the states, one is
enough for what the two options do to each other. The bounds are the constants
named `Max...` and the sizes of the sets in the `.cfg` files, and nothing else. Three
entries fill one page of two and part of the next, and one of them can come
late among the other two.
Symmetry is used for sets whose members no definition tells apart, and in no
run that checks liveness.

**Deadlock** is checked in every run: some request can always start, end, or be
refused, whatever the bounds.

**Fairness.** Only `sessions_live` assumes any: weak fairness of the steps of a
request that has begun, for each browser. The server runs a request it has
received to its end, whatever the client does. Nothing is assumed of clients,
administrators or the clock, which may never act. Faults are off in that run,
because a statement that fails leaves the tokens, as `excused` records.

## What the code does that its documentation does not say

The runs that expect a violation show these:

* `rate_limit_guards`: `sweepLocked` applies one bucket's cutoff to all
  buckets of the shared store, so a guard with a short window makes a guard
  with a longer one forget attempts that still count.
* `impersonation_marker`: only Stop clears a marker; after a logout or a refused
  session the next login of the guard is shown as impersonated and is kept from
  the routes that a switch closes, until it calls Stop.

These were met while modelling and have no run of their own. The models contain
the steps, where they have any, and the properties name them as their
exceptions.

* `docs/security.md:204-205` says the package keeps at least one active admin;
  two requests can each count the other's target and leave none (`raced` in
  `Users`; `KeepsActiveAdmin` alone does not hold).
* `docs/api-reference.md:300-302` says that disabling the account revokes all of
  the user's remember tokens; `Users.Update` revokes API tokens only, and the
  cookies work when the account is enabled again (`Lock`, `Unlock` in
  `AuthSessions`).
* `docs/api-reference.md:309-312` says that a session which was terminated is
  rejected on its next request; `Protect`, `ProtectRole` and `ProtectAny` mount
  no TrackSession, and the host's routes go on serving it (`HostChain`).
* `http/middleware/track_session.go:14-15` says a missing row means that the
  session was terminated or predates the feature; a session that predates it
  carries no token and is served, not refused, because `Touch` answers true for
  an empty one (`services/sessions.go:71-73`; `Alive` in `Gateway` and
  `AuthSessions`). It is on no list and cannot be terminated from one.
* `docs/api-reference.md:302-303` and `:315` have expired tokens and stale
  sessions pruned by `auth:prune-remember-tokens`; it prunes the default tables
  only (`commands/prune_remember_tokens.go:34,40`), whatever tables the guards
  are given. `auth:create-user` likewise writes the default users table only.
* `routes/guards.go:193-195` says optionsByGuard matches how a guard was
  registered; a guard that the host mounts by `Register` with options of its
  own is resolved from the configuration, and so are the tables of
  impersonation targets (`routes/routes.go:402-405`).
* `docs/api-reference.md:291-292` ties the remember cookie to a login that asks
  for it; an intent stays in the session when the login that stated it was
  abandoned at the second factor (`Login` in `AuthSessions`).
* `docs/security.md:136-137` says a recovery code cannot be spent twice; a
  whole-row save (`services/auth.go:125`) that read the row before puts a
  consumed one back (`reverted` in `TwoFactor`).
* `docs/security.md:179` says a session supports one switch at a time; it
  supports one in each guard (`StartReadsActor` in `Impersonation`).
* `repositories/remember.go:27-29` reads zero updated rows as a lost rotation;
  the row may have been deleted (`RememberPromise` therefore promises only that
  the family was live at some moment of the request).
* `services/users.go:158` says Update does not change the password; its save
  puts back the one it read (`stale` in `Users`). `services/auth.go:77-78` says
  the role is out of UpdateProfile's scope; its save does the same.
* `docs/security.md:68-73` says a password change ends every other session; one
  that re-reads its stamp after another change survives it (`Overtaken`).
* `http/controllers/auth.go:283-285` revokes remember tokens so that no cookie
  outlives the password; one issued by a login in flight does (`Issue`).
* `services/users.go:278-279`: a reset by an administrator leaves remember
  tokens, which make sessions with the new stamp (`SetPassword`).
* `docs/api-reference.md:304-306`: a login whose second factor is owed completes
  although the account was disabled meanwhile (`Verify` reads no lock).
* `docs/configuration.md:96` gives the maximum of active API tokens; racing
  requests pass it (`LimitExceededByRacersOnly` says by how many).
* `docs/security.md:139-140`: the code that confirms an enrollment is not
  recorded and completes one login afterwards.
* Enable that read the row before Confirm wrote it turns the second factor off
  again, and RegenerateRecoveryCodes that read it before Disable turns it on.

## What is proved

TLAPS checks these theorems for every value of the constants. None of the
modules declares an axiom, and no proof has a gap.

`RateLimit_proofs`. `RateLimitTypeOK`, `RateLimitShortestWithinLimit`,
`RateLimitShortestRetryAfter`; and under `SameWindow` (all buckets of a store
have one window, which is what one guard gives its own store)
`RateLimitWithinLimit`, `RateLimitRetryAfterIsExact`,
`RateLimitSweepBoundsStore` and `RateLimitImplementsSlidingWindow`. The limit
is not inductive: it speaks of all attempts ever admitted, and `Hit` counts
those that are stored. `Kept` closes the gap: an admitted attempt inside its
bucket's window is stored. Filtering keeps it because the cutoff is the
window's; the sweep keeps it of the buckets whose window is the shortest of the
store (`Safe`), because whatever bucket triggered it has a cutoff no later than
theirs. So a bucket with the shortest window keeps its limit and its
Retry-After in a store with any other windows, and with `SameWindow` every
bucket is one. Without `SameWindow` the limit of the others is false, as
`rate_limit_guards` shows. Retry-After is about two times, that of the denial
and that of the next attempt, and the state has only the second: `DenialsSound`
says that there was a time of the denial and an oldest attempt of its window,
that nothing was admitted since, and that what was told is when that attempt
leaves the window, rounded up to a second.

`Remember_proofs`. `RememberTypeOK`, `RememberOneSuccessor`,
`RememberNoOrphanCookie`, `RememberNotMistakenForTheft`,
`RememberRevokedForGood`, `RememberImplementsPromise`. The inductive invariant
relates the validators of a row to the cookies handed out: the current one was
minted last in its family, the previous one's successor is the current one, and
a request that has read a row holds a validator no newer than the row's. The
compare-and-set gives one successor because the second writer finds a validator
that is not the one it read. Each step of the service maps to a step of the
promise or to a stutter: `Find` is the one that admits, and what it finds is the
row of the selector in the request's own cookie, which is the request's `claim`
until it answers (`PresentImplements`, `ClaimMoves`). That a race is not taken for a theft needs a second
invariant on top of the first (`TheftInv`): what a row keeps as superseded is
what its current validator replaced (`Linked`), and a request that was sent
with the current cookie finds that its family is gone, knows the validator
still, as the current one or the superseded one, or was rotated twice
(`SentIsNear`). `Find` revokes only in the last case, or after the grace
period.

`LoginRecords_proofs`, of `TwoFactor`. `TwoFactorTypeOK`,
`TwoFactorActiveSecretProven`, `TwoFactorLoginCodesOnce`,
`TwoFactorRecoveryCodesOnce`. A request in flight writes back what it read, so
the invariant says of the rows in flight what it says of the row (`Carried`,
`Sound`). A code is accepted once because the row accepts nothing that the
ledger holds (`Spent`): accepted time steps are no later than the last one
recorded, and consumed recovery codes are not in the row. A save that puts
another row back ends that, hence `reverted`.

`LoginRecords_proofs`, of `AdminLogins`. `AdminLoginsTypeOK`,
`AdminLoginsPromisedPagesHaveRows`, `AdminLoginsWalkSkipsNothing`, for any
entries, queries and page sizes. Both properties speak of positions in a sorted
answer, and what is inductive is a count: `RankIsPosition` says that a row's
position is the number of rows that precede it (the order is total because ids
differ, and the positions of finitely many rows are filled). Entries that
arrive, in whatever order, only add to the rows before one, so what a walk has
not seen keeps at least the rows of the pages read before it (`Stands`), and a
page that is read moves that bound by a page: an entry behind the page's first
position and not on it is behind its last. For the number of pages, the rows
are at least as many as were counted (`Counted`), so that the offset of a
promised page is a position, and a filled one. `ReadsOn` says that the request
under way is for the page after those read. Where a filter on users meets a
user who changes, rows do go away, hence `moved`.

`APITokens_proofs`. `APITokensTypeOK`, `APITokensLimitExceededByRacersOnly`,
`APITokensDieWithCredentials`, `APITokensStayDead`, `APITokensLastUseMonotone`,
`APITokensPruneSafe`. The invariant adds that a row which is not stored holds
nothing and that an operation works with a time and with credentials from its
past (`WorksWithThePast`). A creation that overlapped with a change of
credentials holds an earlier epoch and is excused; a revocation in flight still
holds its owner's tokens in its reach; and the two writes of `Touched` and
`Revoked` name their columns, so that nothing a request read earlier returns to
the row. The limit alone is not inductive: `RacersCounted` counts, with the
active tokens, the requests that have passed the count and have yet to create.
A request that passes it saw fewer tokens than the limit, and none that was not
active then has become so since, so the racers are at most the others; a
creation turns a racer into a token.

`Impersonation_proofs`. `ImpersonationTypeOK`, `ImpersonationMarked`,
`ImpersonationNothingSensitive`, `ImpersonationAuthorityIsFresh`,
`ImpersonationRestores`. The invariant follows a request along its stages: it
knows its guard and, once it has read it, its actor (`InFlight`); a switch
under way leaves a login that is the actor's own (`FromOwnLogin`); what it
knows of actor and target is true of their rows unless those changed since
(`KnowsActor`, `KnowsTarget`); and whoever a login is for entered it or was
switched into it (`Entered`). The marker is right because a switch sets it
together with `acting`, and every other step that changes the login or the
marker of a guard clears `acting`.

`Users_proofs`. `UsersTyped`, `UsersKeepAnAdmin`, `UsersKeepToTheirColumns`,
`UsersManagersKeepTheirAccount`. That an administrator is left is a fact about
all rows, and an operation looks at two statements: the row it is about and the
count of the others. `ReadHolds` says that as long as nobody has written behind
a request, the row it holds is the row there is and the others it counted are
there; then the write takes away one who is not the last. `ActorHolds` says the
same of the row that `RequireRole` read. `NewIds` keeps an id that is being
given to a new user away from every other request, so that no write of theirs
falls on the new row, and `Shape` says at which stages a request holds a row.

`AuthSessions_proofs`. `SessionsTyped`, `SessionsWithoutGhosts`,
`SessionsEndWithTheirPassword`, `SessionsLogoutNeedsLogin`,
`SessionsTerminatedForGood`. A request is let through for the stamp of its
session, and the property asks when the login began. `Stamps` (no stamp is from
the future) and `Origins` (a session with the current stamp, a remember login
under way, and every family that no password change is about to revoke, began
with the current password or is excused) connect the two: the write of a
password makes every stamp old at once, and the windows that are left are those
in which history adds to `excused`. `LeftForGood` says what a browser that
logged out does not have, at any of its stages; `TokensCarried`, that sessions
do not share tracking tokens, which keeps the list free of ghosts; `Phases`,
where a remember login may be.

`Gateway_proofs`. `GatewayTyped`, `GatewayDecidesByPolicy`. The invariant says
what each middleware has established when it lets a request pass (`Passed`,
`PassedAll`), that the history of the request is true of this moment
(`Underway`), and that the options a guard is mounted with are those that the
host's routes resolve and that their tables are there (`Mounted`). What a chain
consists of and what a route requires are two lists in the code's two layers;
`ChainShape` and `RequiredShape` set them side by side. Of tracking the theorem
asks that a served session's token had its row at some moment, or that it
carried none, or that the look for the row failed. A bearer token is the
one fact that no single middleware decides: the token is found in one table and
its owner in another, and the guard follows only from both.

The assumptions are those the modules name on their constants
(`RateLimitAssumption`, `RememberAssumption`, `APITokensAssumption`,
`ImpersonationAssumption`, `UsersAssumption`, `AuthSessionsAssumption`,
`AdminLoginsAssumption`, `TablesAssumption`, `RequestsAssumption`; the theorems
of `TwoFactor` need none): sets are disjoint from each other and from the null
values, limits, windows and lifetimes are positive, requests and ids of entries
are finitely many, the default size of a page is within its maximum, the rules
of a guard name guards and roles that exist. Of the host's configuration
`TablesAssumption` asks that no two guards share both their users and their
token table (they would be one guard under two names); of a session
`RequestsAssumption` asks that its login of a guard is for one of that guard's
users, which is what the handlers of `AuthSessions` and `Impersonation` put
there. TLC evaluates the assumptions in each run.

## Only model-checked

`RevocationFollows`, because TLAPS does not reason about liveness under
fairness or about ENABLED. And the two properties that runs find violated:
`WithinLimit` for windows that differ, and `MarkedIsImpersonated`. Every other
property of a run is a theorem.

## Not modelled

* A user's own login history, which is one statement, and the parsing of
  origins.
* `Register` with the host's own options, the facade of `authkit.go` and the
  registration of framework guards: the facade calls operations that are
  modelled.
* Formatting, validation of addresses and names, mail: refusals are modelled
  where they end an operation early (`Invalid`), their conditions are not.
* Cryptography (hashes, encryption, random values): values that cannot be
  guessed and do not collide.
* The session store, the ORM, the framework: from how the code uses them. Two
  requests of one session are not interleaved on its data.
* Migrations, setup, console commands and the demo: they run once, or call
  operations that are modelled.

## Plan

1. Done: `RateLimit`, `Remember`, `Users` with the role check, `AuthSessions`,
   `TwoFactor`, `APITokens`, `Impersonation`, `AdminLogins`, `Gateway`, and the
   theorems above.
2. Done: theorems for every invariant and action property that the runs check.
3. Left: what an owner sees of a whole history, such as an abstract life of an
   API token that `APITokens` implements.
