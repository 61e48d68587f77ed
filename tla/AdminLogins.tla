---------------------------- MODULE AdminLogins -----------------------------
(***************************************************************************)
(* The audit table of one guard and the administrator's page of sign-ins.  *)
(*                                                                         *)
(* A sign-in is logged by the request that performs it: the entry takes    *)
(* its time when the write begins and is visible when the write is done,   *)
(* so that entries may appear out of the order of their times.  A failed   *)
(* write is logged and forgotten.  Nothing updates or deletes an entry.    *)
(*                                                                         *)
(* The page is two statements over that table, a count and then the rows,  *)
(* joined with the users as they are at that moment.  An administrator     *)
(* reads page after page while entries arrive and users change.  The       *)
(* filter by IP is abstracted: like the one by method, it reads a column   *)
(* that never changes.  A name is abstracted with the address it goes with.*)
(***************************************************************************)
EXTENDS Integers, FiniteSets

CONSTANTS
    User,
    Email,
    Initially,      \* the users there may be at first
    Gone,           \* the row of a deleted user
    Actions,        \* the actions that are logged
    Any,            \* a filter that is not set
    Id,             \* the ids of entries, which are ordered and random
    DefaultPageSize,
    MaxPageSize,
    Asked,          \* the queries of the administrator, but for their pages
    MaxPage,        \* bounds: on the page a query asks for,
    MaxTime,        \*   on the clock,
    MaxChanges      \*   and on the changes of users

LoginActions == {"auth.login", "auth.login_remember"}

\* A method or an order that the service does not know is "other".
Queried(pages) ==
    [page: pages, perPage: pages, user: Email \cup {Any},
     method: {Any, "password", "remember", "other"},
     sort: {Any, "asc", "desc", "other"}]

\* Of any page that a client asks for, and of one that List goes on with.
AdminLoginQuery == Queried(Int)
Query == Queried(Nat)

ASSUME AdminLoginsAssumption ==
    /\ Asked \subseteq AdminLoginQuery
    /\ Initially \subseteq [User -> Email]
    /\ Gone \notin Email /\ Any \notin Email
    /\ Id \subseteq Nat /\ IsFiniteSet(Id)
    /\ DefaultPageSize \in Nat \ {0} /\ MaxPageSize \in Nat
    /\ DefaultPageSize <= MaxPageSize
    /\ MaxPage \in Nat /\ MaxTime \in Nat /\ MaxChanges \in Nat

VARIABLES
    now,
    users,      \* users[u]: the address of u's row, or Gone
    audit,      \* the entries in the audit table
    writing,    \* the entries whose write has begun
    call,       \* the request of the administrator
    changes,    \* how many times users changed
    walk        \* history: the pages read in a row so far

vars == <<now, users, audit, writing, call, changes, walk>>

Entry == [id: Id, at: Nat, user: User, email: Email, action: Actions]

\* total and pages are what the response says, moved: a user changed since the
\* count.
Call == [stage: {"idle", "refused", "count", "rows", "answered", "failed"},
         query: Query, total: Nat, items: SUBSET Entry, moved: BOOLEAN]

NoQuery == [page |-> 1, perPage |-> DefaultPageSize, user |-> Any,
            method |-> Any, sort |-> Any]
NoCall == [stage |-> "idle", query |-> NoQuery, total |-> 0, items |-> {},
           moved |-> FALSE]

\* read: the pages read so far; from: what matched when the first was asked for;
\* moved: a user changed since.
Walk == [on: BOOLEAN, query: Query, read: Nat, from: SUBSET Entry,
         seen: SUBSET Entry, moved: BOOLEAN]
NoWalk == [on |-> FALSE, query |-> NoQuery, read |-> 0, from |-> {},
           seen |-> {}, moved |-> FALSE]

TypeOK ==
    /\ now \in Nat
    /\ users \in [User -> Email \cup {Gone}]
    /\ audit \subseteq Entry
    /\ writing \subseteq Entry
    /\ \A d, e \in audit \cup writing : d.id = e.id => d = e
    /\ call \in Call
    /\ changes \in Nat
    /\ walk \in Walk
    /\ call.query.perPage \in 1 .. MaxPageSize
    /\ Cardinality(call.items) <= call.query.perPage

Init ==
    /\ now = 0
    /\ users \in Initially
    /\ audit = {}
    /\ writing = {}
    /\ call = NoCall
    /\ changes = 0
    /\ walk = NoWalk

-----------------------------------------------------------------------------
(* Writing the log *)

\* Audit.Log begins: the entry has its id, its time and the actor's address.
Log(u, a) ==
    /\ users[u] # Gone
    /\ \E id \in Id \ {e.id : e \in audit \cup writing} :
         writing' = writing \cup
             {[id |-> id, at |-> now, user |-> u, email |-> users[u], action |-> a]}
    /\ UNCHANGED <<now, users, audit, call, changes, walk>>

\* Create
LogWritten(e) ==
    /\ audit' = audit \cup {e}
    /\ writing' = writing \ {e}
    /\ UNCHANGED <<now, users, call, changes, walk>>

\* The caller logs the error and goes on.
LogFails(e) ==
    /\ writing' = writing \ {e}
    /\ UNCHANGED <<now, users, audit, call, changes, walk>>

\* A profile or management request changes a user's address or deletes the row.
ChangeUser(u, m) ==
    /\ changes < MaxChanges
    /\ users[u] \notin {m, Gone}
    /\ users' = [users EXCEPT ![u] = m]
    /\ changes' = changes + 1
    /\ call' = [call EXCEPT !.moved = @ \/ call.stage = "rows"]
    /\ walk' = [walk EXCEPT !.moved = @ \/ walk.on]
    /\ UNCHANGED <<now, audit, writing>>

Tick ==
    /\ now < MaxTime
    /\ now' = now + 1
    /\ UNCHANGED <<users, audit, writing, call, changes, walk>>

-----------------------------------------------------------------------------
(* Reading it *)

\* Faulty: the size of a page has no bounds.
RefusedUnlessKnown(q) == q.method = "other" \/ q.sort = "other"

\* List returns ErrValidation. A page or a size of zero was left out.
Refused(q) ==
    \/ q.page < 0
    \/ q.perPage < 0 \/ q.perPage > MaxPageSize
    \/ q.method = "other"
    \/ q.sort = "other"

\* What List makes of a query that leaves page or size out.
Normalized(q) ==
    [q EXCEPT !.page = IF @ = 0 THEN 1 ELSE @,
              !.perPage = IF @ = 0 THEN DefaultPageSize ELSE @]

MethodAction(q) ==
    IF q.method = "password" THEN "auth.login" ELSE "auth.login_remember"

\* COALESCE(users.email, audit.actor_email) over the LEFT JOIN
UserEmail(e) == IF users[e.user] # Gone THEN users[e.user] ELSE e.email

\* filteredQuery
Filtered(q) ==
    {e \in audit :
       /\ e.action \in LoginActions
       /\ q.method # Any => e.action = MethodAction(q)
       /\ q.user # Any => UserEmail(e) = q.user}

Older(d, e) == d.at < e.at \/ (d.at = e.at /\ d.id < e.id)

\* Faulty: the order leaves entries of one instant in any order.
PrecedesByTime(q, d, e) == IF q.sort = "asc" THEN d.at < e.at ELSE e.at < d.at

\* ORDER BY created_at, id
Precedes(q, d, e) == IF q.sort = "asc" THEN Older(d, e) ELSE Older(e, d)

\* The positions that an ORDER BY may give to the rows of a set, from 0.
Positions(q, rows) ==
    {f \in [rows -> 0 .. Cardinality(rows) - 1] :
       \A d, e \in rows :
         /\ d # e => f[d] # f[e]
         /\ Precedes(q, d, e) => f[d] < f[e]}

Offset(q) == (q.page - 1) * q.perPage

TotalPages(total, q) == (total + q.perPage - 1) \div q.perPage

\* Faulty: the rows are read before the count.
StatementsSwapped == <<"rows", "count">>

\* The order in which List runs its two statements.
Statements == <<"count", "rows">>

\* The page after the last of this walk, with the same filters and order.
Continues(q) ==
    walk.on /\ q = [walk.query EXCEPT !.page = walk.read + 1]

\* The controller reads the query, and List validates it.
Ask(q) ==
    LET n == Normalized(q) IN
    /\ call.stage = "idle"
    /\ call' = IF Refused(q) THEN [NoCall EXCEPT !.stage = "refused"]
               ELSE [NoCall EXCEPT !.stage = Statements[1], !.query = n]
    /\ walk' = IF Refused(q) \/ Continues(n) THEN walk
               ELSE IF n.page = 1
                    THEN [NoWalk EXCEPT !.on = TRUE, !.query = n, !.from = Filtered(n)]
                    ELSE NoWalk
    /\ UNCHANGED <<now, users, audit, writing, changes>>

After(stage) == IF stage = Statements[1] THEN Statements[2] ELSE "answered"

Count ==
    /\ call.stage = "count"
    /\ call' = [call EXCEPT !.stage = After("count"),
                            !.total = Cardinality(Filtered(call.query))]
    /\ UNCHANGED <<now, users, audit, writing, changes, walk>>

Rows ==
    LET q == call.query
        rows == Filtered(q) IN
    /\ call.stage = "rows"
    /\ \E f \in Positions(q, rows) :
         LET page == {e \in rows : f[e] \in Offset(q) .. Offset(q) + q.perPage - 1} IN
         /\ call' = [call EXCEPT !.stage = After("rows"), !.items = page]
         /\ walk' = [walk EXCEPT !.read = IF walk.on THEN q.page ELSE @,
                                 !.seen = IF walk.on THEN @ \cup page ELSE @]
    /\ UNCHANGED <<now, users, audit, writing, changes>>

\* Either statement fails: 500, and no page.
Fail ==
    /\ call.stage \in {"count", "rows"}
    /\ call' = [call EXCEPT !.stage = "failed"]
    /\ UNCHANGED <<now, users, audit, writing, changes, walk>>

\* The response has gone out. After an error the same page may be asked for again.
Close ==
    /\ call.stage \in {"refused", "answered", "failed"}
    /\ call' = NoCall
    /\ UNCHANGED <<now, users, audit, writing, changes, walk>>

\* A query leaves the page out, or asks for one.
Queries == {[q EXCEPT !.page = p] : q \in Asked, p \in -1 .. MaxPage}

Next ==
    \/ \E u \in User, a \in Actions : Log(u, a)
    \/ \E e \in writing : LogWritten(e) \/ LogFails(e)
    \/ \E u \in User, m \in Email \cup {Gone} : ChangeUser(u, m)
    \/ Tick
    \/ \E q \in Queries : Ask(q)
    \/ Count
    \/ Rows
    \/ Fail
    \/ Close

Spec == Init /\ [][Next]_vars

-----------------------------------------------------------------------------
(* Properties *)

\* Entries arrive while an administrator reads page after page, and those that
\* arrive out of order land before ones already read.  Whatever the order and
\* the filters, no sign-in that was there at the first page falls between two:
\* it has been shown or comes on a page not read yet.  Only a user whose address
\* changes under a filter on users can take rows out of the pages behind which
\* the reader stands.
WalkSkipsNothing ==
    walk.on /\ (walk.query.user = Any \/ ~walk.moved) =>
        \A e \in walk.from \ walk.seen :
          LET rows == Filtered(walk.query) IN
          \A f \in Positions(walk.query, rows) :
            f[e] >= walk.read * walk.query.perPage

\* totalPages promises no page without rows: the count is taken before the rows
\* and no entry goes away, so a page within totalPages shows something, unless
\* a user on whom the query filters changed between the two statements.
PromisedPagesHaveRows ==
    LET q == call.query IN
    call.stage = "answered" /\ (q.user = Any \/ ~call.moved) =>
        (q.page <= TotalPages(call.total, q) => call.items # {})
=============================================================================
