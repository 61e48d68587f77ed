------------------------------ MODULE Remember ------------------------------
(***************************************************************************)
(* The remember-me service (services/remember.go) with its table           *)
(* (RememberTable), a clock, and requests that present cookies.            *)
(*                                                                         *)
(* A cookie is a selector and a validator. Every cookie a response ever    *)
(* carried may be presented again at any time, by any number of requests   *)
(* at once: that covers a browser sending two requests together, a         *)
(* response that never arrived (the browser keeps the older cookie), and a *)
(* copied cookie. A corrupted validator, one never minted, may be          *)
(* presented too.                                                          *)
(*                                                                         *)
(* Resolve is split where the code waits for the database: a request is    *)
(* sent, reads the row (FindBySelector), and then runs at most one writing *)
(* statement (RotateValidator, Delete or DeleteByUser), on a row that may  *)
(* have changed or gone in between.                                        *)
(***************************************************************************)
EXTENDS Integers, RememberTable

CONSTANTS
    Request,   \* requests that may be in flight at the same time
    TTL,       \* validity of a cookie, sliding on every rotation
    Grace,     \* how long the superseded validator is still accepted
    MaxTime,   \* bound on the clock
    MaxMint    \* bound on the validators minted

ASSUME RememberAssumption ==
    /\ Selector # {}
    /\ TTL \in Nat \ {0}
    /\ Grace \in Nat
    /\ MaxTime \in Nat
    /\ MaxMint \in Nat

VARIABLES
    now,       \* the clock
    table,     \* the remember-token table
    minted,    \* the last validator randomToken returned
    pc,        \* pc[r]: where request r is in Resolve
    cookie,    \* cookie[r]: the cookie r presents
    seen,      \* seen[r]: the row FindBySelector returned to r
    at,        \* at[r]: the time r read the clock, after FindBySelector
    \* History, read by the properties only:
    used,      \* selectors ever issued
    handed,    \* cookies responses carried, each with the one it replaces
    sentRow     \* sentRow[r]: the row of r's selector when r was sent

vars == <<now, table, minted, pc, cookie, seen, at, used, handed, sentRow>>

Corrupt == MaxMint + 1

Cookie == [sel: Selector, val: Nat]
Handed == [sel: Selector, val: Nat, from: Nat]

Stage == {"idle", "sent", "rotate", "expire", "revoke", "granted", "refused"}

NoCookie == [sel |-> CHOOSE s \in Selector : TRUE, val |-> 0]

TypeOK ==
    /\ now \in Nat
    /\ table \in Table
    /\ minted \in Nat
    /\ pc \in [Request -> Stage]
    /\ cookie \in [Request -> Cookie]
    /\ seen \in [Request -> Token \cup {NoToken}]
    /\ at \in [Request -> Nat]
    /\ used \in SUBSET Selector
    /\ handed \in SUBSET Handed
    /\ sentRow \in [Request -> Token \cup {NoToken}]
    /\ \A r \in Request : pc[r] \in {"rotate", "expire", "revoke"} => seen[r] \in Token

Init ==
    /\ now = 0
    /\ table = EmptyTable
    /\ minted = 0
    /\ pc = [r \in Request |-> "idle"]
    /\ cookie = [r \in Request |-> NoCookie]
    /\ seen = [r \in Request |-> NoToken]
    /\ at = [r \in Request |-> 0]
    /\ used = {}
    /\ handed = {}
    /\ sentRow = [r \in Request |-> NoToken]

requestVars == <<pc, cookie, seen, at, sentRow>>

\* r goes on to stage with the row and the time it read.
Goto(r, stage, token, time) ==
    /\ pc' = [pc EXCEPT ![r] = stage]
    /\ seen' = [seen EXCEPT ![r] = token]
    /\ at' = [at EXCEPT ![r] = time]
    /\ UNCHANGED <<cookie, sentRow>>

\* Resolve returns: what r read is forgotten.
Return(r, answer) ==
    /\ pc' = [pc EXCEPT ![r] = answer]
    /\ seen' = [seen EXCEPT ![r] = NoToken]
    /\ at' = [at EXCEPT ![r] = 0]
    /\ cookie' = [cookie EXCEPT ![r] = NoCookie]
    /\ sentRow' = [sentRow EXCEPT ![r] = NoToken]

-----------------------------------------------------------------------------
(* Issue: a login that asked to be remembered. *)

Issue(u, s) ==
    /\ s \notin used
    /\ minted < MaxMint
    /\ minted' = minted + 1
    /\ used' = used \cup {s}
    /\ table' = Create(table, s, NewToken(u, minted + 1, now + TTL))
    /\ handed' = handed \cup {[sel |-> s, val |-> minted + 1, from |-> 0]}
    /\ UNCHANGED <<now, requestVars>>

-----------------------------------------------------------------------------
(* Resolve *)

\* A request carrying cookie <<s, v>> is on its way. splitToken accepted it.
Present(r, s, v) ==
    /\ pc[r] = "idle"
    /\ \/ v = Corrupt
       \/ \E h \in handed : h.sel = s /\ h.val = v
    /\ pc' = [pc EXCEPT ![r] = "sent"]
    /\ cookie' = [cookie EXCEPT ![r] = [sel |-> s, val |-> v]]
    /\ sentRow' = [sentRow EXCEPT ![r] = table[s]]
    /\ UNCHANGED <<now, table, minted, seen, at, used, handed>>

\* The superseded validator, within the grace window.
InGrace(token, val, time) ==
    /\ token.previous # 0
    /\ time - token.rotatedAt <= Grace
    /\ val = token.previous

Expired(token, time) == time > token.expiresAt

\* Faulty: a missing row is taken for a forged cookie.
VerdictUnguarded(token, val, time) ==
    IF token = NoToken THEN "revoke"
    ELSE IF Expired(token, time) THEN "expire"
    ELSE IF val = token.validator THEN "rotate" ELSE "revoke"

\* What Resolve does next with the row it read.
Verdict(token, val, time) ==
    IF token = NoToken THEN "refused"
    ELSE IF Expired(token, time) THEN "expire"
    ELSE IF val = token.validator THEN "rotate"
    ELSE IF InGrace(token, val, time) THEN "granted"
    ELSE "revoke"

\* Faulty: a missing row is taken for a rotation that is under way, as long as
\* there are rows.
DecisionTrusting(r) ==
    LET token == FindBySelector(table, cookie[r].sel) IN
    IF token = NoToken /\ Stored(table) # {} THEN "granted"
    ELSE Verdict(token, cookie[r].val, now)

\* The row is looked up by the selector of r's cookie.
Decision(r) == Verdict(FindBySelector(table, cookie[r].sel), cookie[r].val, now)

Find(r) ==
    /\ pc[r] = "sent"
    /\ IF Decision(r) \in {"granted", "refused"}
       THEN Return(r, Decision(r))
       ELSE Goto(r, Decision(r), FindBySelector(table, cookie[r].sel), now)
    /\ UNCHANGED <<now, table, minted, used, handed>>

\* Faulty: the response does not carry the rotated cookie.
NewCookiesNever(s, expected, new) == {}

\* The cookie the response carries after RotateValidator. Zero rows updated:
\* the user is authenticated and the response sets no cookie.
NewCookies(s, expected, new) ==
    IF RotateMatches(table, s, expected)
    THEN {[sel |-> s, val |-> new, from |-> expected]}
    ELSE {}

Rotate(r) ==
    LET s == cookie[r].sel
        expected == seen[r].validator
        new == minted + 1
    IN
    /\ pc[r] = "rotate"
    /\ minted < MaxMint
    /\ minted' = new
    /\ table' = RotateValidator(table, s, expected, new, at[r], at[r] + TTL)
    /\ handed' = handed \cup NewCookies(s, expected, new)
    /\ Return(r, "granted")
    /\ UNCHANGED <<now, used>>

Expire(r) ==
    /\ pc[r] = "expire"
    /\ table' = Delete(table, cookie[r].sel)
    /\ Return(r, "refused")
    /\ UNCHANGED <<now, minted, used, handed>>

RevokeFamily(r) ==
    /\ pc[r] = "revoke"
    /\ table' = DeleteByUser(table, seen[r].user)
    /\ Return(r, "refused")
    /\ UNCHANGED <<now, minted, used, handed>>

\* The statement r is about to run returns an error and changes nothing.
\* Resolve answers with an error; the errors of Delete and DeleteByUser are
\* dropped and it refuses all the same.
StatementFails(r) ==
    /\ pc[r] \in {"sent", "rotate", "expire", "revoke"}
    /\ Return(r, "refused")
    /\ UNCHANGED <<now, table, minted, used, handed>>

\* The middleware has taken the answer; r may carry another cookie.
Respond(r) ==
    /\ pc[r] \in {"granted", "refused"}
    /\ pc' = [pc EXCEPT ![r] = "idle"]
    /\ UNCHANGED <<now, table, minted, cookie, seen, at, used, handed, sentRow>>

-----------------------------------------------------------------------------
(* Logout, password change, the scheduled prune, and time. *)

\* Revoke looks the row up and deletes it by id. The id never names another
\* row, so the two statements act as the delete alone.
Revoke(s) ==
    /\ table[s] # NoToken
    /\ table' = Delete(table, s)
    /\ UNCHANGED <<now, minted, used, handed, requestVars>>

RevokeAllForUser(u) ==
    /\ table' = DeleteByUser(table, u)
    /\ UNCHANGED <<now, minted, used, handed, requestVars>>

PruneExpired ==
    /\ table' = DeleteExpired(table, now)
    /\ UNCHANGED <<now, minted, used, handed, requestVars>>

Tick ==
    /\ now < MaxTime
    /\ now' = now + 1
    /\ UNCHANGED <<table, minted, used, handed, requestVars>>

-----------------------------------------------------------------------------

Step(r) == Find(r) \/ Rotate(r) \/ Expire(r) \/ RevokeFamily(r) \/ Respond(r)

Next ==
    \/ \E u \in User, s \in Selector : Issue(u, s)
    \/ \E r \in Request, s \in Selector, v \in 1..(MaxMint + 1) : Present(r, s, v)
    \/ \E r \in Request : Step(r) \/ StatementFails(r)
    \/ \E s \in Selector : Revoke(s)
    \/ \E u \in User : RevokeAllForUser(u)
    \/ PruneExpired
    \/ Tick

Spec == Init /\ [][Next]_vars

-----------------------------------------------------------------------------
(* Properties *)

\* Of all the requests that present one validator of a family, at most one is
\* handed its successor: RotateValidator is a compare-and-set, so two requests
\* that both read the row before either wrote it cannot fork the chain.
OneSuccessor ==
    \A a, b \in handed : a.sel = b.sel /\ a.from = b.from => a = b

\* No response leaves a browser with a cookie the table does not know: while a
\* family is stored, a cookie that was handed out is its current one or was
\* replaced by another cookie that was handed out. The loser of a rotation race
\* must not set the validator it minted.
NoOrphanCookie ==
    \A h \in handed :
        h.sel \in Stored(table) =>
            \/ h.val = table[h.sel].validator
            \/ \E next \in handed : next.sel = h.sel /\ next.from = h.val

\* A request sent while its cookie was the current one is not taken for theft
\* because one concurrent request rotated first, as long as the row is read
\* within the grace window of that rotation.
NotMistakenForTheft ==
    \A r \in Request :
        /\ pc[r] = "revoke"
        /\ sentRow[r] # NoToken
        /\ sentRow[r].validator = cookie[r].val
        => \/ at[r] - seen[r].rotatedAt > Grace
           \/ \E h1, h2 \in handed :     \* rotated twice since it was sent
                 /\ h1.sel = cookie[r].sel /\ h1.from = cookie[r].val
                 /\ h2.sel = cookie[r].sel /\ h2.from = h1.val

\* A family that was revoked, expired or pruned never comes back, whatever a
\* request that read its row before goes on to write.
RevokedForGood ==
    [][\A s \in used : table[s] = NoToken => table'[s] = NoToken]_vars

\* What RememberPromise sees of a family, of a login, and of the cookie that the
\* request presents while it may still be logged in by it.
Family == [s \in Selector |->
    IF s \notin used THEN "unissued"
    ELSE IF table[s] = NoToken THEN "revoked" ELSE "live"]

LoginAt(stage) ==
    CASE stage = "idle" -> "idle"
      [] stage = "sent" -> "asked"
      [] stage = "rotate" -> "admitted"
      [] stage = "granted" -> "granted"
      [] stage \in {"expire", "revoke", "refused"} -> "refused"

Login == [r \in Request |-> LoginAt(pc[r])]

Claim == [r \in Request |->
    IF pc[r] \in {"sent", "rotate"} THEN cookie[r].sel ELSE NoToken]

Promise == INSTANCE RememberPromise
    WITH NoSelector <- NoToken, family <- Family, login <- Login, claim <- Claim

\* Every login remember-me grants, it grants as RememberPromise allows: to a
\* request whose own cookie is of a family that was live at some moment of that
\* request. Another family that is live does not do.
ImplementsPromise == Promise!PromiseSpec

=============================================================================
