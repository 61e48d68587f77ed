------------------------------ MODULE APITokens ------------------------------
(***************************************************************************)
(* The personal API tokens of one user (services/api_tokens.go) and the    *)
(* bearer requests that present them (http/middleware/api_token.go).       *)
(*                                                                         *)
(* No operation has a transaction: each statement is a step of its own,    *)
(* and works with the clock that its operation read before. What changes   *)
(* the owner's credentials (a password change or reset, a lock, deletion)  *)
(* writes the user's row and revokes the tokens in a second statement, as  *)
(* the guard does unless it is configured to keep tokens on a change of    *)
(* password.                                                               *)
(*                                                                         *)
(* A token is its row's id, its selector and the plaintext its holder has. *)
(* Scopes, names and the second factor are left out: none of them is ever  *)
(* written after it was checked.                                           *)
(***************************************************************************)
EXTENDS Integers, FiniteSets

CONSTANTS
    Request,      \* requests that may be in flight at the same time
    Token,
    MaxPerUser,   \* active tokens a user may have
    MaxLifetime,  \* longest time from issue to expiry
    Interval,     \* a use less than this after the last one is not written
    Retention,    \* how long Prune keeps what expired or was revoked
    MaxTime,      \* bound on the clock
    MaxIssueTime, \* bound on the times at which an issue begins
    MaxEpoch      \* bound on the changes of credentials

ASSUME APITokensAssumption ==
    /\ IsFiniteSet(Request)
    /\ MaxPerUser \in Nat \ {0}
    /\ MaxLifetime \in Nat \ {0}
    /\ Interval \in Nat /\ Retention \in Nat

VARIABLES
    now,
    owner,    \* the user's row: "active", "disabled" or "deleted"
    rows,     \* the table: rows[t] is t's row, or NoRow
    work,     \* work[r]: the statement r runs next and what it works with
    \* History, read by the properties only:
    epoch,    \* one more than the changes of the owner's credentials
    born,     \* born[t]: the epoch whose credentials t was issued for, 0 if never
    excused   \* tokens issued or left behind while their owner's credentials changed,
              \* and not revoked since

vars == <<now, owner, rows, work, epoch, born, excused>>

\* Times start at 1, and 0 stands for NULL.
Row == [stored: BOOLEAN, expires: Nat, revoked: Nat, lastUsed: Nat]

NoRow == [stored |-> FALSE, expires |-> 0, revoked |-> 0, lastUsed |-> 0]

Stage == {"idle", "count", "create", "touch", "owner", "revoke"}

\* Issue works with the time it began at and the epoch it read the owner in,
\* Resolve with the token it found and the row.
Work == [stage: Stage, at: Nat, epoch: Nat, token: SUBSET Token, row: Row]

NoWork == [stage |-> "idle", at |-> 0, epoch |-> 0, token |-> {}, row |-> NoRow]

ActiveAt(data, time) == data.stored /\ data.revoked = 0 /\ time < data.expires

ActiveTokens(time) == {t \in Token : ActiveAt(rows[t], time)}

TypeOK ==
    /\ now \in Nat \ {0}
    /\ owner \in {"active", "disabled", "deleted"}
    /\ rows \in [Token -> Row]
    /\ work \in [Request -> Work]
    /\ epoch \in Nat \ {0}
    /\ born \in [Token -> Nat]
    /\ excused \in SUBSET Token
    /\ \A t \in Token : rows[t].stored => born[t] \in 1..epoch /\ rows[t].lastUsed <= now

Init ==
    /\ now = 1
    /\ owner = "active"
    /\ rows = [t \in Token |-> NoRow]
    /\ work = [r \in Request |-> NoWork]
    /\ epoch = 1
    /\ born = [t \in Token |-> 0]
    /\ excused = {}

-----------------------------------------------------------------------------
(* Statements on the table *)

\* Faulty: the expiry goes to the column of the last use.
CreatedSwapped(t, expires) ==
    [rows EXCEPT ![t] = [NoRow EXCEPT !.stored = TRUE, !.lastUsed = expires]]

Created(t, expires) ==
    [rows EXCEPT ![t] = [NoRow EXCEPT !.stored = TRUE, !.expires = expires]]

Revoked(S) ==
    [t \in Token |->
        IF t \in S /\ rows[t].stored /\ rows[t].revoked = 0
        THEN [rows[t] EXCEPT !.revoked = now]
        ELSE rows[t]]

\* Faulty: the use is written by saving the row that was read.
TouchedBySave(t, data, at) ==
    [rows EXCEPT ![t] = [data EXCEPT !.lastUsed = at]]

\* Faulty: every use is written.
TouchedAlways(t, data, at) ==
    IF rows[t].stored THEN [rows EXCEPT ![t].lastUsed = at] ELSE rows

\* TouchLastUsed writes the time of a use, if the last one is a while ago.
Touched(t, data, at) ==
    IF rows[t].stored /\ (rows[t].lastUsed = 0 \/ rows[t].lastUsed < at - Interval)
    THEN [rows EXCEPT ![t].lastUsed = at]
    ELSE rows

Prunable(data) ==
    LET before == now - Retention IN
    \/ data.expires < before
    \/ data.revoked # 0 /\ data.revoked < before

-----------------------------------------------------------------------------
(* Issue *)

Ends(r) == work' = [work EXCEPT ![r] = NoWork]

\* The owner is read and has proved the password; or the actor that
\* impersonates the owner is authorized, which reads nothing of the tokens.
ReadOwner(r) ==
    /\ work[r].stage = "idle"
    /\ owner = "active"
    /\ now <= MaxIssueTime
    /\ work' = [work EXCEPT ![r] = [NoWork EXCEPT !.stage = "count", !.at = now, !.epoch = epoch]]
    /\ UNCHANGED <<now, owner, rows, epoch, born, excused>>

\* Faulty: one more than the limit.
LimitReachedLate(count) == count > MaxPerUser

LimitReached(count) == count >= MaxPerUser

Count(r) ==
    /\ work[r].stage = "count"
    /\ IF LimitReached(Cardinality(ActiveTokens(work[r].at)))
       THEN Ends(r)
       ELSE work' = [work EXCEPT ![r].stage = "create"]
    /\ UNCHANGED <<now, owner, rows, epoch, born, excused>>

\* The token is stored with the expiry that was checked against the clock the
\* operation began with.
Create(r) ==
    /\ work[r].stage = "create"
    /\ \E t \in Token, lifetime \in 1..MaxLifetime :
          /\ born[t] = 0
          /\ rows' = Created(t, work[r].at + lifetime)
          /\ born' = [born EXCEPT ![t] = work[r].epoch]
          /\ excused' = IF work[r].epoch < epoch THEN excused \cup {t} ELSE excused
    /\ Ends(r)
    /\ UNCHANGED <<now, owner, epoch>>

-----------------------------------------------------------------------------
(* A bearer request *)

FindBySelector(t) == rows[t]

\* Resolve finds the row, and the token is active.
Find(r) ==
    /\ work[r].stage = "idle"
    /\ \E t \in Token :
          LET row == FindBySelector(t) IN
          /\ ActiveAt(row, now)
          /\ work' = [work EXCEPT ![r] =
                [NoWork EXCEPT !.stage = "touch", !.at = now, !.token = {t}, !.row = row]]
    /\ UNCHANGED <<now, owner, rows, epoch, born, excused>>

Touch(r) ==
    /\ work[r].stage = "touch"
    /\ \E t \in work[r].token : rows' = Touched(t, work[r].row, work[r].at)
    /\ work' = [work EXCEPT ![r] = [NoWork EXCEPT !.stage = "owner"]]
    /\ UNCHANGED <<now, owner, epoch, born, excused>>

\* The owner is loaded, and the request served or refused.
LoadOwner(r) ==
    /\ work[r].stage = "owner"
    /\ Ends(r)
    /\ UNCHANGED <<now, owner, rows, epoch, born, excused>>

-----------------------------------------------------------------------------
(* Revocation *)

Revokes(S) == rows' = Revoked(S) /\ excused' = excused \ S

\* The owner revokes a token, or all of them.
Revoke(t) ==
    /\ rows[t].stored /\ rows[t].revoked = 0
    /\ Revokes({t})
    /\ UNCHANGED <<now, owner, work, epoch, born>>

DestroyAll ==
    /\ Revokes(Token)
    /\ UNCHANGED <<now, owner, work, epoch, born>>

\* Faulty: only the password's changes revoke tokens.
RevokingUnlessLocked(account) == IF account = "active" THEN "revoke" ELSE "idle"

\* What follows a change of credentials.
Revoking(account) == "revoke"

\* A password is changed or reset (the account stays as it is), the account is
\* locked or deleted.
ChangeCredentials(r) ==
    /\ work[r].stage = "idle"
    /\ owner # "deleted"
    /\ epoch < MaxEpoch
    /\ epoch' = epoch + 1
    /\ owner' \in {owner, "disabled", "deleted"}
    /\ work' = [work EXCEPT ![r] = [NoWork EXCEPT !.stage = Revoking(owner')]]
    /\ UNCHANGED <<now, rows, born, excused>>

RevokeAll(r) ==
    /\ work[r].stage = "revoke"
    /\ Revokes(Token)
    /\ Ends(r)
    /\ UNCHANGED <<now, owner, epoch, born>>

Enable ==
    /\ owner = "disabled"
    /\ owner' = "active"
    /\ UNCHANGED <<now, rows, work, epoch, born, excused>>

-----------------------------------------------------------------------------

\* A statement fails, and the request with it: what it should have revoked
\* stays.
StatementFails(r) ==
    /\ work[r].stage # "idle"
    /\ excused' = IF work[r].stage = "revoke"
                  THEN excused \cup ActiveTokens(now)
                  ELSE excused
    /\ Ends(r)
    /\ UNCHANGED <<now, owner, rows, epoch, born>>

Prune ==
    /\ rows' = [t \in Token |->
                   IF rows[t].stored /\ Prunable(rows[t]) THEN NoRow ELSE rows[t]]
    /\ UNCHANGED <<now, owner, work, epoch, born, excused>>

Tick ==
    /\ now < MaxTime
    /\ now' = now + 1
    /\ UNCHANGED <<owner, rows, work, epoch, born, excused>>

Next ==
    \/ \E r \in Request :
          \/ ReadOwner(r) \/ Count(r) \/ Create(r)
          \/ Find(r) \/ Touch(r) \/ LoadOwner(r)
          \/ ChangeCredentials(r) \/ RevokeAll(r)
          \/ StatementFails(r)
    \/ \E t \in Token : Revoke(t)
    \/ DestroyAll
    \/ Enable
    \/ Prune
    \/ Tick

Spec == Init /\ [][Next]_vars

-----------------------------------------------------------------------------
(* Properties *)

\* Issue counts before it creates and locks nothing, so requests that counted
\* the same tokens may pass the limit together: by one token each and no more,
\* however long they wait, and whatever expires or is revoked meanwhile.
LimitExceededByRacersOnly ==
    Cardinality(ActiveTokens(now)) <= MaxPerUser + Cardinality(Request) - 1

\* After the owner's credentials have changed no token issued for the old ones
\* stays active, unless the request that changed them has yet to revoke or
\* failed to, or the token was being issued at the time.
OutlivesCredentialsOnlyIfExcused ==
    \A t \in ActiveTokens(now) :
        \/ born[t] = epoch
        \/ t \in excused
        \/ \E r \in Request : work[r].stage = "revoke"

\* A token that expired, was revoked or pruned is never active again, also when
\* a request that found it active goes on to write its row.
DeadForGood == [][\A t \in Token :
    born[t] # 0 /\ ~ActiveAt(rows[t], now) => ~ActiveAt(rows'[t], now')]_vars

\* Requests whose clocks were read in one order and who write in the other do
\* not move the time of the last use back.
LastUsedNeverGoesBack == [][\A t \in Token :
    rows'[t].stored => rows'[t].lastUsed >= rows[t].lastUsed]_vars

\* Prune keeps every token that could still be used.
PruneKeepsActive == [][Prune => \A t \in ActiveTokens(now) : rows'[t].stored]_vars

=============================================================================
