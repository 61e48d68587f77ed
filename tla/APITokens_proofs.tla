-------------------------- MODULE APITokens_proofs --------------------------
(***************************************************************************)
(* What the statements of APITokens never do to a token, for any requests, *)
(* tokens, limits and times.                                               *)
(***************************************************************************)
EXTENDS APITokens, FiniteSetTheorems, TLAPS

-----------------------------------------------------------------------------
(* The inductive invariant *)

\* A row that is not stored holds nothing.
RowsAreClean == \A t \in Token : ~rows[t].stored => rows[t] = NoRow

\* Whatever an operation works with is from its past.
WorksWithThePast ==
    \A r \in Request :
        /\ work[r].at <= now
        /\ work[r].stage \in {"count", "create"} => work[r].epoch \in 1..epoch

IInv ==
    /\ TypeOK
    /\ RowsAreClean
    /\ WorksWithThePast
    /\ OutlivesCredentialsOnlyIfExcused

LEMMA NoRowIsRow == NoRow \in Row /\ ~NoRow.stored /\ NoRow.lastUsed = 0
BY DEF NoRow, Row

LEMMA NoWorkIsWork ==
    NoWork \in Work /\ NoWork.stage = "idle" /\ NoWork.at = 0
BY NoRowIsRow DEF NoWork, Work, Stage

\* The initial states satisfy the inductive invariant.
THEOREM InitEstablishes == Init => IInv
<1> SUFFICES ASSUME Init PROVE IInv
    OBVIOUS
<1>1. TypeOK
    BY NoRowIsRow, NoWorkIsWork DEF Init, TypeOK
<1>2. RowsAreClean /\ WorksWithThePast
    BY NoWorkIsWork DEF Init, RowsAreClean, WorksWithThePast
<1>3. OutlivesCredentialsOnlyIfExcused
    BY NoRowIsRow DEF Init, OutlivesCredentialsOnlyIfExcused, ActiveTokens, ActiveAt
<1> QED
    BY <1>1, <1>2, <1>3 DEF IInv

(* Statements on the table *)

\* Revoking keeps the rows, and leaves none of S active.
LEMMA RevokedRows ==
    ASSUME IInv, NEW S, rows' = Revoked(S), UNCHANGED now
    PROVE  /\ rows' \in [Token -> Row]
           /\ \A t \in Token :
                 /\ rows'[t].stored = rows[t].stored
                 /\ rows'[t].lastUsed = rows[t].lastUsed
                 /\ ~rows[t].stored => rows'[t] = rows[t]
                 /\ ActiveAt(rows'[t], now) => ActiveAt(rows[t], now) /\ t \notin S
<1>1. now \in Nat \ {0} /\ rows \in [Token -> Row]
    BY DEF IInv, TypeOK
<1>2. ASSUME NEW t \in Token
      PROVE  /\ rows'[t] \in Row
             /\ rows'[t].stored = rows[t].stored
             /\ rows'[t].lastUsed = rows[t].lastUsed
             /\ ~rows[t].stored => rows'[t] = rows[t]
             /\ ActiveAt(rows'[t], now) => ActiveAt(rows[t], now) /\ t \notin S
    <2>1. rows[t] \in Row
        BY <1>1
    <2>2. CASE t \in S /\ rows[t].stored /\ rows[t].revoked = 0
        <3>1. rows'[t] = [rows[t] EXCEPT !.revoked = now]
            BY <2>2 DEF Revoked
        <3> QED
            BY <1>1, <2>1, <2>2, <3>1 DEF Row, ActiveAt
    <2>3. CASE ~(t \in S /\ rows[t].stored /\ rows[t].revoked = 0)
        <3>1. rows'[t] = rows[t]
            BY <2>3 DEF Revoked
        <3> QED
            BY <2>1, <2>3, <3>1 DEF ActiveAt
    <2> QED
        BY <2>2, <2>3
<1> QED
    BY <1>2 DEF Revoked

\* Writing a use changes no other column, and moves the time forward.
LEMMA TouchedRows ==
    ASSUME IInv, NEW u \in Token, NEW data, NEW at \in Nat, at <= now,
           rows' = Touched(u, data, at), UNCHANGED now
    PROVE  /\ rows' \in [Token -> Row]
           /\ \A t \in Token :
                 /\ rows'[t].stored = rows[t].stored
                 /\ rows[t].lastUsed <= rows'[t].lastUsed
                 /\ rows[t].stored => rows'[t].lastUsed <= now
                 /\ ~rows[t].stored => rows'[t] = rows[t]
                 /\ ActiveAt(rows'[t], now) <=> ActiveAt(rows[t], now)
<1>1. /\ now \in Nat \ {0} /\ rows \in [Token -> Row] /\ Interval \in Nat
      /\ \A t \in Token : rows[t].stored => rows[t].lastUsed <= now
    BY APITokensAssumption DEF IInv, TypeOK
<1>2. rows[u] \in Row
    BY <1>1
<1>3. CASE rows[u].stored /\ (rows[u].lastUsed = 0 \/ rows[u].lastUsed < at - Interval)
    <2> DEFINE row == [rows[u] EXCEPT !.lastUsed = at]
    <2>1. rows' = [rows EXCEPT ![u] = row]
        BY <1>1, <1>3 DEF Touched
    <2>2. /\ row \in Row /\ row.stored = rows[u].stored /\ row.lastUsed = at
          /\ row.revoked = rows[u].revoked /\ row.expires = rows[u].expires
        BY <1>2 DEF Row
    <2>3. rows[u].lastUsed <= at
        BY <1>1, <1>2, <1>3 DEF Row
    <2> HIDE DEF row
    <2>4. rows' \in [Token -> Row] /\ rows'[u] = row
        BY <1>1, <2>1, <2>2
    <2>5. ASSUME NEW t \in Token
          PROVE  /\ rows'[t].stored = rows[t].stored
                 /\ rows[t].lastUsed <= rows'[t].lastUsed
                 /\ rows[t].stored => rows'[t].lastUsed <= now
                 /\ ~rows[t].stored => rows'[t] = rows[t]
                 /\ ActiveAt(rows'[t], now) <=> ActiveAt(rows[t], now)
        <3>1. CASE t = u
            BY <1>3, <2>2, <2>3, <2>4, <3>1 DEF ActiveAt
        <3>2. CASE t # u
            <4>1. rows'[t] = rows[t] /\ rows[t].lastUsed \in Nat
                BY <1>1, <2>1, <3>2 DEF Row
            <4> QED
                BY <1>1, <4>1
        <3> QED
            BY <3>1, <3>2
    <2> QED
        BY <2>4, <2>5
<1>4. CASE ~(rows[u].stored /\ (rows[u].lastUsed = 0 \/ rows[u].lastUsed < at - Interval))
    <2>1. rows' = rows
        BY <1>4 DEF Touched
    <2>2. \A t \in Token : rows[t].lastUsed \in Nat
        BY <1>1 DEF Row
    <2> QED
        BY <1>1, <2>1, <2>2
<1> QED
    BY <1>3, <1>4

\* Pruning takes rows away that could not be used any more.
LEMMA PrunedRows ==
    ASSUME IInv, Prune
    PROVE  /\ rows' \in [Token -> Row]
           /\ \A t \in Token :
                 /\ rows'[t] \in {rows[t], NoRow}
                 /\ ActiveAt(rows[t], now) => rows'[t] = rows[t]
<1>1. now \in Nat \ {0} /\ rows \in [Token -> Row] /\ Retention \in Nat
    BY APITokensAssumption DEF IInv, TypeOK
<1>2. ASSUME NEW t \in Token
      PROVE  /\ rows'[t] \in {rows[t], NoRow}
             /\ ActiveAt(rows[t], now) => rows'[t] = rows[t]
    <2>1. rows'[t] = IF rows[t].stored /\ Prunable(rows[t]) THEN NoRow ELSE rows[t]
        BY DEF Prune
    <2>2. ActiveAt(rows[t], now) => ~Prunable(rows[t])
        BY <1>1 DEF ActiveAt, Prunable, Row
    <2> QED
        BY <2>1, <2>2
<1>3. rows' = [t \in Token |-> rows'[t]]
    BY DEF Prune
<1> QED
    BY <1>1, <1>2, <1>3, NoRowIsRow

(* Steps *)

\* A step of requests that leaves the table and its history alone keeps what is
\* said of the table, if no request was about to revoke.
LEMMA TableUntouched ==
    ASSUME IInv, UNCHANGED <<now, owner, rows, epoch, born, excused>>,
           work' \in [Request -> Work],
           \A r \in Request : work[r].stage = "revoke" => work'[r].stage = "revoke"
    PROVE  TypeOK' /\ RowsAreClean' /\ OutlivesCredentialsOnlyIfExcused'
<1>1. TypeOK'
    BY DEF IInv, TypeOK
<1>2. RowsAreClean'
    BY DEF IInv, RowsAreClean
<1>3. OutlivesCredentialsOnlyIfExcused'
    BY DEF IInv, OutlivesCredentialsOnlyIfExcused, ActiveTokens, ActiveAt
<1> QED
    BY <1>1, <1>2, <1>3

\* A request goes on to work with something from its past.
LEMMA OneWorks ==
    ASSUME IInv, NEW r \in Request, NEW w \in Work, work' = [work EXCEPT ![r] = w],
           UNCHANGED <<now, epoch>>,
           w.at <= now,
           w.stage \in {"count", "create"} => w.epoch \in 1..epoch
    PROVE  /\ work' \in [Request -> Work]
           /\ work'[r] = w
           /\ \A q \in Request \ {r} : work'[q] = work[q]
           /\ WorksWithThePast'
<1>1. work \in [Request -> Work]
    BY DEF IInv, TypeOK
<1>2. /\ work' \in [Request -> Work]
      /\ work'[r] = w
      /\ \A q \in Request \ {r} : work'[q] = work[q]
    BY <1>1
<1>3. WorksWithThePast'
    BY <1>2 DEF IInv, WorksWithThePast
<1> QED
    BY <1>2, <1>3

LEMMA EndsWorks ==
    ASSUME IInv, NEW r \in Request, Ends(r), UNCHANGED <<now, epoch>>
    PROVE  /\ work' \in [Request -> Work]
           /\ work'[r] = NoWork
           /\ \A q \in Request \ {r} : work'[q] = work[q]
           /\ WorksWithThePast'
<1>1. work' = [work EXCEPT ![r] = NoWork]
    BY DEF Ends
<1>2. NoWork.at <= now
    BY NoWorkIsWork DEF IInv, TypeOK
<1>3. NoWork.stage \in {"count", "create"} => NoWork.epoch \in 1..epoch
    BY NoWorkIsWork
<1> QED
    BY <1>1, <1>2, <1>3, OneWorks, NoWorkIsWork

\* A request goes on and leaves the table alone.
LEMMA Proceeds ==
    ASSUME IInv, NEW r \in Request, NEW w \in Work, work' = [work EXCEPT ![r] = w],
           UNCHANGED <<now, owner, rows, epoch, born, excused>>,
           work[r].stage # "revoke",
           w.at <= now,
           w.stage \in {"count", "create"} => w.epoch \in 1..epoch
    PROVE  IInv'
<1>1. UNCHANGED <<now, epoch>>
    OBVIOUS
<1>2. /\ work' \in [Request -> Work] /\ WorksWithThePast'
      /\ \A q \in Request \ {r} : work'[q] = work[q]
    BY <1>1, OneWorks
<1>3. \A q \in Request : work[q].stage = "revoke" => work'[q].stage = "revoke"
    BY <1>2
<1> QED
    BY <1>2, <1>3, TableUntouched DEF IInv

LEMMA Stops ==
    ASSUME IInv, NEW r \in Request, Ends(r), work[r].stage # "revoke",
           UNCHANGED <<now, owner, rows, epoch, born, excused>>
    PROVE  IInv'
<1>1. UNCHANGED <<now, epoch>>
    OBVIOUS
<1>2. /\ work' \in [Request -> Work] /\ WorksWithThePast'
      /\ \A q \in Request \ {r} : work'[q] = work[q]
    BY <1>1, EndsWorks
<1>3. \A q \in Request : work[q].stage = "revoke" => work'[q].stage = "revoke"
    BY <1>2
<1> QED
    BY <1>2, <1>3, TableUntouched DEF IInv

LEMMA ReadOwnerStep ==
    ASSUME IInv, NEW r \in Request, ReadOwner(r)
    PROVE  IInv'
<1>1. now \in Nat \ {0} /\ epoch \in Nat \ {0}
    BY DEF IInv, TypeOK
<1>2. UNCHANGED <<now, owner, rows, epoch, born, excused>> /\ work[r].stage # "revoke"
    BY DEF ReadOwner
<1> DEFINE w == [NoWork EXCEPT !.stage = "count", !.at = now, !.epoch = epoch]
<1>3. w \in Work /\ w.at = now /\ w.epoch = epoch
    BY <1>1, NoRowIsRow DEF NoWork, Work, Stage
<1>4. work' = [work EXCEPT ![r] = w]
    BY DEF ReadOwner
<1> HIDE DEF w
<1>5. w.at <= now
    BY <1>1, <1>3
<1>6. w.stage \in {"count", "create"} => w.epoch \in 1..epoch
    BY <1>1, <1>3
<1> QED
    BY <1>2, <1>3, <1>4, <1>5, <1>6, Proceeds

LEMMA CountStep ==
    ASSUME IInv, NEW r \in Request, Count(r)
    PROVE  IInv'
<1>1. /\ UNCHANGED <<now, owner, rows, epoch, born, excused>>
      /\ work[r].stage = "count" /\ work[r] \in Work /\ work \in [Request -> Work]
    BY DEF Count, IInv, TypeOK
<1>2. CASE Ends(r)
    <2>1. work[r].stage # "revoke"
        BY <1>1
    <2> QED
        BY <1>1, <1>2, <2>1, Stops
<1>3. CASE work' = [work EXCEPT ![r].stage = "create"]
    <2> DEFINE w == [work[r] EXCEPT !.stage = "create"]
    <2>1. w \in Work /\ w.at = work[r].at /\ w.epoch = work[r].epoch
        BY <1>1 DEF Work, Stage
    <2>2. work' = [work EXCEPT ![r] = w]
        BY <1>1, <1>3
    <2> HIDE DEF w
    <2>3. w.at <= now
        BY <2>1 DEF IInv, WorksWithThePast
    <2>4. w.stage \in {"count", "create"} => w.epoch \in 1..epoch
        BY <1>1, <2>1 DEF IInv, WorksWithThePast
    <2>5. work[r].stage # "revoke"
        BY <1>1
    <2> QED
        BY <1>1, <2>1, <2>2, <2>3, <2>4, <2>5, Proceeds
<1> QED
    BY <1>2, <1>3 DEF Count

LEMMA FindStep ==
    ASSUME IInv, NEW r \in Request, Find(r)
    PROVE  IInv'
<1>1. now \in Nat \ {0} /\ rows \in [Token -> Row]
    BY DEF IInv, TypeOK
<1>2. UNCHANGED <<now, owner, rows, epoch, born, excused>> /\ work[r].stage # "revoke"
    BY DEF Find
<1>3. PICK t \in Token :
         work' = [work EXCEPT ![r] =
                     [NoWork EXCEPT !.stage = "touch", !.at = now, !.token = {t}, !.row = rows[t]]]
    BY DEF Find, FindBySelector
<1> DEFINE w == [NoWork EXCEPT !.stage = "touch", !.at = now, !.token = {t}, !.row = rows[t]]
<1>4. w \in Work /\ w.at = now /\ w.stage = "touch"
    BY <1>1 DEF NoWork, Work, Stage
<1>5. work' = [work EXCEPT ![r] = w]
    BY <1>3
<1> HIDE DEF w
<1>6. w.at <= now
    BY <1>1, <1>4
<1>7. w.stage \in {"count", "create"} => w.epoch \in 1..epoch
    BY <1>4
<1> QED
    BY <1>2, <1>4, <1>5, <1>6, <1>7, Proceeds

LEMMA LoadOwnerStep ==
    ASSUME IInv, NEW r \in Request, LoadOwner(r)
    PROVE  IInv'
<1>1. /\ UNCHANGED <<now, owner, rows, epoch, born, excused>>
      /\ work[r].stage # "revoke" /\ Ends(r)
    BY DEF LoadOwner
<1> QED
    BY <1>1, Stops

LEMMA CreateStep ==
    ASSUME IInv, NEW r \in Request, Create(r)
    PROVE  IInv'
<1>1. PICK t \in Token, lifetime \in 1..MaxLifetime :
         /\ born[t] = 0
         /\ rows' = Created(t, work[r].at + lifetime)
         /\ born' = [born EXCEPT ![t] = work[r].epoch]
         /\ excused' = IF work[r].epoch < epoch THEN excused \cup {t} ELSE excused
    BY DEF Create
<1>2. /\ Ends(r) /\ UNCHANGED <<now, owner, epoch>> /\ work[r].stage = "create"
    BY DEF Create
<1>3. /\ now \in Nat \ {0} /\ epoch \in Nat \ {0} /\ work[r] \in Work
      /\ work[r].epoch \in 1..epoch /\ work[r].at \in Nat /\ lifetime \in Nat
      /\ rows \in [Token -> Row] /\ born \in [Token -> Nat] /\ excused \in SUBSET Token
    BY <1>1, <1>2, APITokensAssumption DEF IInv, TypeOK, WorksWithThePast, Work
<1>4. /\ work' \in [Request -> Work]
      /\ work'[r] = NoWork
      /\ \A q \in Request \ {r} : work'[q] = work[q]
      /\ WorksWithThePast'
    BY <1>2, EndsWorks
<1> DEFINE row == [NoRow EXCEPT !.stored = TRUE, !.expires = work[r].at + lifetime]
<1>5. row \in Row /\ row.stored /\ row.lastUsed = 0
    <2>1. work[r].at + lifetime \in Nat
        BY <1>3
    <2> QED
        BY <2>1, NoRowIsRow DEF NoRow, Row
<1>6. rows' = [rows EXCEPT ![t] = row]
    BY <1>1 DEF Created
<1> HIDE DEF row
<1>7. /\ rows' \in [Token -> Row] /\ rows'[t] = row
      /\ \A u \in Token \ {t} : rows'[u] = rows[u]
    BY <1>3, <1>5, <1>6
<1>8. /\ born' \in [Token -> Nat] /\ born'[t] = work[r].epoch
      /\ \A u \in Token \ {t} : born'[u] = born[u]
    BY <1>1, <1>3
<1>9. TypeOK'
    <2>1. ASSUME NEW u \in Token, rows'[u].stored
          PROVE  born'[u] \in 1..epoch /\ rows'[u].lastUsed <= now
        <3>1. CASE u = t
            BY <1>3, <1>5, <1>7, <1>8, <3>1
        <3>2. CASE u # t
            BY <1>7, <1>8, <2>1, <3>2 DEF IInv, TypeOK
        <3> QED
            BY <3>1, <3>2
    <2> QED
        BY <1>1, <1>2, <1>3, <1>4, <1>7, <1>8, <2>1 DEF IInv, TypeOK
<1>10. RowsAreClean'
    BY <1>5, <1>7 DEF IInv, RowsAreClean
<1>11. OutlivesCredentialsOnlyIfExcused'
    <2>1. ASSUME NEW u \in ActiveTokens(now)', u = t
          PROVE  born'[u] = epoch \/ u \in excused'
        BY <1>1, <1>3, <1>8, <2>1
    <2>2. ASSUME NEW u \in ActiveTokens(now)', u # t
          PROVE  \/ born'[u] = epoch
                 \/ u \in excused'
                 \/ \E q \in Request : work'[q].stage = "revoke"
        <3>1. u \in Token /\ rows'[u] = rows[u] /\ born'[u] = born[u]
            BY <1>7, <1>8, <2>2 DEF ActiveTokens
        <3>2. u \in ActiveTokens(now)
            BY <1>2, <2>2, <3>1 DEF ActiveTokens, ActiveAt
        <3>3. \/ born[u] = epoch
              \/ u \in excused
              \/ \E q \in Request : work[q].stage = "revoke"
            BY <3>2 DEF IInv, OutlivesCredentialsOnlyIfExcused
        <3> QED
            BY <1>1, <1>2, <1>4, <3>1, <3>3
    <2> QED
        BY <1>2, <2>1, <2>2 DEF OutlivesCredentialsOnlyIfExcused
<1> QED
    BY <1>4, <1>9, <1>10, <1>11 DEF IInv

\* The table keeps its invariant through a statement that makes no token active.
LEMMA RowsLoseActivity ==
    ASSUME IInv, UNCHANGED <<now, owner, epoch, born>>,
           rows' \in [Token -> Row], work' \in [Request -> Work], excused' \in SUBSET Token,
           WorksWithThePast',
           \A t \in Token :
               /\ rows'[t].stored => rows[t].stored /\ rows'[t].lastUsed <= now
               /\ ~rows'[t].stored => rows'[t] = NoRow
               /\ ActiveAt(rows'[t], now) =>
                      \/ born[t] = epoch
                      \/ t \in excused'
                      \/ \E r \in Request : work'[r].stage = "revoke"
    PROVE  IInv'
<1>1. TypeOK'
    BY DEF IInv, TypeOK
<1>2. RowsAreClean'
    BY DEF RowsAreClean
<1>3. OutlivesCredentialsOnlyIfExcused'
    BY DEF OutlivesCredentialsOnlyIfExcused, ActiveTokens, ActiveAt
<1> QED
    BY <1>1, <1>2, <1>3 DEF IInv

\* What the invariant says of one token.
LEMMA OneToken ==
    ASSUME IInv, NEW t \in Token
    PROVE  /\ rows[t].stored => rows[t].lastUsed <= now
           /\ ~rows[t].stored => rows[t] = NoRow
           /\ ActiveAt(rows[t], now) =>
                  \/ born[t] = epoch
                  \/ t \in excused
                  \/ \E r \in Request : work[r].stage = "revoke"
BY DEF IInv, TypeOK, RowsAreClean, OutlivesCredentialsOnlyIfExcused, ActiveTokens

LEMMA TouchStep ==
    ASSUME IInv, NEW r \in Request, Touch(r)
    PROVE  IInv'
<1>1. UNCHANGED <<now, owner, epoch, born, excused>> /\ work[r].stage = "touch"
    BY DEF Touch
<1>2. work[r] \in Work /\ work[r].at <= now /\ excused \in SUBSET Token
    BY DEF IInv, TypeOK, WorksWithThePast
<1>3. work[r].at \in Nat /\ work[r].token \in SUBSET Token
    BY <1>2 DEF Work
<1>4. PICK u \in Token : rows' = Touched(u, work[r].row, work[r].at)
    BY <1>3 DEF Touch
<1>5. UNCHANGED now
    BY <1>1
<1>6. /\ rows' \in [Token -> Row]
      /\ \A t \in Token :
            /\ rows'[t].stored = rows[t].stored
            /\ rows[t].stored => rows'[t].lastUsed <= now
            /\ ~rows[t].stored => rows'[t] = rows[t]
            /\ ActiveAt(rows'[t], now) <=> ActiveAt(rows[t], now)
    BY <1>2, <1>3, <1>4, <1>5, TouchedRows
<1> DEFINE w == [NoWork EXCEPT !.stage = "owner"]
<1>7. w \in Work /\ w.at = 0 /\ w.stage = "owner"
    BY NoRowIsRow DEF NoWork, Work, Stage
<1>8. work' = [work EXCEPT ![r] = w]
    BY DEF Touch
<1> HIDE DEF w
<1>9. w.at <= now
    BY <1>7 DEF IInv, TypeOK
<1>10. w.stage \in {"count", "create"} => w.epoch \in 1..epoch
    BY <1>7
<1>11. UNCHANGED <<now, epoch>>
    BY <1>1
<1>12. /\ work' \in [Request -> Work] /\ WorksWithThePast'
       /\ \A q \in Request \ {r} : work'[q] = work[q]
    BY <1>7, <1>8, <1>9, <1>10, <1>11, OneWorks
<1>13. ASSUME NEW t \in Token
       PROVE  /\ rows'[t].stored => rows[t].stored /\ rows'[t].lastUsed <= now
              /\ ~rows'[t].stored => rows'[t] = NoRow
              /\ ActiveAt(rows'[t], now) =>
                     \/ born[t] = epoch
                     \/ t \in excused'
                     \/ \E q \in Request : work'[q].stage = "revoke"
    BY <1>1, <1>6, <1>12, OneToken
<1>14. excused' \in SUBSET Token
    BY <1>1, <1>2
<1>15. UNCHANGED <<now, owner, epoch, born>>
    BY <1>1
<1> QED
    BY <1>6, <1>12, <1>13, <1>14, <1>15, RowsLoseActivity

\* A statement that revokes the tokens in S, whatever its request does next.
LEMMA RevokingStep ==
    ASSUME IInv, NEW S, Revokes(S), UNCHANGED <<now, owner, epoch, born>>,
           work' \in [Request -> Work], WorksWithThePast',
           \/ UNCHANGED work
           \/ S = Token
    PROVE  IInv'
<1>1. rows' = Revoked(S) /\ UNCHANGED now /\ excused' = excused \ S
    BY DEF Revokes
<1>2. /\ rows' \in [Token -> Row]
      /\ \A t \in Token :
            /\ rows'[t].stored = rows[t].stored
            /\ rows'[t].lastUsed = rows[t].lastUsed
            /\ ~rows[t].stored => rows'[t] = rows[t]
            /\ ActiveAt(rows'[t], now) => ActiveAt(rows[t], now) /\ t \notin S
    BY <1>1, RevokedRows
<1>3. ASSUME NEW t \in Token
      PROVE  /\ rows'[t].stored => rows[t].stored /\ rows'[t].lastUsed <= now
             /\ ~rows'[t].stored => rows'[t] = NoRow
             /\ ActiveAt(rows'[t], now) =>
                    \/ born[t] = epoch
                    \/ t \in excused'
                    \/ \E q \in Request : work'[q].stage = "revoke"
    BY <1>1, <1>2, OneToken
<1>4. excused' \in SUBSET Token
    BY <1>1 DEF IInv, TypeOK
<1> QED
    BY <1>2, <1>3, <1>4, RowsLoseActivity

LEMMA RevokeSteps ==
    ASSUME IInv, DestroyAll \/ (\E t \in Token : Revoke(t))
    PROVE  IInv'
<1>1. UNCHANGED <<now, owner, epoch, born>> /\ UNCHANGED work
    BY DEF Revoke, DestroyAll
<1>2. work' \in [Request -> Work] /\ WorksWithThePast'
    BY <1>1 DEF IInv, TypeOK, WorksWithThePast
<1>3. PICK S : Revokes(S)
    BY DEF Revoke, DestroyAll
<1> QED
    BY <1>1, <1>2, <1>3, RevokingStep

LEMMA RevokeAllStep ==
    ASSUME IInv, NEW r \in Request, RevokeAll(r)
    PROVE  IInv'
<1>1. /\ UNCHANGED <<now, owner, epoch, born>> /\ UNCHANGED <<now, epoch>>
      /\ Revokes(Token) /\ Ends(r)
    BY DEF RevokeAll
<1>2. work' \in [Request -> Work] /\ WorksWithThePast'
    BY <1>1, EndsWorks
<1> QED
    BY <1>1, <1>2, RevokingStep

LEMMA ChangeCredentialsStep ==
    ASSUME IInv, NEW r \in Request, ChangeCredentials(r)
    PROVE  IInv'
<1>1. /\ epoch \in Nat \ {0} /\ epoch' = epoch + 1
      /\ UNCHANGED <<now, rows, born, excused>>
      /\ work \in [Request -> Work] /\ now \in Nat \ {0}
    BY DEF ChangeCredentials, IInv, TypeOK
<1> DEFINE w == [NoWork EXCEPT !.stage = "revoke"]
<1>2. w \in Work /\ w.at = 0 /\ w.stage = "revoke"
    BY NoRowIsRow DEF NoWork, Work, Stage
<1>3. work' = [work EXCEPT ![r] = w]
    BY DEF ChangeCredentials, Revoking
<1> HIDE DEF w
<1>4. /\ work' \in [Request -> Work] /\ work'[r] = w
      /\ \A q \in Request \ {r} : work'[q] = work[q]
    BY <1>1, <1>2, <1>3
<1>5. TypeOK'
    <2>1. owner' \in {"active", "disabled", "deleted"} /\ epoch' \in Nat \ {0}
        BY <1>1 DEF ChangeCredentials, IInv, TypeOK
    <2>2. \A t \in Token : rows'[t].stored => born'[t] \in 1..epoch' /\ rows'[t].lastUsed <= now'
        BY <1>1 DEF IInv, TypeOK
    <2> QED
        BY <1>1, <1>4, <2>1, <2>2 DEF IInv, TypeOK
<1>6. RowsAreClean'
    BY <1>1 DEF IInv, RowsAreClean
<1>7. WorksWithThePast'
    <2>1. ASSUME NEW q \in Request
          PROVE  /\ work'[q].at <= now'
                 /\ work'[q].stage \in {"count", "create"} => work'[q].epoch \in 1..epoch'
        <3>1. CASE q = r
            BY <1>1, <1>2, <1>4, <3>1
        <3>2. CASE q # r
            <4>1. /\ work'[q] = work[q] /\ work[q].at <= now
                  /\ work[q].stage \in {"count", "create"} => work[q].epoch \in 1..epoch
                BY <1>4, <3>2 DEF IInv, WorksWithThePast
            <4> QED
                BY <1>1, <4>1
        <3> QED
            BY <3>1, <3>2
    <2> QED
        BY <2>1 DEF WorksWithThePast
<1>8. OutlivesCredentialsOnlyIfExcused'
    BY <1>2, <1>4 DEF OutlivesCredentialsOnlyIfExcused
<1> QED
    BY <1>5, <1>6, <1>7, <1>8 DEF IInv

LEMMA StatementFailsStep ==
    ASSUME IInv, NEW r \in Request, StatementFails(r)
    PROVE  IInv'
<1>1. /\ UNCHANGED <<now, owner, epoch, born>> /\ UNCHANGED <<now, epoch>>
      /\ UNCHANGED rows /\ Ends(r)
    BY DEF StatementFails
<1>2. /\ work' \in [Request -> Work] /\ WorksWithThePast'
      /\ \A q \in Request \ {r} : work'[q] = work[q]
    BY <1>1, EndsWorks
<1>3. rows' \in [Token -> Row]
    BY <1>1 DEF IInv, TypeOK
<1>4. excused' \in SUBSET Token /\ excused \subseteq excused'
    BY DEF StatementFails, IInv, TypeOK, ActiveTokens
<1>5. ASSUME NEW t \in Token
      PROVE  /\ rows'[t].stored => rows[t].stored /\ rows'[t].lastUsed <= now
             /\ ~rows'[t].stored => rows'[t] = NoRow
             /\ ActiveAt(rows'[t], now) =>
                    \/ born[t] = epoch
                    \/ t \in excused'
                    \/ \E q \in Request : work'[q].stage = "revoke"
    <2>1. CASE work[r].stage = "revoke"
        <3>1. ActiveAt(rows[t], now) => t \in excused'
            BY <2>1 DEF StatementFails, ActiveTokens
        <3> QED
            BY <1>1, <3>1, OneToken
    <2>2. CASE work[r].stage # "revoke"
        BY <1>1, <1>2, <1>4, <2>2, OneToken
    <2> QED
        BY <2>1, <2>2
<1> QED
    BY <1>1, <1>2, <1>3, <1>4, <1>5, RowsLoseActivity

LEMMA PruneStep ==
    ASSUME IInv, Prune
    PROVE  IInv'
<1>1. UNCHANGED <<now, owner, epoch, born>> /\ UNCHANGED <<work, excused>>
    BY DEF Prune
<1>2. /\ rows' \in [Token -> Row]
      /\ \A t \in Token : rows'[t] \in {rows[t], NoRow}
    BY PrunedRows
<1>3. work' \in [Request -> Work] /\ excused' \in SUBSET Token /\ WorksWithThePast'
    BY <1>1 DEF IInv, TypeOK, WorksWithThePast
<1>4. ASSUME NEW t \in Token
      PROVE  /\ rows'[t].stored => rows[t].stored /\ rows'[t].lastUsed <= now
             /\ ~rows'[t].stored => rows'[t] = NoRow
             /\ ActiveAt(rows'[t], now) =>
                    \/ born[t] = epoch
                    \/ t \in excused'
                    \/ \E q \in Request : work'[q].stage = "revoke"
    <2>1. CASE rows'[t] = rows[t]
        BY <1>1, <2>1, OneToken
    <2>2. CASE rows'[t] = NoRow
        BY <2>2, NoRowIsRow DEF ActiveAt
    <2> QED
        BY <1>2, <2>1, <2>2
<1> QED
    BY <1>1, <1>2, <1>3, <1>4, RowsLoseActivity

\* Time passes: what is active was active before.
LEMMA TickStep ==
    ASSUME IInv, Tick
    PROVE  IInv'
<1>1. /\ now \in Nat \ {0} /\ now' = now + 1 /\ rows \in [Token -> Row]
      /\ work \in [Request -> Work]
      /\ UNCHANGED <<owner, rows, work, epoch, born, excused>>
    BY DEF Tick, IInv, TypeOK
<1>2. TypeOK'
    <2>1. ASSUME NEW t \in Token, rows[t].stored
          PROVE  rows[t].lastUsed <= now + 1
        <3>1. rows[t].lastUsed \in Nat /\ rows[t].lastUsed <= now
            BY <1>1, <2>1 DEF IInv, TypeOK, Row
        <3> QED
            BY <1>1, <3>1
    <2> QED
        BY <1>1, <2>1 DEF IInv, TypeOK
<1>3. RowsAreClean'
    BY <1>1 DEF IInv, RowsAreClean
<1>4. WorksWithThePast'
    <2>1. ASSUME NEW q \in Request
          PROVE  work[q].at <= now + 1
        <3>1. work[q].at \in Nat /\ work[q].at <= now
            BY <1>1 DEF IInv, WorksWithThePast, Work
        <3> QED
            BY <1>1, <3>1
    <2> QED
        BY <1>1, <2>1 DEF IInv, WorksWithThePast
<1>5. \A t \in Token : ActiveAt(rows[t], now + 1) => ActiveAt(rows[t], now)
    BY <1>1 DEF ActiveAt, Row
<1>6. OutlivesCredentialsOnlyIfExcused'
    BY <1>1, <1>5 DEF IInv, OutlivesCredentialsOnlyIfExcused, ActiveTokens
<1> QED
    BY <1>2, <1>3, <1>4, <1>6 DEF IInv

LEMMA EnableStep ==
    ASSUME IInv, Enable
    PROVE  IInv'
<1>1. owner' = "active" /\ UNCHANGED <<now, rows, work, epoch, born, excused>>
    BY DEF Enable
<1>2. TypeOK'
    BY <1>1 DEF IInv, TypeOK
<1>3. RowsAreClean' /\ WorksWithThePast'
    BY <1>1 DEF IInv, RowsAreClean, WorksWithThePast
<1>4. OutlivesCredentialsOnlyIfExcused'
    BY <1>1 DEF IInv, OutlivesCredentialsOnlyIfExcused, ActiveTokens, ActiveAt
<1> QED
    BY <1>2, <1>3, <1>4 DEF IInv

\* Every step keeps the inductive invariant.
THEOREM NextPreserves == IInv /\ [Next]_vars => IInv'
<1> SUFFICES ASSUME IInv, [Next]_vars PROVE IInv'
    OBVIOUS
<1>1. ASSUME NEW r \in Request, ReadOwner(r) \/ Count(r) \/ Create(r)
      PROVE  IInv'
    BY <1>1, ReadOwnerStep, CountStep, CreateStep
<1>2. ASSUME NEW r \in Request, Find(r) \/ Touch(r) \/ LoadOwner(r)
      PROVE  IInv'
    BY <1>2, FindStep, TouchStep, LoadOwnerStep
<1>3. ASSUME NEW r \in Request, ChangeCredentials(r) \/ RevokeAll(r) \/ StatementFails(r)
      PROVE  IInv'
    BY <1>3, ChangeCredentialsStep, RevokeAllStep, StatementFailsStep
<1>4. CASE (\E t \in Token : Revoke(t)) \/ DestroyAll
    BY <1>4, RevokeSteps
<1>5. CASE Enable \/ Prune \/ Tick
    BY <1>5, EnableStep, PruneStep, TickStep
<1>6. CASE UNCHANGED vars
    <2>1. TypeOK'
        BY <1>6 DEF IInv, TypeOK, vars
    <2>2. RowsAreClean' /\ WorksWithThePast'
        BY <1>6 DEF IInv, RowsAreClean, WorksWithThePast, vars
    <2>3. OutlivesCredentialsOnlyIfExcused'
        BY <1>6 DEF IInv, OutlivesCredentialsOnlyIfExcused, ActiveTokens, ActiveAt, vars
    <2> QED
        BY <2>1, <2>2, <2>3 DEF IInv
<1> QED
    BY <1>1, <1>2, <1>3, <1>4, <1>5, <1>6 DEF Next

\* The inductive invariant holds of every state the code reaches.
THEOREM InvariantHolds == Spec => []IInv
BY InitEstablishes, NextPreserves, PTL DEF Spec

-----------------------------------------------------------------------------
(* What a step does to a token *)

\* No step makes a token active that was issued and is not, or moves the time of
\* its last use back while its row is kept.
LEMMA NeverBack ==
    ASSUME IInv, Next, NEW t \in Token
    PROVE  /\ born[t] # 0 /\ ~ActiveAt(rows[t], now) => ~ActiveAt(rows'[t], now')
           /\ rows'[t].stored => rows'[t].lastUsed >= rows[t].lastUsed
<1>1. /\ now \in Nat \ {0} /\ rows \in [Token -> Row] /\ rows[t] \in Row
      /\ rows[t].lastUsed \in Nat
    BY DEF IInv, TypeOK, Row
<1>2. CASE UNCHANGED <<now, rows>>
    BY <1>1, <1>2 DEF ActiveAt
<1>3. CASE \E r \in Request : Create(r)
    <2>1. PICK r \in Request, u \in Token, lifetime \in 1..MaxLifetime :
             /\ Create(r)
             /\ born[u] = 0
             /\ rows' = Created(u, work[r].at + lifetime)
        BY <1>3 DEF Create
    <2>2. now' = now
        BY <2>1 DEF Create
    <2>3. CASE t = u
        <3>1. ~rows[t].stored
            BY <2>1, <2>3 DEF IInv, TypeOK
        <3>2. rows[t].lastUsed = 0
            BY <3>1, NoRowIsRow DEF IInv, RowsAreClean
        <3>3. rows'[t] = [NoRow EXCEPT !.stored = TRUE, !.expires = work[r].at + lifetime]
            BY <1>1, <2>1, <2>3 DEF Created
        <3>4. rows'[t].lastUsed = 0
            BY <3>3 DEF NoRow
        <3> QED
            BY <2>1, <2>3, <3>2, <3>4
    <2>4. CASE t # u
        <3>1. rows'[t] = rows[t]
            BY <1>1, <2>1, <2>4 DEF Created
        <3> QED
            BY <1>1, <2>2, <3>1 DEF ActiveAt
    <2> QED
        BY <2>3, <2>4
<1>4. CASE \E r \in Request : Touch(r)
    <2>1. PICK r \in Request : Touch(r)
        BY <1>4
    <2>2. UNCHANGED now
        BY <2>1 DEF Touch
    <2>3. work[r] \in Work /\ work[r].at <= now
        BY DEF IInv, TypeOK, WorksWithThePast
    <2>4. work[r].at \in Nat /\ work[r].token \in SUBSET Token
        BY <2>3 DEF Work
    <2>5. PICK u \in Token : rows' = Touched(u, work[r].row, work[r].at)
        BY <2>1, <2>4 DEF Touch
    <2>6. /\ rows[t].lastUsed <= rows'[t].lastUsed
          /\ ActiveAt(rows'[t], now) <=> ActiveAt(rows[t], now)
        BY <2>2, <2>3, <2>4, <2>5, TouchedRows
    <2>7. rows'[t].lastUsed \in Nat
        <3>1. rows' \in [Token -> Row]
            BY <2>2, <2>3, <2>4, <2>5, TouchedRows
        <3> QED
            BY <3>1 DEF Row
    <2> QED
        BY <1>1, <2>2, <2>6, <2>7
<1>5. CASE \E S : Revokes(S) /\ UNCHANGED now
    <2>1. PICK S : rows' = Revoked(S) /\ UNCHANGED now
        BY <1>5 DEF Revokes
    <2>2. /\ rows'[t].lastUsed = rows[t].lastUsed
          /\ ActiveAt(rows'[t], now) => ActiveAt(rows[t], now)
        BY <2>1, RevokedRows
    <2> QED
        BY <1>1, <2>1, <2>2
<1>6. CASE Prune
    <2>1. now' = now
        BY <1>6 DEF Prune
    <2>2. rows'[t] \in {rows[t], NoRow}
        BY <1>6, PrunedRows
    <2>3. CASE rows'[t] = rows[t]
        BY <1>1, <2>1, <2>3
    <2>4. CASE rows'[t] = NoRow
        BY <2>4, NoRowIsRow DEF ActiveAt
    <2> QED
        BY <2>2, <2>3, <2>4
<1>7. CASE Tick
    <2>1. now' = now + 1 /\ rows' = rows
        BY <1>7 DEF Tick
    <2>2. ActiveAt(rows[t], now + 1) => ActiveAt(rows[t], now)
        BY <1>1 DEF ActiveAt, Row
    <2> QED
        BY <1>1, <2>1, <2>2
<1>8. \/ UNCHANGED <<now, rows>>
      \/ \E r \in Request : Create(r) \/ Touch(r)
      \/ \E S : Revokes(S) /\ UNCHANGED now
      \/ Prune
      \/ Tick
    BY DEF Next, ReadOwner, Count, Find, LoadOwner, Revoke, DestroyAll, ChangeCredentials,
           RevokeAll, Enable, StatementFails
<1> QED
    BY <1>2, <1>3, <1>4, <1>5, <1>6, <1>7, <1>8

-----------------------------------------------------------------------------
(* What the invariant gives *)

\* A row that is stored was issued in the past for credentials the owner had, and
\* never used in the future, whatever order the statements of requests come in.
THEOREM APITokensTypeOK == Spec => []TypeOK
<1>1. IInv => TypeOK
    BY DEF IInv
<1> QED
    BY <1>1, InvariantHolds, PTL

\* A change of password, a lock or deletion leaves no token of before active, but
\* for the interleavings and the failures that the property names
\* (contracts/guard.go, services/api_tokens.go).
THEOREM APITokensDieWithCredentials == Spec => []OutlivesCredentialsOnlyIfExcused
<1>1. IInv => OutlivesCredentialsOnlyIfExcused
    BY DEF IInv
<1> QED
    BY <1>1, InvariantHolds, PTL

\* A token that was refused once is refused for good: a use that was found in
\* time and is written after the token was revoked or pruned does not bring it
\* back (services/api_tokens.go, repositories/api_tokens.go).
THEOREM APITokensStayDead == Spec => DeadForGood
<1>1. IInv /\ [Next]_vars =>
        [\A t \in Token :
            born[t] # 0 /\ ~ActiveAt(rows[t], now) => ~ActiveAt(rows'[t], now')]_vars
    BY NeverBack
<1> QED
    BY <1>1, InvariantHolds, PTL DEF Spec, DeadForGood

\* Two uses written in the other order than their clocks were read leave the
\* later time.
THEOREM APITokensLastUseMonotone == Spec => LastUsedNeverGoesBack
<1>1. IInv /\ [Next]_vars =>
        [\A t \in Token : rows'[t].stored => rows'[t].lastUsed >= rows[t].lastUsed]_vars
    BY NeverBack
<1> QED
    BY <1>1, InvariantHolds, PTL DEF Spec, LastUsedNeverGoesBack

\* Pruning takes no token away that could be used, for any retention.
THEOREM APITokensPruneSafe == Spec => PruneKeepsActive
<1>1. IInv /\ [Next]_vars =>
        [Prune => \A t \in ActiveTokens(now) : rows'[t].stored]_vars
    BY PrunedRows DEF ActiveTokens, ActiveAt
<1> QED
    BY <1>1, InvariantHolds, PTL DEF Spec, PruneKeepsActive

-----------------------------------------------------------------------------
(* The limit, and the requests that race past it *)

Issued == {t \in Token : born[t] # 0}

\* The requests that passed the count and have yet to create.
Creating == {r \in Request : work[r].stage = "create"}

\* Every request that may still create a token counts against the limit as one
\* of the racers it admits.
RacersCounted ==
    /\ IsFiniteSet(Issued)
    /\ Cardinality(ActiveTokens(now)) + Cardinality(Creating)
           <= MaxPerUser + Cardinality(Request) - 1

\* The tokens active at some time are finitely many, as those issued are.
LEMMA ActiveAreFinite ==
    ASSUME TypeOK, IsFiniteSet(Issued), NEW time
    PROVE  /\ IsFiniteSet(ActiveTokens(time))
           /\ Cardinality(ActiveTokens(time)) \in Nat
<1>1. ActiveTokens(time) \subseteq Issued
    BY DEF TypeOK, ActiveTokens, ActiveAt, Issued
<1>2. IsFiniteSet(ActiveTokens(time))
    BY <1>1, FS_Subset
<1> QED
    BY <1>2, FS_CardinalityType

LEMMA OneMore ==
    ASSUME NEW S, IsFiniteSet(S), NEW x
    PROVE  /\ IsFiniteSet(S \cup {x})
           /\ Cardinality(S \cup {x}) <= Cardinality(S) + 1
<1>1. Cardinality(S) \in Nat
    BY FS_CardinalityType
<1>2. /\ IsFiniteSet(S \cup {x})
      /\ Cardinality(S \cup {x}) \in {Cardinality(S), Cardinality(S) + 1}
    BY FS_AddElement
<1> QED
    BY <1>1, <1>2

\* Some of the requests are no more than all of them.
LEMMA SomeRequests ==
    ASSUME NEW S, S \subseteq Request
    PROVE  /\ IsFiniteSet(S)
           /\ Cardinality(S) \in Nat
           /\ Cardinality(S) <= Cardinality(Request)
           /\ Cardinality(Request) \in Nat
           /\ MaxPerUser \in Nat \ {0}
<1>1. IsFiniteSet(Request) /\ MaxPerUser \in Nat \ {0}
    BY APITokensAssumption DEF APITokensAssumption
<1>2. IsFiniteSet(S) /\ Cardinality(S) <= Cardinality(Request)
    BY <1>1, FS_Subset
<1> QED
    BY <1>1, <1>2, FS_CardinalityType

LEMMA CreatingAreFinite ==
    /\ IsFiniteSet(Creating)
    /\ Cardinality(Creating) \in Nat
    /\ Cardinality(Request) \in Nat
    /\ MaxPerUser \in Nat
<1>1. Creating \subseteq Request
    BY DEF Creating
<1> QED
    BY <1>1, SomeRequests

\* A step that issues no token activates none.
LEMMA ActiveOnlyLessen ==
    ASSUME IInv, TypeOK', Next, UNCHANGED born
    PROVE  Issued' = Issued /\ ActiveTokens(now)' \subseteq ActiveTokens(now)
<1>1. ASSUME NEW t \in Token, ActiveAt(rows'[t], now')
      PROVE  ActiveAt(rows[t], now)
    <2>1. born[t] # 0
        BY <1>1 DEF TypeOK, ActiveAt
    <2> QED
        BY <1>1, <2>1, NeverBack
<1> QED
    BY <1>1 DEF Issued, ActiveTokens

\* The limit keeps its room when neither the tokens nor the racers grow.
LEMMA FewerAreCounted ==
    ASSUME TypeOK, RacersCounted, Issued' = Issued,
           ActiveTokens(now)' \subseteq ActiveTokens(now), Creating' \subseteq Creating
    PROVE  RacersCounted'
<1>1. /\ IsFiniteSet(ActiveTokens(now)) /\ Cardinality(ActiveTokens(now)) \in Nat
      /\ IsFiniteSet(Creating) /\ Cardinality(Creating) \in Nat
      /\ Cardinality(Request) \in Nat /\ MaxPerUser \in Nat
    BY ActiveAreFinite, CreatingAreFinite DEF RacersCounted
<1>2. /\ Cardinality(ActiveTokens(now)') <= Cardinality(ActiveTokens(now))
      /\ Cardinality(ActiveTokens(now)') \in Nat
    BY <1>1, FS_Subset, FS_CardinalityType
<1>3. Cardinality(Creating') <= Cardinality(Creating) /\ Cardinality(Creating') \in Nat
    BY <1>1, FS_Subset, FS_CardinalityType
<1>4. Cardinality(ActiveTokens(now)') + Cardinality(Creating')
          <= MaxPerUser + Cardinality(Request) - 1
    BY <1>1, <1>2, <1>3 DEF RacersCounted
<1> QED
    BY <1>4 DEF RacersCounted

\* A request that passes the count saw fewer active tokens than the limit, and
\* what is active now was active at the time it counted with.
LEMMA CountIsCounted ==
    ASSUME IInv, RacersCounted, NEW r \in Request, Count(r)
    PROVE  RacersCounted'
<1>1. /\ UNCHANGED <<now, rows, born>> /\ work[r].stage = "count"
      /\ work \in [Request -> Work] /\ rows \in [Token -> Row] /\ now \in Nat
    BY DEF Count, IInv, TypeOK
<1>2. Issued' = Issued /\ ActiveTokens(now)' = ActiveTokens(now)
    BY <1>1 DEF Issued, ActiveTokens
<1>3. CASE LimitReached(Cardinality(ActiveTokens(work[r].at)))
    <2>1. work' = [work EXCEPT ![r] = NoWork]
        BY <1>3 DEF Count, Ends
    <2>2. Creating' \subseteq Creating
        BY <1>1, <2>1, NoWorkIsWork DEF Creating
    <2> QED
        BY <1>2, <2>2, FewerAreCounted DEF IInv
<1>4. CASE ~LimitReached(Cardinality(ActiveTokens(work[r].at)))
    <2>1. work[r].at \in Nat /\ work[r].at <= now
        BY <1>1 DEF Work, IInv, WorksWithThePast
    <2>2. ActiveTokens(now) \subseteq ActiveTokens(work[r].at)
        BY <1>1, <2>1 DEF ActiveTokens, ActiveAt, Row
    <2>3. /\ IsFiniteSet(ActiveTokens(work[r].at))
          /\ Cardinality(ActiveTokens(work[r].at)) \in Nat
          /\ Cardinality(ActiveTokens(now)) \in Nat
        BY ActiveAreFinite DEF IInv, RacersCounted
    <2>4. Cardinality(ActiveTokens(now)) <= Cardinality(ActiveTokens(work[r].at))
        BY <2>2, <2>3, FS_Subset
    <2>5. ~(Cardinality(ActiveTokens(work[r].at)) >= MaxPerUser)
        BY <1>4 DEF LimitReached
    <2>6. /\ Cardinality(Creating') \in Nat /\ Cardinality(Creating') <= Cardinality(Request)
          /\ Cardinality(Request) \in Nat /\ MaxPerUser \in Nat
        <3>1. Creating' \subseteq Request
            BY DEF Creating
        <3> QED
            BY <3>1, SomeRequests
    <2>7. Cardinality(ActiveTokens(now)) + Cardinality(Creating')
              <= MaxPerUser + Cardinality(Request) - 1
        BY <2>3, <2>4, <2>5, <2>6
    <2> QED
        BY <1>2, <2>7 DEF RacersCounted
<1> QED
    BY <1>3, <1>4

\* A token that is created takes the place of the request that creates it.
LEMMA CreateIsCounted ==
    ASSUME IInv, RacersCounted, NEW r \in Request, Create(r)
    PROVE  RacersCounted'
<1>1. PICK t \in Token :
         /\ \E expires : rows' = Created(t, expires)
         /\ born' = [born EXCEPT ![t] = work[r].epoch]
    BY DEF Create
<1>2. /\ work' = [work EXCEPT ![r] = NoWork] /\ now' = now
      /\ work[r].stage = "create" /\ work \in [Request -> Work]
      /\ rows \in [Token -> Row] /\ born \in [Token -> Nat]
    BY DEF Create, Ends, IInv, TypeOK
<1>3. Issued' \subseteq Issued \cup {t}
    BY <1>1, <1>2 DEF Issued
<1>4. ActiveTokens(now)' \subseteq ActiveTokens(now) \cup {t}
    BY <1>1, <1>2 DEF ActiveTokens, ActiveAt, Created
<1>5. Creating' \subseteq Creating \ {r} /\ r \in Creating
    BY <1>2, NoWorkIsWork DEF Creating
<1>6. /\ IsFiniteSet(ActiveTokens(now)) /\ Cardinality(ActiveTokens(now)) \in Nat
      /\ IsFiniteSet(Creating) /\ Cardinality(Creating) \in Nat
      /\ Cardinality(Request) \in Nat /\ MaxPerUser \in Nat
    BY ActiveAreFinite, CreatingAreFinite DEF IInv, RacersCounted
<1>7. IsFiniteSet(Issued')
    <2>1. IsFiniteSet(Issued \cup {t})
        BY FS_AddElement DEF RacersCounted
    <2> QED
        BY <1>3, <2>1, FS_Subset
<1>8. /\ Cardinality(ActiveTokens(now)') <= Cardinality(ActiveTokens(now)) + 1
      /\ Cardinality(ActiveTokens(now)') \in Nat
    <2>1. /\ IsFiniteSet(ActiveTokens(now) \cup {t})
          /\ Cardinality(ActiveTokens(now) \cup {t}) <= Cardinality(ActiveTokens(now)) + 1
        BY <1>6, OneMore
    <2>2. Cardinality(ActiveTokens(now) \cup {t}) \in Nat
        BY <2>1, FS_CardinalityType
    <2>3. /\ IsFiniteSet(ActiveTokens(now)')
          /\ Cardinality(ActiveTokens(now)') <= Cardinality(ActiveTokens(now) \cup {t})
        BY <1>4, <2>1, FS_Subset
    <2>4. Cardinality(ActiveTokens(now)') \in Nat
        BY <2>3, FS_CardinalityType
    <2> QED
        BY <1>6, <2>1, <2>2, <2>3, <2>4
<1>9. Cardinality(Creating') <= Cardinality(Creating) - 1 /\ Cardinality(Creating') \in Nat
    <2>1. IsFiniteSet(Creating \ {r}) /\ Cardinality(Creating \ {r}) = Cardinality(Creating) - 1
        BY <1>5, <1>6, FS_RemoveElement
    <2>2. /\ IsFiniteSet(Creating')
          /\ Cardinality(Creating') <= Cardinality(Creating \ {r})
        BY <1>5, <2>1, FS_Subset
    <2> QED
        BY <2>1, <2>2, FS_CardinalityType
<1>10. Cardinality(ActiveTokens(now)') + Cardinality(Creating')
           <= MaxPerUser + Cardinality(Request) - 1
    BY <1>6, <1>8, <1>9 DEF RacersCounted
<1> QED
    BY <1>7, <1>10 DEF RacersCounted

\* No other step lets a request past the count.
LEMMA OthersAreCounted ==
    ASSUME IInv, TypeOK', RacersCounted, Next,
           ~\E r \in Request : Count(r) \/ Create(r)
    PROVE  RacersCounted'
<1>1. UNCHANGED born
    BY DEF Next, ReadOwner, Find, Touch, LoadOwner, ChangeCredentials, RevokeAll,
           StatementFails, Revoke, DestroyAll, Enable, Prune, Tick
<1>2. Creating' \subseteq Creating
    <2>1. work \in [Request -> Work]
        BY DEF IInv, TypeOK
    <2>2. CASE UNCHANGED work
        BY <2>2 DEF Creating
    <2>3. ASSUME NEW r \in Request, NEW w, w.stage # "create", work' = [work EXCEPT ![r] = w]
          PROVE  Creating' \subseteq Creating
        BY <2>1, <2>3 DEF Creating
    <2>4. CASE \E r \in Request : ReadOwner(r)
        <3>1. PICK r \in Request : ReadOwner(r)
            BY <2>4
        <3> DEFINE w == [NoWork EXCEPT !.stage = "count", !.at = now, !.epoch = epoch]
        <3>2. w.stage # "create" /\ work' = [work EXCEPT ![r] = w]
            BY <3>1 DEF ReadOwner, NoWork
        <3> HIDE DEF w
        <3> QED
            BY <2>3, <3>2
    <2>6. CASE \E r \in Request : Find(r)
        <3>1. PICK r \in Request, t \in Token :
                 work' = [work EXCEPT ![r] =
                     [NoWork EXCEPT !.stage = "touch", !.at = now, !.token = {t}, !.row = rows[t]]]
            BY <2>6 DEF Find, FindBySelector
        <3> DEFINE w == [NoWork EXCEPT !.stage = "touch", !.at = now, !.token = {t}, !.row = rows[t]]
        <3>2. w.stage # "create" /\ work' = [work EXCEPT ![r] = w]
            BY <3>1 DEF NoWork
        <3> HIDE DEF w
        <3> QED
            BY <2>3, <3>2
    <2>7. CASE \E r \in Request : Touch(r)
        <3>1. PICK r \in Request : Touch(r)
            BY <2>7
        <3> DEFINE w == [NoWork EXCEPT !.stage = "owner"]
        <3>2. w.stage # "create" /\ work' = [work EXCEPT ![r] = w]
            BY <3>1 DEF Touch, NoWork
        <3> HIDE DEF w
        <3> QED
            BY <2>3, <3>2
    <2>8. CASE \E r \in Request : ChangeCredentials(r)
        <3>1. PICK r \in Request : ChangeCredentials(r)
            BY <2>8
        <3> DEFINE w == [NoWork EXCEPT !.stage = "revoke"]
        <3>2. w.stage # "create" /\ work' = [work EXCEPT ![r] = w]
            BY <3>1 DEF ChangeCredentials, Revoking, NoWork
        <3> HIDE DEF w
        <3> QED
            BY <2>3, <3>2
    <2>5. CASE \E r \in Request : Ends(r)
        BY <2>1, <2>5, NoWorkIsWork DEF Creating, Ends
    <2> QED
        BY <2>2, <2>4, <2>5, <2>6, <2>7, <2>8
        DEF Next, LoadOwner, RevokeAll, StatementFails, Revoke, DestroyAll, Enable, Prune, Tick
<1>3. Issued' = Issued /\ ActiveTokens(now)' \subseteq ActiveTokens(now)
    BY <1>1, ActiveOnlyLessen
<1> QED
    BY <1>2, <1>3, FewerAreCounted DEF IInv

LEMMA InitIsCounted == Init => RacersCounted
<1> SUFFICES ASSUME Init PROVE RacersCounted
    OBVIOUS
<1>1. Issued = {} /\ ActiveTokens(now) = {} /\ Creating = {}
    BY NoRowIsRow, NoWorkIsWork DEF Init, Issued, ActiveTokens, ActiveAt, Creating
<1>2. Cardinality(Request) \in Nat /\ MaxPerUser \in Nat \ {0}
    BY SomeRequests
<1> QED
    BY <1>1, <1>2, FS_EmptySet DEF RacersCounted

\* However requests interleave their counts and their creates, and whatever
\* expires or is revoked meanwhile, an owner never has more active tokens than
\* the limit and one for each request but one (services/api_tokens.go).
THEOREM APITokensLimitExceededByRacersOnly == Spec => []LimitExceededByRacersOnly
<1>1. Init => IInv /\ RacersCounted
    BY InitEstablishes, InitIsCounted
<1>2. IInv /\ RacersCounted /\ [Next]_vars => IInv' /\ RacersCounted'
    <2> SUFFICES ASSUME IInv, RacersCounted, [Next]_vars PROVE IInv' /\ RacersCounted'
        OBVIOUS
    <2>1. IInv' /\ TypeOK'
        BY NextPreserves DEF IInv
    <2>2. CASE UNCHANGED vars
        BY <2>1, <2>2 DEF vars, RacersCounted, Issued, ActiveTokens, Creating
    <2>3. CASE Next
        BY <2>1, <2>3, CountIsCounted, CreateIsCounted, OthersAreCounted
    <2> QED
        BY <2>2, <2>3
<1>3. IInv /\ RacersCounted => LimitExceededByRacersOnly
    <2> SUFFICES ASSUME IInv, RacersCounted PROVE LimitExceededByRacersOnly
        OBVIOUS
    <2>1. /\ Cardinality(ActiveTokens(now)) \in Nat /\ Cardinality(Creating) \in Nat
          /\ Cardinality(Request) \in Nat /\ MaxPerUser \in Nat
        BY ActiveAreFinite, CreatingAreFinite DEF IInv, RacersCounted
    <2> QED
        BY <2>1 DEF RacersCounted, LimitExceededByRacersOnly
<1> QED
    BY <1>1, <1>2, <1>3, PTL DEF Spec

=============================================================================
