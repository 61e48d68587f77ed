--------------------------- MODULE RememberTable ---------------------------
(***************************************************************************)
(* The remember-token table and the statements repositories/remember.go    *)
(* runs on it. Each operator is one SQL statement, so it is applied in one *)
(* step: it takes the table and returns the table after the statement.     *)
(*                                                                         *)
(* A row is found by its selector, a random value that is never issued     *)
(* twice, so the selector also stands for the row's primary key. A         *)
(* validator (and its hash) is a number: 0 is the empty string of a column *)
(* never written, and a fresh random validator is a number never used      *)
(* before.                                                                 *)
(***************************************************************************)
EXTENDS Naturals

CONSTANTS
    User,      \* user ids
    Selector,  \* cookie selectors
    NoToken    \* what a lookup returns when no row matches

Token == [user: User, validator: Nat, previous: Nat, rotatedAt: Nat, expiresAt: Nat]

ASSUME NoTokenAssumption == NoToken \notin Token

Table == [Selector -> Token \cup {NoToken}]

EmptyTable == [s \in Selector |-> NoToken]

Stored(table) == {s \in Selector : table[s] # NoToken}

OfUser(table, u) == {s \in Stored(table) : table[s].user = u}

NewToken(u, validator, expiresAt) ==
    [user |-> u, validator |-> validator, previous |-> 0,
     rotatedAt |-> 0, expiresAt |-> expiresAt]

Create(table, s, token) == [table EXCEPT ![s] = token]

FindBySelector(table, s) == table[s]

\* Faulty: an UPDATE by id alone, without the hash that makes it a
\* compare-and-set.
RotateMatchesById(table, s, expected) == table[s] # NoToken

\* The WHERE clause of RotateValidator: the row is there and still holds the
\* hash the caller read.
RotateMatches(table, s, expected) ==
    /\ table[s] # NoToken
    /\ table[s].validator = expected

\* Faulty: the superseded hash is not written.
RotatedTokenForgets(token, new, previous, rotatedAt, expiresAt) ==
    [token EXCEPT !.validator = new, !.rotatedAt = rotatedAt, !.expiresAt = expiresAt]

\* The SET clause of RotateValidator.
RotatedToken(token, new, previous, rotatedAt, expiresAt) ==
    [token EXCEPT !.validator = new, !.previous = previous,
                  !.rotatedAt = rotatedAt, !.expiresAt = expiresAt]

\* Faulty: a save of the row that was read, which inserts it again if it has
\* gone.
RotateValidatorBySave(table, s, expected, new, rotatedAt, expiresAt) ==
    [table EXCEPT ![s] =
        IF @ = NoToken
        THEN RotatedToken(NewToken(CHOOSE u \in User : TRUE, expected, expiresAt),
                          new, expected, rotatedAt, expiresAt)
        ELSE IF @.validator = expected
             THEN RotatedToken(@, new, expected, rotatedAt, expiresAt) ELSE @]

RotateValidator(table, s, expected, new, rotatedAt, expiresAt) ==
    IF RotateMatches(table, s, expected)
    THEN [table EXCEPT ![s] = RotatedToken(@, new, expected, rotatedAt, expiresAt)]
    ELSE table

DeleteAll(table, S) == [s \in Selector |-> IF s \in S THEN NoToken ELSE table[s]]

Delete(table, s) == DeleteAll(table, {s})

DeleteByUser(table, u) == DeleteAll(table, OfUser(table, u))

\* The WHERE clause of DeleteExpired.
PruneMatches(token, now) == token.expiresAt < now

DeleteExpired(table, now) ==
    DeleteAll(table, {s \in Stored(table) : PruneMatches(table[s], now)})

=============================================================================
