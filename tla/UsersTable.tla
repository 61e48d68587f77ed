----------------------------- MODULE UsersTable -----------------------------
(***************************************************************************)
(* The users table and the statements repositories/users.go runs on it,    *)
(* one operator each: it takes the table and returns what the statement    *)
(* returns, or the table after it.                                         *)
(*                                                                         *)
(* A password is a number, so a fresh one differs from every earlier one.  *)
(* The same number stands for password_changed_at: the two columns are     *)
(* always written together.                                                *)
(***************************************************************************)
EXTENDS Naturals

CONSTANTS
    UserId,
    NoUser  \* what a lookup returns when no row matches

Stored(rows) == {u \in UserId : rows[u] # NoUser}

FindByID(rows, u) == rows[u]

\* The ids of the rows that hold an address: none or one, as it is unique.
FindByEmail(rows, email) == {u \in Stored(rows) : rows[u].email = email}

\* The rows CountActiveByRolesExcluding counts.
ActiveByRolesExcluding(rows, roles, u) ==
    {v \in Stored(rows) \ {u} : rows[v].role \in roles /\ ~rows[v].disabled}

\* The unique index on email rejects a row whose address another row holds.
Accepts(rows, u, row) == FindByEmail(rows, row.email) \subseteq {u}

\* Save writes every column of the row it is given, and inserts the row if it
\* is not there: GORM does, and so does the repository's test double.
Save(rows, u, row) == [rows EXCEPT ![u] = row]

\* Faulty: a row is inserted if there is none, with the password alone.
UpdatePasswordOrInsert(rows, u, password) ==
    [rows EXCEPT ![u] = IF @ = NoUser THEN [password |-> password]
                        ELSE [@ EXCEPT !.password = password]]

\* Updates by id: no row is written if there is none.
UpdatePassword(rows, u, password) ==
    [rows EXCEPT ![u] = IF @ = NoUser THEN NoUser ELSE [@ EXCEPT !.password = password]]

DeleteRow(rows, u) == [rows EXCEPT ![u] = NoUser]

=============================================================================
