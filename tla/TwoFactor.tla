------------------------------ MODULE TwoFactor ------------------------------
(***************************************************************************)
(* Two-factor authentication of one user (services/twofactor.go): the      *)
(* enrollment, the recovery codes, and the codes a login consumes.         *)
(*                                                                         *)
(* VerifyLoginCode and ConsumeRecoveryCode run in a transaction that locks *)
(* the row, so each is one step. The other operations read the row in one  *)
(* statement and write columns they computed from it in another. So do     *)
(* Users.Update and Auth.UpdateProfile, which save the whole row they      *)
(* read, the columns of the second factor included.                        *)
(*                                                                         *)
(* A secret is a model value, and so is a recovery code. A TOTP code is    *)
(* the pair of a secret and a time step of thirty seconds.                 *)
(***************************************************************************)
EXTENDS Naturals, FiniteSets

CONSTANTS
    Request,        \* requests that may be in flight at the same time
    Secret,
    None,           \* no secret
    Code,           \* recovery codes
    RecoveryCount,  \* recovery codes in a set
    MaxStep         \* bound on the time steps

ASSUME TwoFactorAssumption ==
    /\ None \notin Secret
    /\ RecoveryCount \in Nat
    /\ MaxStep \in Nat

VARIABLES
    step,      \* the current time step
    row,       \* the two-factor columns of the user's row
    work,      \* work[r]: what r is about to write, and what it needs of the row
    \* History, read by the properties only:
    minted,    \* secrets and recovery codes ever generated
    proven,    \* secrets a code of which was accepted by Confirm
    accepted,  \* the TOTP codes and the recovery codes that logins consumed
    again,     \* the kinds of code of which one was consumed twice
    reverted   \* a whole-row save has put back columns others had written

tfvars == <<step, row, work, minted, proven, accepted, again, reverted>>

\* The columns: codes holds the recovery codes that are not used, and is {}
\* when the column is NULL.
Row == [secret: Secret \cup {None}, confirmed: BOOLEAN, codes: SUBSET Code, lastUsed: Nat]

Kind == {"idle", "enable", "confirm", "regenerate", "save"}

NoRow == [secret |-> None, confirmed |-> FALSE, codes |-> {}, lastUsed |-> 0]

NoWork == [kind |-> "idle", row |-> NoRow]

TFTypeOK ==
    /\ step \in Nat
    /\ row \in Row
    /\ work \in [Request -> [kind: Kind, row: Row]]
    /\ minted \in [secrets: SUBSET Secret, codes: SUBSET Code]
    /\ proven \in SUBSET Secret
    /\ accepted \in [totp: SUBSET (Secret \X Nat), recovery: SUBSET Code]
    /\ again \in SUBSET {"totp", "recovery"}
    /\ reverted \in BOOLEAN
    /\ row.secret # None => row.secret \in minted.secrets
    /\ row.confirmed => row.secret # None

TFInit ==
    /\ step = 1
    /\ row = NoRow
    /\ work = [r \in Request |-> NoWork]
    /\ minted = [secrets |-> {}, codes |-> {}]
    /\ proven = {}
    /\ accepted = [totp |-> {}, recovery |-> {}]
    /\ again = {}
    /\ reverted = FALSE

-----------------------------------------------------------------------------

TwoFactorEnabled(data) == data.confirmed /\ data.secret # None

\* Faulty: a confirmation is set and never taken back.
UpdateTwoFactorKeepingConfirmed(data, secret, codes, confirmed) ==
    [data EXCEPT !.secret = secret, !.codes = codes, !.confirmed = @ \/ confirmed]

\* UPDATE of the three columns; two_factor_last_used_at stays.
UpdateTwoFactor(data, secret, codes, confirmed) ==
    [data EXCEPT !.secret = secret, !.codes = codes, !.confirmed = confirmed]

\* The secret and the confirmation, without what logins consume.
Enrollment(data) == [NoRow EXCEPT !.secret = data.secret, !.confirmed = data.confirmed]

\* A set of recovery codes that were never generated before.
FreshCodes(codes) ==
    /\ codes \subseteq Code \ minted.codes
    /\ Cardinality(codes) = RecoveryCount
    /\ minted' = [minted EXCEPT !.codes = @ \cup codes]

\* r has read the row and goes on to write, with the columns in data.
Reads(r, kind, data) ==
    /\ work[r].kind = "idle"
    /\ work' = [work EXCEPT ![r] = [kind |-> kind, row |-> data]]
    /\ UNCHANGED <<step, row, minted, accepted, again, reverted>>

\* r writes, and returns.
Writes(r, kind, data) ==
    /\ work[r].kind = kind
    /\ row' = data
    /\ work' = [work EXCEPT ![r] = NoWork]
    /\ UNCHANGED <<step, proven, accepted, again>>

-----------------------------------------------------------------------------
(* Enrollment *)

\* Enable refuses a user whose second factor is active.
EnableReads(r) ==
    /\ ~TwoFactorEnabled(row)
    /\ Reads(r, "enable", NoRow)
    /\ UNCHANGED proven

EnableWrites(r) ==
    \E secret \in Secret \ minted.secrets :
        /\ Writes(r, "enable", UpdateTwoFactor(row, secret, {}, FALSE))
        /\ minted' = [minted EXCEPT !.secrets = @ \cup {secret}]
        /\ UNCHANGED reverted

\* Confirm accepts a code of the pending secret it read.
ConfirmReads(r) ==
    /\ row.secret # None
    /\ ~TwoFactorEnabled(row)
    /\ Reads(r, "confirm", Enrollment(row))
    /\ proven' = proven \cup {row.secret}

\* Faulty: the secret that is stored by now is activated.
ConfirmedSecretByNow(r) == IF row.secret = None THEN work[r].row.secret ELSE row.secret

\* The secret Confirm activates: the one it verified a code of.
ConfirmedSecret(r) == work[r].row.secret

ConfirmWrites(r) ==
    \E codes \in SUBSET Code :
        /\ FreshCodes(codes)
        /\ Writes(r, "confirm", UpdateTwoFactor(row, ConfirmedSecret(r), codes, TRUE))
        /\ UNCHANGED reverted

RegenerateReads(r) ==
    /\ TwoFactorEnabled(row)
    /\ Reads(r, "regenerate", Enrollment(row))
    /\ UNCHANGED proven

\* RegenerateRecoveryCodes writes back the secret and the confirmation it read.
RegenerateWrites(r) ==
    LET data == work[r].row IN
    \E codes \in SUBSET Code :
        /\ FreshCodes(codes)
        /\ Writes(r, "regenerate", UpdateTwoFactor(row, data.secret, codes, data.confirmed))
        /\ UNCHANGED reverted

\* Disable writes nothing it read.
Disable ==
    /\ row' = UpdateTwoFactor(row, None, {}, FALSE)
    /\ UNCHANGED <<step, work, minted, proven, accepted, again, reverted>>

-----------------------------------------------------------------------------
(* Codes a login consumes, under the row lock *)

\* The row is read and saved in one transaction that locks it.
MutateLocked(data) ==
    /\ row' = data
    /\ UNCHANGED <<step, work, minted, proven, reverted>>

\* matchTOTPStep: the steps whose code is accepted now.
Matching == {t \in 1..(step + 1) : t + 1 >= step}

\* Faulty: the step is recorded but not compared.
ReplayedNever(t) == FALSE

\* The step is not newer than the last one accepted.
Replayed(t) == t <= row.lastUsed

VerifyLoginCode(t) ==
    LET code == <<row.secret, t>> IN
    /\ TwoFactorEnabled(row)
    /\ t \in Matching
    /\ ~Replayed(t)
    /\ MutateLocked([row EXCEPT !.lastUsed = t])
    /\ accepted' = [accepted EXCEPT !.totp = @ \cup {code}]
    /\ again' = IF code \in accepted.totp THEN again \cup {"totp"} ELSE again

\* Faulty: the code is compared and not marked as used.
UnusedAfterAll(code) == row.codes

\* The codes still unused once code is.
UnusedAfter(code) == row.codes \ {code}

ConsumeRecoveryCode(code) ==
    /\ TwoFactorEnabled(row)
    /\ code \in row.codes
    /\ MutateLocked([row EXCEPT !.codes = UnusedAfter(code)])
    /\ accepted' = [accepted EXCEPT !.recovery = @ \cup {code}]
    /\ again' = IF code \in accepted.recovery THEN again \cup {"recovery"} ELSE again

-----------------------------------------------------------------------------
(* Everything else *)

\* Users.Update and Auth.UpdateProfile read the row ...
SaveReads(r) ==
    /\ Reads(r, "save", row)
    /\ UNCHANGED proven

\* ... and save every column of it.
SaveWrites(r) ==
    /\ Writes(r, "save", work[r].row)
    /\ reverted' = (reverted \/ work[r].row # row)
    /\ UNCHANGED minted

\* A statement fails, and the request with it.
StatementFails(r) ==
    /\ work[r].kind # "idle"
    /\ work' = [work EXCEPT ![r] = NoWork]
    /\ UNCHANGED <<step, row, minted, proven, accepted, again, reverted>>

TFTick ==
    /\ step < MaxStep
    /\ step' = step + 1
    /\ UNCHANGED <<row, work, minted, proven, accepted, again, reverted>>

TFNext ==
    \/ \E r \in Request :
          \/ EnableReads(r) \/ EnableWrites(r)
          \/ ConfirmReads(r) \/ ConfirmWrites(r)
          \/ RegenerateReads(r) \/ RegenerateWrites(r)
          \/ SaveReads(r) \/ SaveWrites(r)
          \/ StatementFails(r)
    \/ Disable
    \/ \E t \in Matching : VerifyLoginCode(t)
    \/ \E code \in Code : ConsumeRecoveryCode(code)
    \/ TFTick

TFSpec == TFInit /\ [][TFNext]_tfvars

-----------------------------------------------------------------------------
(* Properties *)

\* The active secret is one whose holder has proved to have it: however Enable,
\* Confirm, RegenerateRecoveryCodes, Disable and whole-row saves overlap, no
\* user is ever asked for codes of a secret no authenticator was set up with.
ActiveSecretProven == TwoFactorEnabled(row) => row.secret \in proven

\* A TOTP code completes at most one login, also after the user has enrolled
\* again, unless a whole-row save put an earlier last-used step back.
LoginCodesOnce == reverted \/ "totp" \notin again

\* A recovery code completes at most one login, however many requests present
\* it and whatever replaces the set meanwhile, unless a whole-row save put an
\* earlier set back.
RecoveryCodesOnce == reverted \/ "recovery" \notin again

=============================================================================
