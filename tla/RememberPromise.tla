-------------------------- MODULE RememberPromise --------------------------
(***************************************************************************)
(* What remember-me promises, without validators, rotation or a clock: a   *)
(* token family is issued once, is live until it is revoked, and stays     *)
(* revoked; and a request is granted a login only if the family of its own *)
(* cookie was live at some moment while the request was in flight.         *)
(***************************************************************************)
CONSTANTS Selector, Request, NoSelector

VARIABLES
    family,    \* family[s]: unissued, live, or revoked for good
    login,     \* login[r]: idle, asked, admitted (its family was live), or the answer
    claim      \* claim[r]: the family of the cookie r presents, while r is in flight

promiseVars == <<family, login, claim>>

PromiseTypeOK ==
    /\ family \in [Selector -> {"unissued", "live", "revoked"}]
    /\ login \in [Request -> {"idle", "asked", "admitted", "granted", "refused"}]
    /\ claim \in [Request -> Selector \cup {NoSelector}]
    /\ \A r \in Request : login[r] \in {"asked", "admitted"} => claim[r] \in Selector

PromiseInit ==
    /\ family = [s \in Selector |-> "unissued"]
    /\ login = [r \in Request |-> "idle"]
    /\ claim = [r \in Request |-> NoSelector]

Issued(s) ==
    /\ family[s] = "unissued"
    /\ family' = [family EXCEPT ![s] = "live"]
    /\ UNCHANGED <<login, claim>>

\* A logout, a password change, an expiry or a detected theft.
Revoked ==
    /\ \E S \in SUBSET {s \in Selector : family[s] = "live"} :
          family' = [s \in Selector |-> IF s \in S THEN "revoked" ELSE family[s]]
    /\ UNCHANGED <<login, claim>>

\* r presents a cookie of s, which may be of any state.
Asked(r, s) ==
    /\ login[r] = "idle"
    /\ login' = [login EXCEPT ![r] = "asked"]
    /\ claim' = [claim EXCEPT ![r] = s]
    /\ UNCHANGED family

ClaimIsLive(r) == login[r] = "asked" /\ family[claim[r]] = "live"

\* The family of r's cookie is live. It may be revoked before r is answered.
Admitted(r) ==
    /\ ClaimIsLive(r)
    /\ login' = [login EXCEPT ![r] = "admitted"]
    /\ UNCHANGED <<family, claim>>

Answer(r, answer) ==
    /\ login' = [login EXCEPT ![r] = answer]
    /\ claim' = [claim EXCEPT ![r] = NoSelector]
    /\ UNCHANGED family

Granted(r) ==
    /\ login[r] = "admitted" \/ ClaimIsLive(r)
    /\ Answer(r, "granted")

Refused(r) ==
    /\ login[r] \in {"asked", "admitted"}
    /\ Answer(r, "refused")

Returned(r) ==
    /\ login[r] \in {"granted", "refused"}
    /\ login' = [login EXCEPT ![r] = "idle"]
    /\ UNCHANGED <<family, claim>>

PromiseNext ==
    \/ \E s \in Selector : Issued(s)
    \/ Revoked
    \/ \E r \in Request, s \in Selector : Asked(r, s)
    \/ \E r \in Request : Admitted(r) \/ Granted(r) \/ Refused(r) \/ Returned(r)

PromiseSpec == PromiseInit /\ [][PromiseNext]_promiseVars

=============================================================================
