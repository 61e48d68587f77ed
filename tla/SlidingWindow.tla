--------------------------- MODULE SlidingWindow ---------------------------
(***************************************************************************)
(* What a rate-limit store promises (contracts/rate_limit.go): each bucket *)
(* on its own admits an attempt exactly when fewer than Limit attempts     *)
(* were admitted in the window that ends now. Nothing is ever forgotten.   *)
(***************************************************************************)
EXTENDS Integers, FiniteSets

CONSTANTS Key, Limit, Window, Id

VARIABLES
    now,     \* the clock
    log,     \* log[k]: every attempt bucket k ever admitted
    answer   \* the last answer given

promiseVars == <<now, log, answer>>

Recent(k) == {a \in log[k] : a.at > now - Window[k]}

PromiseInit ==
    /\ now = 0
    /\ log = [k \in Key |-> {}]
    /\ answer = [key |-> "none", allowed |-> FALSE]

PromiseAllow(k) ==
    /\ Cardinality(Recent(k)) < Limit[k]
    /\ \E id \in Id :
          /\ \A j \in Key : \A a \in log[j] : a.id # id
          /\ log' = [log EXCEPT ![k] = @ \cup {[id |-> id, at |-> now]}]
    /\ answer' = [key |-> k, allowed |-> TRUE]
    /\ UNCHANGED now

PromiseDeny(k) ==
    /\ Cardinality(Recent(k)) >= Limit[k]
    /\ answer' = [key |-> k, allowed |-> FALSE]
    /\ UNCHANGED <<now, log>>

PromiseTick ==
    /\ now' = now + 1
    /\ UNCHANGED <<log, answer>>

PromiseNext ==
    \/ \E k \in Key : PromiseAllow(k) \/ PromiseDeny(k)
    \/ PromiseTick

PromiseSpec == PromiseInit /\ [][PromiseNext]_promiseVars

=============================================================================
