----------------------------- MODULE RateLimit -----------------------------
(***************************************************************************)
(* The process-local rate-limit store of http/middleware/rate_limit.go.    *)
(*                                                                         *)
(* Hit holds the store's mutex from its first read to its last write and   *)
(* reads the clock inside, so a Hit is one step and the attempts of a      *)
(* bucket are recorded in clock order. A bucket's list is the set of its   *)
(* attempts, each with its time and a number that tells two attempts of    *)
(* the same instant apart; the head of the list is the earliest of them.   *)
(*                                                                         *)
(* One store serves every guard (DefaultRateLimitStore), and a guard       *)
(* passes its own window, so the window belongs to the bucket.             *)
(***************************************************************************)
EXTENDS Integers, FiniteSets

CONSTANTS
    Key,        \* buckets: namespace, dimension and hashed identifier
    Limit,      \* Limit[k]: attempts bucket k admits in a window
    Window,     \* Window[k]: length of its window
    MaxWindow,  \* bound on the windows
    Second,     \* time units in a second, the least RetryAfter
    MaxTime,    \* bound on the clock
    MaxAdmitted \* bound on the attempts admitted

ASSUME RateLimitAssumption ==
    /\ MaxWindow \in Nat
    /\ Limit \in [Key -> Nat \ {0}]
    /\ Window \in [Key -> 1..MaxWindow]
    /\ Second \in Nat \ {0}
    /\ MaxTime \in Nat
    /\ MaxAdmitted \in Nat
    /\ "none" \notin Key

VARIABLES
    now,       \* the clock
    requests,  \* requests[k]: the attempts stored for k, {} for no entry
    lastSweep, \* when the whole store was last swept
    answer,    \* what the last Hit returned
    \* History, read by the properties only:
    serial,    \* attempts admitted so far, over all buckets
    admitted,  \* admitted[k]: every attempt k ever admitted
    denial     \* denial[k]: what the last denial of k told, until k admits again

vars == <<now, requests, lastSweep, answer, serial, admitted, denial>>

Attempt == [id: Nat, at: Nat]

NoDenial == [pending |-> FALSE, until |-> 0]

TypeOK ==
    /\ now \in Nat
    /\ requests \in [Key -> SUBSET Attempt]
    /\ lastSweep \in Int
    /\ answer \in [key: Key \cup {"none"}, allowed: BOOLEAN]
    /\ serial \in Nat
    /\ admitted \in [Key -> SUBSET Attempt]
    /\ denial \in [Key -> [pending: BOOLEAN, until: Int]]
    /\ lastSweep <= now
    /\ \A k \in Key : \A a \in admitted[k] : a.at <= now /\ a.id < serial
    /\ \A k \in Key : requests[k] \subseteq admitted[k]

\* The zero time.Time of lastSweep is further in the past than any window.
Init ==
    /\ now = 0
    /\ requests = [k \in Key |-> {}]
    /\ lastSweep = 0 - MaxWindow - 1
    /\ answer = [key |-> "none", allowed |-> FALSE]
    /\ serial = 0
    /\ admitted = [k \in Key |-> {}]
    /\ denial = [k \in Key |-> NoDenial]

-----------------------------------------------------------------------------

After(attempts, cutoff) == {a \in attempts : a.at > cutoff}

Cutoff(k) == now - Window[k]

Valid(k) == After(requests[k], Cutoff(k))

\* Faulty: one attempt too many passes.
FullOffByOne(k) == Cardinality(Valid(k)) > Limit[k]

Full(k) == Cardinality(Valid(k)) >= Limit[k]

\* Faulty: the wait is counted from the last attempt.
Newest(attempts) == (CHOOSE a \in attempts : \A b \in attempts : a.at >= b.at).at

Oldest(attempts) == (CHOOSE a \in attempts : \A b \in attempts : a.at <= b.at).at

AtLeast(least, n) == IF n < least THEN least ELSE n

RetryAfter(k) == AtLeast(Second, Oldest(Valid(k)) + Window[k] - now)

\* Faulty: a part of a second is dropped.
RetrySecondsDown(k) == RetryAfter(k) \div Second

\* The Retry-After header: whole seconds, and a part of one counts as one.
RetrySeconds(k) == (RetryAfter(k) + Second - 1) \div Second

Deny(k) ==
    /\ Full(k)
    /\ requests' = [requests EXCEPT ![k] = Valid(k)]
    /\ answer' = [key |-> k, allowed |-> FALSE]
    /\ denial' = [denial EXCEPT ![k] =
          [pending |-> TRUE, until |-> now + Second * RetrySeconds(k)]]
    /\ UNCHANGED <<now, lastSweep, serial, admitted>>

\* Faulty: the store is swept once and never again.
SweepDueOnce(k) == lastSweep < 0

SweepDue(k) == now - lastSweep > Window[k]

\* sweepLocked: the cutoff of the bucket that was hit is applied to every bucket.
Swept(stored, cutoff) == [j \in Key |-> After(stored[j], cutoff)]

\* Faulty: the time the attempt stops counting is stored.
NewAttemptExpiry(k) == [id |-> serial, at |-> now + Window[k]]

\* Faulty: attempts are kept by their time, so those of one instant are one.
NewAttemptByTime(k) == [id |-> 0, at |-> now]

NewAttempt(k) == [id |-> serial, at |-> now]

Allow(k) ==
    LET attempt == NewAttempt(k)
        stored == [requests EXCEPT ![k] = Valid(k) \cup {attempt}]
    IN
    /\ ~Full(k)
    /\ serial < MaxAdmitted
    /\ serial' = serial + 1
    /\ requests' = IF SweepDue(k) THEN Swept(stored, Cutoff(k)) ELSE stored
    /\ lastSweep' = IF SweepDue(k) THEN now ELSE lastSweep
    /\ answer' = [key |-> k, allowed |-> TRUE]
    /\ admitted' = [admitted EXCEPT ![k] = @ \cup {attempt}]
    /\ denial' = [denial EXCEPT ![k] = NoDenial]
    /\ UNCHANGED now

Hit(k) == Deny(k) \/ Allow(k)

Tick ==
    /\ now < MaxTime
    /\ now' = now + 1
    /\ UNCHANGED <<requests, lastSweep, answer, serial, admitted, denial>>

Next == (\E k \in Key : Hit(k)) \/ Tick

Spec == Init /\ [][Next]_vars

-----------------------------------------------------------------------------
(* Properties *)

AdmittedIn(k, t) == {a \in admitted[k] : t - Window[k] < a.at /\ a.at <= t}

\* No window of a bucket, wherever it starts, ever admits more than its limit:
\* neither the filtering on each Hit nor a sweep another bucket triggered drops
\* an attempt that still counts.
WithinLimit ==
    \A k \in Key : \A t \in 0..now : Cardinality(AdmittedIn(k, t)) <= Limit[k]

\* The Retry-After header keeps its word in both directions, whatever happens to
\* other buckets: while the bucket has admitted nothing since it denied, a Hit at
\* the time it told is admitted, and one a second or more before is denied.
RetryAfterIsExact ==
    \A k \in Key :
        denial[k].pending =>
            /\ now >= denial[k].until => Cardinality(Valid(k)) < Limit[k]
            /\ now + Second <= denial[k].until => Cardinality(Valid(k)) >= Limit[k]

\* Stored attempts do not pile up in buckets nobody hits again: after an
\* admitted Hit the whole store holds nothing older than two windows.
SweepBoundsStore ==
    [][\A k \in Key : serial' # serial /\ answer'.key = k =>
          \A j \in Key : \A a \in requests'[j] : a.at > now - 2 * Window[k]]_vars

Promise == INSTANCE SlidingWindow
    WITH Id <- 0..MaxAdmitted, log <- admitted

\* Every answer of the store is the answer of a store that keeps every attempt
\* forever and looks at one bucket only.
ImplementsSlidingWindow == Promise!PromiseSpec

=============================================================================
