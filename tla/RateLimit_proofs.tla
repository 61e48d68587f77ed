-------------------------- MODULE RateLimit_proofs --------------------------
(***************************************************************************)
(* Proofs about RateLimit, for every set of buckets and all limits and     *)
(* windows.                                                                *)
(*                                                                         *)
(* Type correctness holds as it is. The limit and the Retry-After header   *)
(* hold for the buckets whose window is the shortest of the store: with    *)
(* that, no sweep deletes an attempt that still counts (Kept), so the      *)
(* attempts a Hit counts are all that were admitted in its window. When    *)
(* all windows are the same (SameWindow), which is what one guard gives    *)
(* its store, these are all the buckets.                                   *)
(***************************************************************************)
EXTENDS RateLimit, FiniteSetTheorems, WellFoundedInduction, TLAPS

SameWindow == \A j, k \in Key : Window[j] = Window[k]

\* The buckets no other bucket's sweep can hurt.
Safe == {k \in Key : \A j \in Key : Window[k] <= Window[j]}

\* What sweeping must not break: an attempt inside its bucket's window is stored.
Kept == \A k \in Safe : \A a \in admitted[k] : a.at > Cutoff(k) => a \in requests[k]

Finite == \A k \in Key : IsFiniteSet(admitted[k])

\* WithinLimit, of the safe buckets.
LimitKept ==
    \A k \in Safe : \A t \in 0..now : Cardinality(AdmittedIn(k, t)) <= Limit[k]

\* At time t, and when no attempt was admitted since, bucket k denied an attempt:
\* old was the one whose window ends first, and what the denial told is when it
\* ends, rounded up to a second, or a second later.
DeniedAt(k, t, old) ==
    /\ \A a \in admitted[k] : a.at <= t
    /\ Cardinality(AdmittedIn(k, t)) >= Limit[k]
    /\ \A b \in AdmittedIn(k, t) : old.at <= b.at
    /\ denial[k].until >= old.at + Window[k]
    /\ \/ denial[k].until <= t + Second
       \/ denial[k].until < old.at + Window[k] + Second

DenialsSound ==
    \A k \in Safe : denial[k].pending =>
        \E t \in 0..now : \E old \in AdmittedIn(k, t) : DeniedAt(k, t, old)

IInv == TypeOK /\ Finite /\ Kept /\ LimitKept /\ DenialsSound

\* When all buckets have one window, they are all safe.
LEMMA SameWindowIsSafe == SameWindow => Safe = Key
BY RateLimitAssumption DEF RateLimitAssumption, SameWindow, Safe

-----------------------------------------------------------------------------
(* The earliest attempt of a nonempty bucket. *)

\* Of some attempts, Oldest is the time of one that none precedes.
LEMMA OldestIsEarliest ==
    ASSUME NEW S, S \subseteq Attempt, S # {}
    PROVE  /\ Oldest(S) \in Nat
           /\ \E a \in S : a.at = Oldest(S) /\ \A b \in S : a.at <= b.at
<1> DEFINE T == {a.at : a \in S}
           Less == OpToRel(<, Nat)
<1>1. T \subseteq Nat /\ T # {}
    BY DEF Attempt
<1>2. IsWellFoundedOn(Less, Nat)
    BY NatLessThanWellFounded
<1>3. PICK x \in T : \A y \in T : ~(<<y, x>> \in Less)
    <2> HIDE DEF T, Less
    <2> QED BY <1>1, <1>2, WFMin
<1>4. \A y \in T : ~(y < x)
    BY <1>1, <1>3 DEF OpToRel
<1>5. \E a \in S : \A b \in S : a.at <= b.at
    <2>1. PICK a \in S : a.at = x
        BY <1>3
    <2>2. \A b \in S : b.at \in Nat /\ ~(b.at < a.at)
        BY <1>1, <1>4, <2>1
    <2>3. \A b \in S : a.at <= b.at
        BY <2>2
    <2> QED BY <2>3
<1> QED BY <1>5 DEF Oldest, Attempt

\* What a denied bucket tells is a number of time units.
LEMMA RetryAfterType ==
    ASSUME TypeOK, NEW k \in Key, Full(k)
    PROVE  RetryAfter(k) \in Int
<1>1. Valid(k) \subseteq Attempt
    BY DEF TypeOK, Valid, After
<1>2. Valid(k) # {}
    BY FS_EmptySet, RateLimitAssumption DEF Full, RateLimitAssumption
<1>3. Oldest(Valid(k)) \in Nat
    BY <1>1, <1>2, OldestIsEarliest
<1> QED BY <1>3, RateLimitAssumption DEF RateLimitAssumption, RetryAfter, AtLeast, TypeOK

-----------------------------------------------------------------------------
(* Type correctness *)

LEMMA DenyKeepsType == ASSUME TypeOK, NEW k \in Key, Deny(k) PROVE TypeOK'
<1>1. RetryAfter(k) \in Int
    BY RetryAfterType DEF Deny
<1>2. now + Second * RetrySeconds(k) \in Int
    <2>1. RetrySeconds(k) \in Int
        BY <1>1, RateLimitAssumption DEF RateLimitAssumption, RetrySeconds
    <2> QED BY <2>1, RateLimitAssumption DEF RateLimitAssumption, TypeOK
<1>3. Valid(k) \subseteq requests[k]
    BY DEF Valid, After
<1> QED BY <1>2, <1>3 DEF TypeOK, Deny

LEMMA AllowKeepsType == ASSUME TypeOK, NEW k \in Key, Allow(k) PROVE TypeOK'
<1> DEFINE attempt == NewAttempt(k)
           stored == [requests EXCEPT ![k] = Valid(k) \cup {attempt}]
<1>1. attempt \in Attempt /\ attempt.at = now /\ attempt.id = serial
    BY DEF TypeOK, NewAttempt, Attempt
<1>2. /\ admitted' = [admitted EXCEPT ![k] = @ \cup {attempt}]
      /\ serial' = serial + 1 /\ now' = now
      /\ requests' = IF SweepDue(k) THEN Swept(stored, Cutoff(k)) ELSE stored
      /\ lastSweep' = IF SweepDue(k) THEN now ELSE lastSweep
      /\ answer' = [key |-> k, allowed |-> TRUE]
      /\ denial' = [denial EXCEPT ![k] = NoDenial]
    BY DEF Allow
<1>3. admitted' \in [Key -> SUBSET Attempt]
    BY <1>1, <1>2 DEF TypeOK
<1>4. stored \in [Key -> SUBSET Attempt]
    BY <1>1 DEF TypeOK, Valid, After
<1>5. requests' \in [Key -> SUBSET Attempt]
    BY <1>2, <1>4 DEF Swept, After
<1>6. \A j \in Key : requests'[j] \subseteq stored[j]
    BY <1>2, <1>4 DEF Swept, After
<1>7. \A j \in Key : stored[j] \subseteq admitted'[j]
    BY <1>2 DEF TypeOK, Valid, After
<1>8. \A j \in Key : requests'[j] \subseteq admitted'[j]
    BY <1>6, <1>7
<1>9. \A j \in Key : \A a \in admitted'[j] : a.at <= now' /\ a.id < serial'
    <2> SUFFICES ASSUME NEW j \in Key, NEW a \in admitted'[j]
                 PROVE  a.at <= now' /\ a.id < serial'
        OBVIOUS
    <2>1. CASE a \in admitted[j]
        BY <2>1, <1>2 DEF TypeOK, Attempt
    <2>2. CASE a \notin admitted[j]
        <3>1. a = attempt
            BY <2>2, <1>2 DEF TypeOK
        <3> QED BY <3>1, <1>1, <1>2 DEF TypeOK
    <2> QED BY <2>1, <2>2
<1>10. denial' \in [Key -> [pending: BOOLEAN, until: Int]]
    BY <1>2 DEF TypeOK, NoDenial
<1>11. lastSweep' \in Int /\ lastSweep' <= now'
    BY <1>2 DEF TypeOK
<1>12. answer' \in [key: Key \cup {"none"}, allowed: BOOLEAN]
    BY <1>2
<1>13. now' \in Nat /\ serial' \in Nat
    BY <1>2 DEF TypeOK
<1> HIDE DEF attempt, stored
<1> QED BY <1>3, <1>5, <1>8, <1>9, <1>10, <1>11, <1>12, <1>13 DEF TypeOK

LEMMA TickKeepsType == ASSUME TypeOK, Tick PROVE TypeOK'
<1>1. now' \in Nat /\ now <= now'
    BY DEF TypeOK, Tick
<1>2. \A k \in Key : \A a \in admitted[k] : a.at <= now'
    BY <1>1 DEF TypeOK, Attempt
<1>3. lastSweep <= now'
    BY <1>1 DEF TypeOK
<1> QED BY <1>1, <1>2, <1>3 DEF TypeOK, Tick

LEMMA TypeIsInductive == TypeOK /\ [Next]_vars => TypeOK'
<1> SUFFICES ASSUME TypeOK, [Next]_vars PROVE TypeOK'
    OBVIOUS
<1>1. CASE \E k \in Key : Hit(k)
    BY <1>1, DenyKeepsType, AllowKeepsType DEF Hit
<1>2. CASE Tick
    BY <1>2, TickKeepsType
<1>3. CASE UNCHANGED vars
    BY <1>3 DEF TypeOK, vars
<1> QED BY <1>1, <1>2, <1>3 DEF Next

\* The state of the store has its type: in particular nothing is stored that was
\* not admitted, and no attempt lies in the future.
THEOREM RateLimitTypeOK == Spec => []TypeOK
<1>1. Init => TypeOK
    BY RateLimitAssumption DEF RateLimitAssumption, Init, TypeOK, NoDenial
<1> QED BY <1>1, TypeIsInductive, PTL DEF Spec

-----------------------------------------------------------------------------
(* The limit *)

\* A bucket counts, on a Hit, every attempt admitted in the window that ends now.
LEMMA ValidIsAdmitted ==
    ASSUME TypeOK, Kept, NEW k \in Safe
    PROVE  Valid(k) = AdmittedIn(k, now)
<1> k \in Key
    BY DEF Safe
<1>1. Window[k] \in Int /\ now \in Int
    BY RateLimitAssumption DEF RateLimitAssumption, TypeOK
<1>2. ASSUME NEW a \in requests[k], a.at > Cutoff(k) PROVE a \in AdmittedIn(k, now)
    BY <1>1, <1>2 DEF TypeOK, AdmittedIn, Cutoff, Attempt
<1>3. ASSUME NEW a \in AdmittedIn(k, now) PROVE a \in requests[k] /\ a.at > Cutoff(k)
    <2>1. a \in admitted[k] /\ a.at \in Nat /\ now - Window[k] < a.at
        BY <1>3 DEF AdmittedIn, TypeOK, Attempt
    <2>2. a.at > Cutoff(k)
        BY <2>1, <1>1 DEF Cutoff
    <2> QED BY <2>1, <2>2 DEF Kept
<1> QED BY <1>2, <1>3 DEF Valid, After

\* The windows a property of the limit is about: those that ended in the past,
\* and the one that ends now, which alone can gain an attempt.
LEMMA AdmittedInIsFinite ==
    ASSUME Finite, NEW k \in Key, NEW t
    PROVE  /\ IsFiniteSet(AdmittedIn(k, t))
           /\ Cardinality(AdmittedIn(k, t)) \in Nat
<1>1. AdmittedIn(k, t) \subseteq admitted[k]
    BY DEF AdmittedIn
<1>2. IsFiniteSet(AdmittedIn(k, t))
    BY <1>1, FS_Subset DEF Finite
<1> QED BY <1>2, FS_CardinalityType

\* A step that admits nothing and moves no clock leaves every window as it was.
LEMMA SameAdmissions ==
    ASSUME LimitKept, Finite, UNCHANGED <<now, admitted>>
    PROVE  LimitKept' /\ Finite'
BY DEF LimitKept, Finite, AdmittedIn

LEMMA DenyKeepsLimit ==
    ASSUME IInv, TypeOK', NEW k \in Key, Deny(k)
    PROVE  Finite' /\ Kept' /\ LimitKept'
<1>1. now' = now /\ admitted' = admitted
    BY DEF Deny
<1>2. ASSUME NEW j \in Safe, NEW a \in admitted[j], a.at > Cutoff(j)
      PROVE  a \in requests'[j]
    <2> j \in Key
        BY DEF Safe
    <2>1. a \in requests[j]
        BY <1>2 DEF IInv, Kept
    <2>2. CASE j = k
        BY <2>1, <2>2, <1>2 DEF Deny, Valid, After, IInv, TypeOK
    <2>3. CASE j # k
        BY <2>1, <2>3 DEF Deny, IInv, TypeOK
    <2> QED BY <2>2, <2>3
<1>3. Kept'
    BY <1>1, <1>2 DEF Kept, Cutoff
<1> QED BY <1>1, <1>3, SameAdmissions DEF IInv

\* The sweep is safe for a bucket with the shortest window because the cutoff of
\* the bucket that is hit is no later than its own.
LEMMA AllowKeepsStored ==
    ASSUME IInv, NEW k \in Key, Allow(k)
    PROVE  Kept'
<1> DEFINE attempt == NewAttempt(k)
           stored == [requests EXCEPT ![k] = Valid(k) \cup {attempt}]
<1>1. /\ admitted' = [admitted EXCEPT ![k] = @ \cup {attempt}]
      /\ now' = now
      /\ requests' = IF SweepDue(k) THEN Swept(stored, Cutoff(k)) ELSE stored
    BY DEF Allow
<1>2. ASSUME NEW j \in Safe, NEW a \in admitted'[j], a.at > Cutoff(j)
      PROVE  a \in requests'[j]
    <2> j \in Key
        BY DEF Safe
    <2>1. a.at > Cutoff(k)
        <3>1. /\ Window[j] <= Window[k] /\ Window[j] \in Int /\ Window[k] \in Int
              /\ now \in Int
            BY RateLimitAssumption DEF RateLimitAssumption, Safe, IInv, TypeOK
        <3>2. a.at \in Int
            BY <1>1, <1>2 DEF IInv, TypeOK, NewAttempt, Attempt
        <3> QED BY <1>2, <3>1, <3>2 DEF Cutoff
    <2>2. a \in stored[j]
        <3>1. CASE j = k
            BY <3>1, <1>1, <1>2 DEF IInv, Kept, TypeOK, Valid, After
        <3>2. CASE j # k
            BY <3>2, <1>1, <1>2 DEF IInv, Kept, TypeOK
        <3> QED BY <3>1, <3>2
    <2> HIDE DEF stored
    <2> QED BY <2>1, <2>2, <1>1, <1>2 DEF Swept, After
<1> QED BY <1>1, <1>2 DEF Kept, Cutoff

\* The window that ends now gains one attempt, and had room for it; the earlier
\* windows end before the attempt.
LEMMA AllowKeepsLimit ==
    ASSUME IInv, NEW k \in Key, Allow(k)
    PROVE  Finite' /\ LimitKept'
<1> DEFINE attempt == NewAttempt(k)
<1>1. /\ admitted' = [admitted EXCEPT ![k] = @ \cup {attempt}]
      /\ now' = now /\ attempt.at = now
    BY DEF Allow, NewAttempt
<1>2. /\ admitted'[k] = admitted[k] \cup {attempt}
      /\ \A j \in Key : j # k => admitted'[j] = admitted[j]
    BY <1>1 DEF IInv, TypeOK
<1> HIDE DEF attempt
<1>3. Finite'
    BY <1>2, FS_AddElement DEF IInv, Finite
<1>4. k \in Safe => Cardinality(AdmittedIn(k, now)) < Limit[k]
    <2> SUFFICES ASSUME k \in Safe PROVE Cardinality(AdmittedIn(k, now)) < Limit[k]
        OBVIOUS
    <2>1. Cardinality(AdmittedIn(k, now)) \in Nat
        BY AdmittedInIsFinite DEF IInv
    <2>2. Valid(k) = AdmittedIn(k, now)
        BY ValidIsAdmitted DEF IInv
    <2>3. ~(Cardinality(AdmittedIn(k, now)) >= Limit[k])
        BY <2>2 DEF Allow, Full
    <2> QED BY <2>1, <2>3, RateLimitAssumption DEF RateLimitAssumption
<1>5. ASSUME NEW j \in Safe, NEW t \in 0..now
      PROVE  Cardinality(AdmittedIn(j, t)') <= Limit[j]
    <2> j \in Key
        BY DEF Safe
    <2>1. now \in Nat /\ t \in Nat /\ Window[j] \in Int
        BY RateLimitAssumption DEF RateLimitAssumption, IInv, TypeOK
    <2>2. Cardinality(AdmittedIn(j, t)) <= Limit[j]
        BY <1>5 DEF IInv, LimitKept
    <2>3. CASE j # k \/ t # now
        <3>1. AdmittedIn(j, t)' = AdmittedIn(j, t)
            BY <2>1, <2>3, <1>1, <1>2 DEF AdmittedIn
        <3> QED BY <3>1, <2>2
    <2>4. CASE j = k /\ t = now
        <3>1. AdmittedIn(j, t)' \subseteq AdmittedIn(k, now) \cup {attempt}
            BY <2>4, <1>1, <1>2 DEF AdmittedIn
        <3>2. /\ IsFiniteSet(AdmittedIn(k, now))
              /\ Cardinality(AdmittedIn(k, now)) \in Nat
            BY AdmittedInIsFinite DEF IInv
        <3>3. /\ IsFiniteSet(AdmittedIn(k, now) \cup {attempt})
              /\ Cardinality(AdmittedIn(k, now) \cup {attempt})
                    <= Cardinality(AdmittedIn(k, now)) + 1
            BY <3>2, FS_AddElement
        <3>4. /\ Cardinality(AdmittedIn(j, t)')
                    <= Cardinality(AdmittedIn(k, now) \cup {attempt})
              /\ Cardinality(AdmittedIn(j, t)') \in Nat
              /\ Cardinality(AdmittedIn(k, now) \cup {attempt}) \in Nat
            BY <3>1, <3>3, FS_Subset, FS_CardinalityType
        <3>5. Limit[k] \in Nat
            BY RateLimitAssumption DEF RateLimitAssumption
        <3> QED BY <3>2, <3>3, <3>4, <3>5, <1>4, <2>4
    <2> QED BY <2>3, <2>4
<1>6. LimitKept'
    BY <1>1, <1>5 DEF LimitKept
<1> QED BY <1>3, <1>6

\* The window that ends a moment later holds no attempt the one that ends now
\* does not, as no attempt lies in the future.
LEMMA TickKeepsLimit ==
    ASSUME IInv, Tick
    PROVE  Finite' /\ Kept' /\ LimitKept'
<1>1. now \in Nat /\ now' = now + 1 /\ admitted' = admitted /\ requests' = requests
    BY DEF Tick, IInv, TypeOK
<1>2. ASSUME NEW k \in Key PROVE Window[k] \in Int /\ Limit[k] \in Nat
    BY RateLimitAssumption DEF RateLimitAssumption
<1>3. ASSUME NEW k \in Key, NEW a \in admitted[k] PROVE a.at \in Nat /\ a.at <= now
    BY DEF IInv, TypeOK, Attempt
<1>4. Finite'
    BY <1>1 DEF IInv, Finite
<1>5. Kept'
    <2>1. ASSUME NEW k \in Safe, NEW a \in admitted[k], a.at > now' - Window[k]
          PROVE  a \in requests'[k]
        <3> k \in Key
            BY DEF Safe
        <3>1. a.at > now - Window[k]
            BY <1>1, <1>2, <1>3, <2>1
        <3> QED BY <3>1, <1>1 DEF IInv, Kept, Cutoff
    <2>2. admitted' = admitted
        BY <1>1
    <2> QED BY <2>1, <2>2 DEF Kept, Cutoff
<1>6. ASSUME NEW k \in Safe, NEW t \in 0..(now + 1)
      PROVE  Cardinality(AdmittedIn(k, t)) <= Limit[k]
    <2> k \in Key
        BY DEF Safe
    <2>1. CASE t \in 0..now
        BY <2>1 DEF IInv, LimitKept
    <2>2. CASE t = now + 1
        <3>1. AdmittedIn(k, t) \subseteq AdmittedIn(k, now)
            BY <2>2, <1>1, <1>2, <1>3 DEF AdmittedIn
        <3>2. IsFiniteSet(AdmittedIn(k, now)) /\ now \in 0..now
            BY <1>1, AdmittedInIsFinite DEF IInv
        <3>3. Cardinality(AdmittedIn(k, now)) <= Limit[k]
            BY <3>2 DEF IInv, LimitKept
        <3>4. /\ Cardinality(AdmittedIn(k, t)) <= Cardinality(AdmittedIn(k, now))
              /\ Cardinality(AdmittedIn(k, t)) \in Nat
              /\ Cardinality(AdmittedIn(k, now)) \in Nat
            BY <3>1, <3>2, FS_Subset, FS_CardinalityType
        <3> QED BY <3>3, <3>4, <1>2
    <2> QED BY <2>1, <2>2, <1>1
<1>7. LimitKept'
    BY <1>1, <1>6 DEF LimitKept, AdmittedIn
<1> QED BY <1>4, <1>5, <1>7

-----------------------------------------------------------------------------
(* What a denial told *)

\* A multiple of S that is R, rounded up.
LEMMA RoundedUp ==
    ASSUME NEW S \in Nat \ {0}, NEW R \in Int
    PROVE  /\ S * ((R + S - 1) \div S) \in Int
           /\ S * ((R + S - 1) \div S) >= R
           /\ S * ((R + S - 1) \div S) < R + S
<1> DEFINE n == R + S - 1
           p == S * (n \div S)
<1>1. n \in Int
    OBVIOUS
<1>2. n = S * (n \div S) + (n % S) /\ n % S \in 0..(S - 1) /\ n \div S \in Int
    <2> HIDE DEF n
    <2> QED BY <1>1
<1>3. p \in Int
    <2> HIDE DEF n
    <2> QED BY <1>2
<1>4. n = p + (n % S)
    BY <1>2, <1>3
<1>5. p >= R /\ p < R + S
    <2> HIDE DEF p
    <2> QED BY <1>2, <1>3, <1>4
<1> QED BY <1>3, <1>5

LEMMA RoundedSecond ==
    ASSUME NEW S \in Nat \ {0}
    PROVE  S * ((S + S - 1) \div S) = S
<1>1. (S + S - 1) \div S = 1
    OBVIOUS
<1> QED BY <1>1

\* What Deny tells is the time at which the oldest attempt that counts leaves its
\* window, by less than a second too late, or one second.
LEMMA ToldTime ==
    ASSUME TypeOK, NEW k \in Key, Full(k)
    PROVE  \E old \in Valid(k) :
              /\ \A b \in Valid(k) : old.at <= b.at
              /\ now + Second * RetrySeconds(k) >= old.at + Window[k]
              /\ \/ now + Second * RetrySeconds(k) <= now + Second
                 \/ now + Second * RetrySeconds(k) < old.at + Window[k] + Second
<1>1. Valid(k) \subseteq Attempt
    BY DEF TypeOK, Valid, After
<1>2. Valid(k) # {}
    BY FS_EmptySet, RateLimitAssumption DEF Full, RateLimitAssumption
<1>3. PICK old \in Valid(k) : old.at = Oldest(Valid(k)) /\ \A b \in Valid(k) : old.at <= b.at
    BY <1>1, <1>2, OldestIsEarliest
<1>4. /\ now \in Int /\ old.at \in Int /\ Window[k] \in Int
      /\ Second \in Nat \ {0} /\ RetryAfter(k) \in Int
    BY <1>1, RetryAfterType, RateLimitAssumption DEF RateLimitAssumption, TypeOK, Attempt
<1> DEFINE p == Second * RetrySeconds(k)
<1>5. p \in Int /\ p >= RetryAfter(k) /\ p < RetryAfter(k) + Second
    BY <1>4, RoundedUp DEF RetrySeconds
<1>6. RetryAfter(k) = Second => p = Second
    BY <1>4, RoundedSecond DEF RetrySeconds
<1>7. /\ RetryAfter(k) >= old.at + Window[k] - now
      /\ RetryAfter(k) = Second \/ RetryAfter(k) = old.at + Window[k] - now
    BY <1>3, <1>4 DEF RetryAfter, AtLeast
<1> HIDE DEF p
<1>8. /\ now + p >= old.at + Window[k]
      /\ now + p <= now + Second \/ now + p < old.at + Window[k] + Second
    BY <1>4, <1>5, <1>6, <1>7
<1> QED BY <1>3, <1>8 DEF p

\* A denial stays sound while its bucket admits nothing.
LEMMA DenialStays ==
    ASSUME TypeOK, NEW k \in Key,
           admitted'[k] = admitted[k], denial'[k] = denial[k], now' \in Nat, now <= now',
           \E t \in 0..now : \E old \in AdmittedIn(k, t) : DeniedAt(k, t, old)
    PROVE  \E t \in 0..now' : \E old \in AdmittedIn(k, t)' : DeniedAt(k, t, old)'
<1>0. PICK t \in 0..now : \E old \in AdmittedIn(k, t) : DeniedAt(k, t, old)
    OBVIOUS
<1>1. PICK old \in AdmittedIn(k, t) : DeniedAt(k, t, old)
    BY <1>0
<1>2. AdmittedIn(k, t)' = AdmittedIn(k, t)
    BY DEF AdmittedIn
<1>3. DeniedAt(k, t, old)'
    BY <1>1, <1>2 DEF DeniedAt
<1>4. t \in 0..now'
    BY DEF TypeOK
<1> QED BY <1>1, <1>2, <1>3, <1>4

LEMMA DenyIsSound ==
    ASSUME IInv, NEW k \in Key, Deny(k)
    PROVE  DenialsSound'
<1>1. /\ now' = now /\ admitted' = admitted /\ now \in Nat /\ Full(k)
      /\ denial' = [denial EXCEPT ![k] =
             [pending |-> TRUE, until |-> now + Second * RetrySeconds(k)]]
      /\ denial \in [Key -> [pending: BOOLEAN, until: Int]]
    BY DEF Deny, IInv, TypeOK
<1>2. ASSUME NEW j \in Safe, denial'[j].pending
      PROVE  \E t \in 0..now' : \E old \in AdmittedIn(j, t)' : DeniedAt(j, t, old)'
    <2> j \in Key
        BY DEF Safe
    <2>1. CASE j # k
        <3>1. denial'[j] = denial[j] /\ admitted'[j] = admitted[j] /\ now' \in Nat /\ now <= now'
            BY <1>1, <2>1
        <3>2. \E t \in 0..now : \E old \in AdmittedIn(j, t) : DeniedAt(j, t, old)
            BY <1>2, <3>1 DEF IInv, DenialsSound
        <3> QED BY <3>1, <3>2, DenialStays DEF IInv
    <2>2. CASE j = k
        <3>1. Valid(k) = AdmittedIn(k, now)
            BY <2>2, ValidIsAdmitted DEF IInv
        <3>2. PICK old \in AdmittedIn(k, now) :
                 /\ \A b \in AdmittedIn(k, now) : old.at <= b.at
                 /\ now + Second * RetrySeconds(k) >= old.at + Window[k]
                 /\ \/ now + Second * RetrySeconds(k) <= now + Second
                    \/ now + Second * RetrySeconds(k) < old.at + Window[k] + Second
            BY <1>1, <3>1, ToldTime DEF IInv
        <3>3. Cardinality(AdmittedIn(k, now)) >= Limit[k]
            BY <1>1, <3>1 DEF Full
        <3>4. \A a \in admitted[k] : a.at <= now
            BY DEF IInv, TypeOK
        <3>5. denial'[k].until = now + Second * RetrySeconds(k)
            BY <1>1
        <3>6. AdmittedIn(k, now) = {a \in admitted'[k] : now - Window[k] < a.at /\ a.at <= now}
            BY <1>1 DEF AdmittedIn
        <3>7. \E t \in 0..now' : t = now
            BY <1>1
        <3>8. ASSUME NEW t, t = now
              PROVE  old \in AdmittedIn(k, t)' /\ DeniedAt(k, t, old)'
            <4>1. AdmittedIn(k, t)' = AdmittedIn(k, now)
                BY <3>6, <3>8 DEF AdmittedIn
            <4> QED BY <1>1, <3>2, <3>3, <3>4, <3>5, <3>8, <4>1 DEF DeniedAt
        <3> QED BY <2>2, <3>7, <3>8
    <2> QED BY <2>1, <2>2
<1> QED BY <1>2 DEF DenialsSound, Safe

LEMMA AllowIsSound ==
    ASSUME IInv, NEW k \in Key, Allow(k)
    PROVE  DenialsSound'
<1>1. /\ now' = now /\ now \in Nat
      /\ denial' = [denial EXCEPT ![k] = NoDenial]
      /\ denial \in [Key -> [pending: BOOLEAN, until: Int]]
      /\ \A j \in Key \ {k} : admitted'[j] = admitted[j]
    BY DEF Allow, IInv, TypeOK
<1>2. ASSUME NEW j \in Safe, denial'[j].pending
      PROVE  \E t \in 0..now' : \E old \in AdmittedIn(j, t)' : DeniedAt(j, t, old)'
    <2> j \in Key
        BY DEF Safe
    <2>1. j # k
        BY <1>1, <1>2 DEF NoDenial
    <2>2. denial'[j] = denial[j] /\ admitted'[j] = admitted[j] /\ now' \in Nat /\ now <= now'
        BY <1>1, <2>1
    <2>3. \E t \in 0..now : \E old \in AdmittedIn(j, t) : DeniedAt(j, t, old)
        BY <1>2, <2>2 DEF IInv, DenialsSound
    <2> QED BY <2>2, <2>3, DenialStays DEF IInv
<1> QED BY <1>2 DEF DenialsSound, Safe

LEMMA TickIsSound ==
    ASSUME IInv, Tick
    PROVE  DenialsSound'
<1>1. now' = now + 1 /\ now \in Nat /\ denial' = denial /\ admitted' = admitted
    BY DEF Tick, IInv, TypeOK
<1>2. ASSUME NEW j \in Safe, denial'[j].pending
      PROVE  \E t \in 0..now' : \E old \in AdmittedIn(j, t)' : DeniedAt(j, t, old)'
    <2> j \in Key
        BY DEF Safe
    <2>1. denial'[j] = denial[j] /\ admitted'[j] = admitted[j] /\ now' \in Nat /\ now <= now'
        BY <1>1
    <2>2. \E t \in 0..now : \E old \in AdmittedIn(j, t) : DeniedAt(j, t, old)
        BY <1>2, <2>1 DEF IInv, DenialsSound
    <2> QED BY <2>1, <2>2, DenialStays DEF IInv
<1> QED BY <1>2 DEF DenialsSound, Safe

-----------------------------------------------------------------------------
(* The theorems *)

LEMMA InitHasInvariant == Init => IInv
<1> SUFFICES ASSUME Init PROVE IInv
    OBVIOUS
<1>1. TypeOK
    BY RateLimitAssumption DEF RateLimitAssumption, Init, TypeOK, NoDenial
<1>2. /\ \A k \in Key : admitted[k] = {}
      /\ \A k \in Key : ~denial[k].pending
      /\ Safe \subseteq Key
    BY DEF Init, NoDenial, Safe
<1>3. Finite /\ Kept /\ DenialsSound
    BY <1>2, FS_EmptySet DEF Finite, Kept, DenialsSound
<1>4. LimitKept
    <2> SUFFICES ASSUME NEW k \in Key, NEW t PROVE Cardinality(AdmittedIn(k, t)) <= Limit[k]
        BY <1>2 DEF LimitKept
    <2>1. AdmittedIn(k, t) = {}
        BY <1>2 DEF AdmittedIn
    <2> QED BY <2>1, FS_EmptySet, RateLimitAssumption DEF RateLimitAssumption
<1> QED BY <1>1, <1>3, <1>4 DEF IInv

LEMMA InvariantIsInductive == IInv /\ [Next]_vars => IInv'
<1> SUFFICES ASSUME IInv, [Next]_vars PROVE IInv'
    OBVIOUS
<1>1. TypeOK'
    BY TypeIsInductive DEF IInv
<1>2. CASE \E k \in Key : Hit(k)
    <2>1. PICK k \in Key : Hit(k)
        BY <1>2
    <2>2. CASE Deny(k)
        BY <1>1, <2>2, DenyKeepsLimit, DenyIsSound DEF IInv
    <2>3. CASE Allow(k)
        BY <1>1, <2>3, AllowKeepsStored, AllowKeepsLimit, AllowIsSound DEF IInv
    <2> QED BY <2>1, <2>2, <2>3 DEF Hit
<1>3. CASE Tick
    BY <1>1, <1>3, TickKeepsLimit, TickIsSound DEF IInv
<1>4. CASE UNCHANGED vars
    <2>1. UNCHANGED <<now, admitted, requests>> /\ UNCHANGED denial
        BY <1>4 DEF vars
    <2>2. LimitKept' /\ Finite'
        <3>1. UNCHANGED <<now, admitted>>
            BY <2>1
        <3> QED BY <3>1, SameAdmissions DEF IInv
    <2>3. Kept'
        BY <2>1 DEF IInv, Kept, Cutoff
    <2>4. DenialsSound'
        BY <2>1 DEF IInv, DenialsSound, DeniedAt, AdmittedIn
    <2> QED BY <1>1, <2>2, <2>3, <2>4 DEF IInv
<1> QED BY <1>2, <1>3, <1>4 DEF Next

\* The inductive invariant holds of every state the code reaches.
THEOREM InvariantHolds == Spec => []IInv
BY InitHasInvariant, InvariantIsInductive, PTL DEF Spec

\* A bucket whose window is the shortest of its store never admits more attempts
\* than its limit in any window, whatever the other buckets sweep.
THEOREM RateLimitShortestWithinLimit == Spec => []LimitKept
<1>1. IInv => LimitKept
    BY DEF IInv
<1> QED BY <1>1, InvariantHolds, PTL

\* When every bucket has the same window, no window of any bucket ever admits
\* more attempts than its limit, wherever it starts and whatever is swept.
THEOREM RateLimitWithinLimit == SameWindow => (Spec => []WithinLimit)
<1> SUFFICES ASSUME SameWindow PROVE Spec => []WithinLimit
    OBVIOUS
<1>1. Safe = Key
    BY SameWindowIsSafe
<1>2. IInv => WithinLimit
    BY <1>1 DEF IInv, LimitKept, WithinLimit
<1> QED BY <1>2, InvariantHolds, PTL

\* A bucket that denied is full until the time it told, by less than a second,
\* and has room from then on.
LEMMA DenialIsExact ==
    ASSUME IInv, NEW k \in Safe, denial[k].pending
    PROVE  /\ now >= denial[k].until => Cardinality(Valid(k)) < Limit[k]
           /\ now + Second <= denial[k].until => Cardinality(Valid(k)) >= Limit[k]
<1> k \in Key
    BY DEF Safe
<1>0. PICK t \in 0..now : \E old \in AdmittedIn(k, t) : DeniedAt(k, t, old)
    BY DEF IInv, DenialsSound
<1>1. PICK old \in AdmittedIn(k, t) : DeniedAt(k, t, old)
    BY <1>0
<1>2. Valid(k) = AdmittedIn(k, now)
    BY ValidIsAdmitted DEF IInv
<1>3. /\ now \in Nat /\ t \in Nat /\ t <= now /\ Window[k] \in Int /\ Limit[k] \in Nat
      /\ Second \in Nat /\ denial[k].until \in Int
    BY RateLimitAssumption DEF RateLimitAssumption, IInv, TypeOK
<1>4. \A a \in admitted[k] : a.at \in Nat /\ a.at <= t
    BY <1>1 DEF DeniedAt, IInv, TypeOK, Attempt
<1>5. old \in admitted[k] /\ old.at \in Nat
    BY <1>1, <1>4 DEF AdmittedIn
<1> DEFINE A == AdmittedIn(k, t)
           V == AdmittedIn(k, now)
<1>6. /\ IsFiniteSet(A) /\ Cardinality(A) \in Nat
      /\ IsFiniteSet(V) /\ Cardinality(V) \in Nat
    BY AdmittedInIsFinite DEF IInv
<1>7. ASSUME now >= denial[k].until PROVE Cardinality(V) < Limit[k]
    <2>1. old.at + Window[k] <= now
        BY <1>1, <1>3, <1>5, <1>7 DEF DeniedAt
    <2>2. V \subseteq A \ {old}
        BY <1>3, <1>4, <1>5, <2>1 DEF AdmittedIn
    <2>3. old \in A /\ Cardinality(A) <= Limit[k]
        BY <1>1 DEF IInv, LimitKept
    <2> HIDE DEF A, V
    <2>4. IsFiniteSet(A \ {old}) /\ Cardinality(A \ {old}) = Cardinality(A) - 1
        BY <1>6, <2>3, FS_RemoveElement
    <2>5. Cardinality(V) <= Cardinality(A \ {old})
        BY <2>2, <2>4, FS_Subset
    <2> QED BY <1>3, <1>6, <2>3, <2>4, <2>5
<1>8. ASSUME now + Second <= denial[k].until PROVE Cardinality(V) >= Limit[k]
    <2>1. t = now \/ old.at + Window[k] > now
        BY <1>1, <1>3, <1>5, <1>8 DEF DeniedAt
    <2>2. A \subseteq V
        <3>1. ASSUME NEW b \in A PROVE b \in V
            <4>1. b \in admitted[k] /\ b.at \in Nat /\ b.at <= t /\ old.at <= b.at
                  /\ t - Window[k] < b.at
                BY <1>1, <1>4 DEF AdmittedIn, DeniedAt
            <4> QED BY <1>3, <1>5, <2>1, <4>1 DEF AdmittedIn
        <3> HIDE DEF A, V
        <3> QED BY <3>1
    <2>3. Cardinality(A) >= Limit[k]
        BY <1>1 DEF DeniedAt
    <2> HIDE DEF A, V
    <2>4. Cardinality(A) <= Cardinality(V)
        BY <1>6, <2>2, FS_Subset
    <2> QED BY <1>3, <1>6, <2>3, <2>4
<1> QED BY <1>2, <1>7, <1>8

\* RetryAfterIsExact, of the buckets whose window is the shortest.
THEOREM RateLimitShortestRetryAfter ==
    Spec => [](\A k \in Safe : denial[k].pending =>
        /\ now >= denial[k].until => Cardinality(Valid(k)) < Limit[k]
        /\ now + Second <= denial[k].until => Cardinality(Valid(k)) >= Limit[k])
<1>1. IInv => \A k \in Safe : denial[k].pending =>
        /\ now >= denial[k].until => Cardinality(Valid(k)) < Limit[k]
        /\ now + Second <= denial[k].until => Cardinality(Valid(k)) >= Limit[k]
    BY DenialIsExact
<1> QED BY <1>1, InvariantHolds, PTL

\* When every bucket has the same window, the Retry-After header of a denial is
\* exact to the second in both directions (http/middleware/rate_limit.go).
THEOREM RateLimitRetryAfterIsExact == SameWindow => (Spec => []RetryAfterIsExact)
<1> SUFFICES ASSUME SameWindow PROVE Spec => []RetryAfterIsExact
    OBVIOUS
<1>1. Safe = Key
    BY SameWindowIsSafe
<1>2. IInv => RetryAfterIsExact
    BY <1>1, DenialIsExact DEF RetryAfterIsExact
<1> QED BY <1>2, InvariantHolds, PTL

-----------------------------------------------------------------------------
(* The sweep *)

\* What a bucket with the longest window would have dropped at the last sweep is
\* not stored.
SweptToDate ==
    \A j, k \in Key : \A a \in requests[j] : a.at > lastSweep - Window[k]

LEMMA AllowSweeps ==
    ASSUME TypeOK, SameWindow, SweptToDate, NEW k \in Key, Allow(k)
    PROVE  /\ SweptToDate'
           /\ \A j \in Key : \A a \in requests'[j] : a.at > now - 2 * Window[k]
<1> DEFINE attempt == NewAttempt(k)
           stored == [requests EXCEPT ![k] = Valid(k) \cup {attempt}]
<1>1. /\ now' = now /\ now \in Nat /\ lastSweep \in Int /\ lastSweep <= now
      /\ requests' = IF SweepDue(k) THEN Swept(stored, Cutoff(k)) ELSE stored
      /\ lastSweep' = IF SweepDue(k) THEN now ELSE lastSweep
      /\ attempt.at = now
    BY DEF Allow, TypeOK, NewAttempt
<1>2. Window[k] \in Nat \ {0} /\ \A j \in Key : Window[j] = Window[k]
    BY RateLimitAssumption DEF RateLimitAssumption, SameWindow
<1>3. ASSUME NEW j \in Key, NEW a \in stored[j]
      PROVE  a.at \in Int /\ a.at > lastSweep - Window[k]
    <2>1. CASE a \in requests[j]
        BY <1>2, <2>1 DEF SweptToDate, TypeOK, Attempt
    <2>2. CASE a \notin requests[j]
        <3>1. a = attempt
            BY <1>3, <2>2 DEF TypeOK, Valid, After
        <3> HIDE DEF attempt
        <3> QED BY <1>1, <1>2, <3>1
    <2> QED BY <2>1, <2>2
<1> HIDE DEF attempt, stored
<1>4. ASSUME NEW j \in Key, NEW a \in requests'[j]
      PROVE  /\ a.at \in Int
             /\ a.at > lastSweep' - Window[k]
             /\ a.at > now - 2 * Window[k]
    <2>1. CASE SweepDue(k)
        <3>1. a \in stored[j] /\ a.at > Cutoff(k) /\ lastSweep' = now
            BY <1>1, <1>4, <2>1 DEF Swept, After
        <3> QED BY <1>1, <1>2, <1>3, <3>1 DEF Cutoff
    <2>2. CASE ~SweepDue(k)
        <3>1. a \in stored[j] /\ lastSweep' = lastSweep /\ now - lastSweep <= Window[k]
            BY <1>1, <1>2, <1>4, <2>2 DEF SweepDue
        <3> QED BY <1>1, <1>2, <1>3, <3>1
    <2> QED BY <2>1, <2>2
<1>5. SweptToDate'
    BY <1>2, <1>4 DEF SweptToDate
<1> QED BY <1>4, <1>5

LEMMA SweptToDateIsInductive ==
    ASSUME SameWindow, TypeOK, SweptToDate, [Next]_vars
    PROVE  SweptToDate'
<1>1. CASE \E k \in Key : Deny(k)
    <2>1. PICK k \in Key : Deny(k)
        BY <1>1
    <2>2. \A j \in Key : requests'[j] \subseteq requests[j]
        BY <2>1 DEF Deny, TypeOK, Valid, After
    <2>3. lastSweep' = lastSweep
        BY <2>1 DEF Deny
    <2> QED BY <2>2, <2>3 DEF SweptToDate
<1>2. CASE \E k \in Key : Allow(k)
    BY <1>2, AllowSweeps
<1>3. CASE Tick \/ UNCHANGED vars
    BY <1>3 DEF Tick, vars, SweptToDate
<1> QED BY <1>1, <1>2, <1>3 DEF Next, Hit

\* When every bucket has the same window, a Hit that is admitted leaves nothing in
\* the store that is older than two windows, in buckets nobody hits included.
THEOREM RateLimitSweepBoundsStore == SameWindow => (Spec => SweepBoundsStore)
<1> SUFFICES ASSUME SameWindow PROVE Spec => SweepBoundsStore
    OBVIOUS
<1>1. Init => TypeOK /\ SweptToDate
    BY InitHasInvariant DEF Init, SweptToDate, IInv
<1>2. TypeOK /\ SweptToDate /\ [Next]_vars => TypeOK' /\ SweptToDate'
    BY TypeIsInductive, SweptToDateIsInductive
<1>3. TypeOK /\ SweptToDate /\ [Next]_vars =>
        [\A k \in Key : serial' # serial /\ answer'.key = k =>
            \A j \in Key : \A a \in requests'[j] : a.at > now - 2 * Window[k]]_vars
    <2> SUFFICES ASSUME TypeOK, SweptToDate, Next, NEW k \in Key,
                        serial' # serial, answer'.key = k
                 PROVE  \A j \in Key : \A a \in requests'[j] : a.at > now - 2 * Window[k]
        OBVIOUS
    <2>1. PICK i \in Key : Allow(i)
        BY DEF Next, Hit, Deny, Tick
    <2>2. i = k
        BY <2>1 DEF Allow
    <2> QED BY <2>1, <2>2, AllowSweeps
<1> QED BY <1>1, <1>2, <1>3, PTL DEF Spec, SweepBoundsStore

-----------------------------------------------------------------------------
(* The refinement *)

\* The attempts that count in the sliding window are those the store counts.
LEMMA RecentIsValid ==
    ASSUME TypeOK, Kept, NEW k \in Safe
    PROVE  Promise!Recent(k) = Valid(k)
<1>1. Promise!Recent(k) = {a \in admitted[k] : a.at > Cutoff(k)}
    BY DEF Promise!Recent, Cutoff
<1>2. requests[k] \subseteq admitted[k]
    BY DEF TypeOK, Safe
<1> QED BY <1>1, <1>2 DEF Kept, Valid, After

\* The promise's Cardinality is the one of this module.
LEMMA SameCardinality ==
    ASSUME NEW S
    PROVE  Promise!Cardinality(S) = Cardinality(S)
BY DEF Promise!Cardinality, Cardinality

\* A denial is a denial of the sliding window.
LEMMA DenyImplements ==
    ASSUME IInv, NEW k \in Safe, Deny(k)
    PROVE  Promise!PromiseDeny(k)
<1>1. Promise!Recent(k) = Valid(k)
    BY RecentIsValid DEF IInv
<1> QED BY <1>1, SameCardinality DEF Deny, Full, Promise!PromiseDeny

\* An admission is an admission of the sliding window, of an attempt it has not
\* seen before.
LEMMA AllowImplements ==
    ASSUME IInv, NEW k \in Safe, Allow(k)
    PROVE  Promise!PromiseAllow(k)
<1> k \in Key
    BY DEF Safe
<1>1. Promise!Recent(k) = Valid(k)
    BY RecentIsValid DEF IInv
<1>2. Cardinality(Promise!Recent(k)) < Limit[k]
    <2>1. Cardinality(AdmittedIn(k, now)) \in Nat
        BY AdmittedInIsFinite DEF IInv
    <2>2. Valid(k) = AdmittedIn(k, now)
        BY ValidIsAdmitted DEF IInv
    <2>3. ~(Cardinality(Promise!Recent(k)) >= Limit[k])
        BY <1>1 DEF Allow, Full
    <2> QED BY <1>1, <2>1, <2>2, <2>3, RateLimitAssumption DEF RateLimitAssumption
<1>3. serial \in 0..MaxAdmitted
    BY RateLimitAssumption DEF RateLimitAssumption, Allow, IInv, TypeOK
<1>4. \A j \in Key : \A a \in admitted[j] : a.id # serial
    BY DEF IInv, TypeOK, Attempt
<1>5. admitted' = [admitted EXCEPT ![k] = @ \cup {[id |-> serial, at |-> now]}]
    BY DEF Allow, NewAttempt
<1>6. answer' = [key |-> k, allowed |-> TRUE] /\ now' = now
    BY DEF Allow
<1> QED BY <1>2, <1>3, <1>4, <1>5, <1>6, SameCardinality DEF Promise!PromiseAllow

\* When every bucket has the same window, the store answers every attempt as a
\* store that keeps each bucket apart and forgets nothing.
THEOREM RateLimitImplementsSlidingWindow == SameWindow => (Spec => ImplementsSlidingWindow)
<1> SUFFICES ASSUME SameWindow PROVE Spec => Promise!PromiseSpec
    BY DEF ImplementsSlidingWindow
<1>1. Init => Promise!PromiseInit
    BY DEF Init, Promise!PromiseInit
<1>2. Safe = Key
    BY SameWindowIsSafe
<1>3. IInv /\ [Next]_vars => [Promise!PromiseNext]_(Promise!promiseVars)
    <2> SUFFICES ASSUME IInv, [Next]_vars
                 PROVE  [Promise!PromiseNext]_(Promise!promiseVars)
        OBVIOUS
    <2>1. CASE \E k \in Key : Hit(k)
        BY <1>2, <2>1, DenyImplements, AllowImplements DEF Hit, Promise!PromiseNext
    <2>2. CASE Tick
        BY <2>2 DEF Tick, Promise!PromiseNext, Promise!PromiseTick
    <2>3. CASE UNCHANGED vars
        BY <2>3 DEF vars, Promise!promiseVars
    <2> QED BY <2>1, <2>2, <2>3 DEF Next
<1> QED BY <1>1, <1>3, InvariantHolds, PTL DEF Spec, Promise!PromiseSpec

=============================================================================
