-------------------------- MODULE Remember_proofs --------------------------
(***************************************************************************)
(* Proofs about Remember, for every number of users, families, requests    *)
(* and rotations, and for all validities and grace windows.                *)
(*                                                                         *)
(* The chain of a family is what makes it safe: every cookie handed out    *)
(* has a fresher validator than the one it replaces, no validator exceeds  *)
(* the last one minted, and the current validator of a stored family has   *)
(* no successor yet (Chain). A rotation that passes the compare-and-set    *)
(* therefore adds the first and only successor.                            *)
(***************************************************************************)
EXTENDS Remember, TLAPS

\* The current validator of a family was never replaced.
Unreplaced ==
    \A s \in Stored(table) : \A h \in handed :
        h.sel = s => h.from # table[s].validator

Chain ==
    /\ \A h \in handed : h.sel \in used /\ h.from < h.val /\ h.val <= minted
    /\ Stored(table) \subseteq used
    /\ \A s \in Stored(table) : table[s].validator <= minted
    /\ Unreplaced

IInv == TypeOK /\ Chain /\ OneSuccessor /\ NoOrphanCookie

-----------------------------------------------------------------------------
(* The statements on the table *)

\* Each statement returns a table.
LEMMA CreateIsTable ==
    ASSUME NEW t \in Table, NEW s \in Selector, NEW u \in User,
           NEW validator \in Nat, NEW expiresAt \in Nat
    PROVE  Create(t, s, NewToken(u, validator, expiresAt)) \in Table
<1>1. NewToken(u, validator, expiresAt) \in Token
    BY DEF NewToken, Token
<1> QED BY <1>1 DEF Create, Table

LEMMA RotateIsTable ==
    ASSUME NEW t \in Table, NEW s \in Selector, NEW expected \in Nat, NEW new \in Nat,
           NEW rotatedAt \in Nat, NEW expiresAt \in Nat
    PROVE  RotateValidator(t, s, expected, new, rotatedAt, expiresAt) \in Table
<1>1. CASE RotateMatches(t, s, expected)
    <2>1. t[s] \in Token
        BY <1>1 DEF RotateMatches, Table
    <2>2. RotatedToken(t[s], new, expected, rotatedAt, expiresAt) \in Token
        BY <2>1 DEF RotatedToken, Token
    <2> QED BY <1>1, <2>2 DEF RotateValidator, Table
<1>2. CASE ~RotateMatches(t, s, expected)
    BY <1>2 DEF RotateValidator
<1> QED BY <1>1, <1>2

LEMMA DeleteIsTable ==
    ASSUME NEW t \in Table, NEW S
    PROVE  DeleteAll(t, S) \in Table
BY DEF DeleteAll, Table

\* Deleting frees the families deleted and leaves the others as they are.
LEMMA DeleteFrees ==
    ASSUME NEW t \in Table, NEW S, NEW q \in Selector
    PROVE  DeleteAll(t, S)[q] = IF q \in S THEN NoToken ELSE t[q]
BY DEF DeleteAll

-----------------------------------------------------------------------------
(* Type correctness *)

\* The part of the type invariant that belongs to the requests.
RequestsOK ==
    /\ pc \in [Request -> Stage]
    /\ cookie \in [Request -> Cookie]
    /\ seen \in [Request -> Token \cup {NoToken}]
    /\ at \in [Request -> Nat]
    /\ sentRow \in [Request -> Token \cup {NoToken}]
    /\ \A r \in Request : pc[r] \in {"rotate", "expire", "revoke"} => seen[r] \in Token

LEMMA NoCookieType == NoCookie \in Cookie
BY RememberAssumption DEF RememberAssumption, NoCookie, Cookie

LEMMA ReturnKeepsRequests ==
    ASSUME TypeOK, NEW r \in Request, NEW answer \in {"granted", "refused"},
           Return(r, answer)
    PROVE  RequestsOK'
<1>1. /\ pc' = [pc EXCEPT ![r] = answer] /\ seen' = [seen EXCEPT ![r] = NoToken]
      /\ at' = [at EXCEPT ![r] = 0] /\ cookie' = [cookie EXCEPT ![r] = NoCookie]
      /\ sentRow' = [sentRow EXCEPT ![r] = NoToken]
    BY DEF Return
<1>2. /\ pc' \in [Request -> Stage]
      /\ seen' \in [Request -> Token \cup {NoToken}]
      /\ at' \in [Request -> Nat]
      /\ sentRow' \in [Request -> Token \cup {NoToken}]
    BY <1>1 DEF TypeOK, Stage
<1>3. cookie' \in [Request -> Cookie]
    BY <1>1, NoCookieType DEF TypeOK
<1>4. \A q \in Request : pc'[q] \in {"rotate", "expire", "revoke"} => seen'[q] \in Token
    BY <1>1 DEF TypeOK
<1> QED BY <1>2, <1>3, <1>4 DEF RequestsOK

LEMMA SameRequests == ASSUME TypeOK, UNCHANGED requestVars PROVE RequestsOK'
BY DEF TypeOK, RequestsOK, requestVars

\* A step's requests and data have their types: so has the state.
LEMMA TypeFromParts ==
    ASSUME RequestsOK', now' \in Nat, table' \in Table, minted' \in Nat,
           used' \in SUBSET Selector, handed' \in SUBSET Handed
    PROVE  TypeOK'
BY DEF RequestsOK, TypeOK

LEMMA PresentKeepsType ==
    ASSUME TypeOK, NEW r \in Request, NEW s \in Selector, NEW v \in Nat, Present(r, s, v)
    PROVE  TypeOK'
<1>1. table[s] \in Token \cup {NoToken}
    BY DEF TypeOK, Table
<1>2. [sel |-> s, val |-> v] \in Cookie
    BY DEF Cookie
<1> QED BY <1>1, <1>2 DEF TypeOK, Present, Stage

LEMMA FindKeepsType ==
    ASSUME TypeOK, NEW r \in Request, Find(r)
    PROVE  TypeOK'
<1> DEFINE token == FindBySelector(table, cookie[r].sel)
           verdict == Verdict(token, cookie[r].val, now)
<1>1. token \in Token \cup {NoToken}
    BY DEF FindBySelector, TypeOK, Table, Cookie
<1>2. /\ verdict \in {"refused", "expire", "rotate", "granted", "revoke"}
      /\ verdict # "refused" => token # NoToken
    BY DEF Verdict
<1>3. RequestsOK'
    <2>1. CASE verdict \in {"granted", "refused"}
        BY <2>1, ReturnKeepsRequests DEF Find, Decision
    <2>2. CASE verdict \notin {"granted", "refused"}
        <3>1. Goto(r, verdict, token, now)
            BY <2>2 DEF Find, Decision
        <3>2. token \in Token /\ verdict \in Stage
            BY <1>1, <1>2, <2>2 DEF Stage
        <3> HIDE DEF token, verdict
        <3> QED BY <3>1, <3>2 DEF Goto, TypeOK, RequestsOK
    <2> QED BY <2>1, <2>2
<1>4. UNCHANGED <<now, table, minted, used, handed>>
    BY DEF Find
<1> QED BY <1>3, <1>4, TypeFromParts DEF TypeOK

LEMMA RotateKeepsType ==
    ASSUME TypeOK, NEW r \in Request, Rotate(r)
    PROVE  TypeOK'
<1>1. RequestsOK'
    BY ReturnKeepsRequests DEF Rotate
<1>2. cookie[r].sel \in Selector /\ seen[r].validator \in Nat /\ at[r] \in Nat
    BY DEF TypeOK, Rotate, Cookie, Token
<1>3. table' \in Table
    <2>1. minted + 1 \in Nat /\ at[r] + TTL \in Nat
        BY <1>2, RememberAssumption DEF RememberAssumption, TypeOK
    <2> QED BY <1>2, <2>1, RotateIsTable DEF Rotate, TypeOK
<1>4. handed' \in SUBSET Handed
    BY <1>2 DEF Rotate, NewCookies, Handed, TypeOK
<1>5. minted' \in Nat /\ now' = now /\ used' = used
    BY DEF Rotate, TypeOK
<1> QED BY <1>1, <1>3, <1>4, <1>5, TypeFromParts DEF TypeOK

\* Every other step returns an answer, deletes families, or changes neither.
LEMMA TypeIsInductive == TypeOK /\ [Next]_vars => TypeOK'
<1> SUFFICES ASSUME TypeOK, [Next]_vars PROVE TypeOK'
    OBVIOUS
<1>1. ASSUME NEW u \in User, NEW s \in Selector, Issue(u, s) PROVE TypeOK'
    <2>1. minted + 1 \in Nat /\ now + TTL \in Nat
        BY RememberAssumption DEF RememberAssumption, TypeOK
    <2>2. table' \in Table
        BY <1>1, <2>1, CreateIsTable DEF Issue, TypeOK
    <2>3. handed' \in SUBSET Handed
        BY <1>1 DEF Issue, TypeOK, Handed
    <2>4. RequestsOK'
        BY <1>1, SameRequests DEF Issue
    <2> QED BY <1>1, <2>1, <2>2, <2>3, <2>4, TypeFromParts DEF Issue, TypeOK
<1>2. ASSUME NEW r \in Request, NEW s \in Selector, NEW v \in 1..(MaxMint + 1),
             Present(r, s, v)
      PROVE  TypeOK'
    BY <1>2, PresentKeepsType, RememberAssumption DEF RememberAssumption
<1>3. ASSUME NEW r \in Request, Step(r) \/ StatementFails(r) PROVE TypeOK'
    <2>1. CASE Find(r)
        BY <2>1, FindKeepsType
    <2>2. CASE Rotate(r)
        BY <2>2, RotateKeepsType
    <2>3. CASE Expire(r)
        BY <2>3, ReturnKeepsRequests, DeleteIsTable, TypeFromParts
        DEF Expire, Delete, TypeOK
    <2>4. CASE RevokeFamily(r)
        BY <2>4, ReturnKeepsRequests, DeleteIsTable, TypeFromParts
        DEF RevokeFamily, DeleteByUser, TypeOK
    <2>5. CASE StatementFails(r)
        BY <2>5, ReturnKeepsRequests, TypeFromParts DEF StatementFails, TypeOK
    <2>6. CASE Respond(r)
        BY <2>6 DEF Respond, TypeOK, Stage
    <2> QED BY <1>3, <2>1, <2>2, <2>3, <2>4, <2>5, <2>6 DEF Step
<1>4. ASSUME NEW s \in Selector, Revoke(s) PROVE TypeOK'
    BY <1>4, SameRequests, DeleteIsTable, TypeFromParts DEF Revoke, Delete, TypeOK
<1>5. ASSUME NEW u \in User, RevokeAllForUser(u) PROVE TypeOK'
    BY <1>5, SameRequests, DeleteIsTable, TypeFromParts
    DEF RevokeAllForUser, DeleteByUser, TypeOK
<1>6. CASE PruneExpired
    BY <1>6, SameRequests, DeleteIsTable, TypeFromParts
    DEF PruneExpired, DeleteExpired, TypeOK
<1>7. CASE Tick
    BY <1>7, SameRequests, TypeFromParts DEF Tick, TypeOK
<1>8. CASE UNCHANGED vars
    BY <1>8 DEF vars, TypeOK, requestVars
<1> QED BY <1>1, <1>2, <1>3, <1>4, <1>5, <1>6, <1>7, <1>8 DEF Next

LEMMA InitHasType == Init => TypeOK
<1> SUFFICES ASSUME Init PROVE TypeOK
    OBVIOUS
<1>1. table \in Table
    BY DEF Init, EmptyTable, Table
<1> QED BY <1>1, NoCookieType DEF Init, TypeOK, Stage

\* Every variable has its type, and a request that is about to write holds the
\* row it read.
THEOREM RememberTypeOK == Spec => []TypeOK
<1> QED BY InitHasType, TypeIsInductive, PTL DEF Spec

-----------------------------------------------------------------------------
(* The chain of a family *)

\* A step that leaves table, cookies and history alone keeps what is said of them.
LEMMA SameTableKeepsChain ==
    ASSUME IInv, UNCHANGED <<table, minted, used, handed>>
    PROVE  Chain' /\ OneSuccessor' /\ NoOrphanCookie'
BY DEF IInv, Chain, Unreplaced, OneSuccessor, NoOrphanCookie, Stored

\* Deleting families keeps it: it only asks less of them.
LEMMA DeleteKeepsChain ==
    ASSUME IInv, NEW S, table' = DeleteAll(table, S), UNCHANGED <<minted, used, handed>>
    PROVE  Chain' /\ OneSuccessor' /\ NoOrphanCookie'
<1>1. \A q \in Stored(table)' : q \in Stored(table) /\ table'[q] = table[q]
    BY DeleteFrees DEF Stored, IInv, TypeOK
<1>2. Chain'
    BY <1>1 DEF IInv, Chain, Unreplaced
<1>3. OneSuccessor'
    BY DEF IInv, OneSuccessor
<1>4. NoOrphanCookie'
    BY <1>1 DEF IInv, NoOrphanCookie
<1> QED BY <1>2, <1>3, <1>4

\* A family is issued with a selector that was never used, so no cookie of it
\* was handed out before.
LEMMA IssueKeepsChain ==
    ASSUME IInv, NEW u \in User, NEW s \in Selector, Issue(u, s)
    PROVE  Chain' /\ OneSuccessor' /\ NoOrphanCookie'
<1> DEFINE first == [sel |-> s, val |-> minted + 1, from |-> 0]
<1>1. /\ minted' = minted + 1 /\ used' = used \cup {s} /\ handed' = handed \cup {first}
      /\ table' = [table EXCEPT ![s] = NewToken(u, minted + 1, now + TTL)]
    BY DEF Issue, Create
<1>2. minted \in Nat /\ s \notin used /\ table \in Table /\ handed \in SUBSET Handed
    BY DEF IInv, TypeOK, Issue
<1>3. /\ table'[s].validator = minted + 1
      /\ \A q \in Selector : q # s => table'[q] = table[q]
      /\ Stored(table)' \subseteq Stored(table) \cup {s}
    BY <1>1, <1>2 DEF NewToken, Table, Stored
<1>4. \A h \in handed : h.sel \in used /\ h.sel # s /\ h.from < h.val /\ h.val <= minted
                        /\ h.from \in Nat /\ h.val \in Nat
    BY <1>2 DEF IInv, Chain, Handed
<1>5. Stored(table) \subseteq used /\ s \notin Stored(table)
    BY <1>2 DEF IInv, Chain
<1>6. \A h \in handed' : h.sel \in used' /\ h.from < h.val /\ h.val <= minted'
    BY <1>1, <1>2, <1>4
<1>7. Stored(table)' \subseteq used'
    BY <1>1, <1>3, <1>5
<1>8. \A q \in Stored(table)' : table'[q].validator <= minted'
    <2> SUFFICES ASSUME NEW q \in Stored(table)' PROVE table'[q].validator <= minted'
        OBVIOUS
    <2>1. CASE q = s
        BY <2>1, <1>1, <1>2, <1>3
    <2>2. CASE q # s
        <3>1. q \in Stored(table) /\ table'[q] = table[q]
            BY <2>2, <1>3 DEF Stored
        <3>2. table[q].validator \in Nat /\ table[q].validator <= minted
            BY <3>1, <1>2, NoTokenAssumption DEF IInv, Chain, Stored, Table, Token
        <3> QED BY <3>1, <3>2, <1>1, <1>2
    <2> QED BY <2>1, <2>2
<1>9. Unreplaced'
    <2> SUFFICES ASSUME NEW q \in Stored(table)', NEW h \in handed', h.sel = q
                 PROVE  h.from # table'[q].validator
        BY DEF Unreplaced
    <2>1. CASE q = s
        BY <2>1, <1>1, <1>2, <1>3, <1>4
    <2>2. CASE q # s
        BY <2>2, <1>1, <1>3 DEF IInv, Chain, Unreplaced, Stored
    <2> QED BY <2>1, <2>2
<1>10. Chain'
    BY <1>6, <1>7, <1>8, <1>9 DEF Chain
<1>11. OneSuccessor'
    BY <1>1, <1>4 DEF IInv, OneSuccessor
<1>12. NoOrphanCookie'
    BY <1>1, <1>3, <1>4 DEF IInv, NoOrphanCookie, Stored
<1> QED BY <1>10, <1>11, <1>12

\* A rotation that matches replaces the current validator, which had no
\* successor, by one nobody has seen; one that does not match changes nothing.
LEMMA RotateKeepsChain ==
    ASSUME IInv, NEW r \in Request, Rotate(r)
    PROVE  Chain' /\ OneSuccessor' /\ NoOrphanCookie'
<1> DEFINE s == cookie[r].sel
           old == seen[r].validator
           next == [sel |-> s, val |-> minted + 1, from |-> old]
<1>1. s \in Selector /\ old \in Nat /\ minted \in Nat /\ minted' = minted + 1 /\ used' = used
    BY DEF IInv, TypeOK, Rotate, Cookie, Token
<1>2. table \in Table /\ handed \in SUBSET Handed
    BY DEF IInv, TypeOK
<1>3. \A h \in handed : h.sel \in used /\ h.from < h.val /\ h.val <= minted
                        /\ h.from \in Nat /\ h.val \in Nat
    BY <1>2 DEF IInv, Chain, Handed
<1>4. \A q \in Stored(table) : table[q].validator \in Nat /\ table[q].validator <= minted
    BY <1>2, NoTokenAssumption DEF IInv, Chain, Stored, Table, Token
<1>5. CASE RotateMatches(table, s, old)
    <2>1. handed' = handed \cup {next}
        BY <1>5 DEF Rotate, NewCookies
    <2>2. s \in Stored(table) /\ table[s].validator = old /\ table[s] \in Token
        BY <1>1, <1>2, <1>5 DEF RotateMatches, Stored, Table
    <2>3. table' = [table EXCEPT ![s] =
                        RotatedToken(@, minted + 1, old, at[r], at[r] + TTL)]
        BY <1>5 DEF Rotate, RotateValidator
    <2>4. /\ table'[s].validator = minted + 1
          /\ \A q \in Selector : q # s => table'[q] = table[q]
        BY <2>2, <2>3, <1>1, <1>2 DEF RotatedToken, Table, Token
    <2>5. Stored(table)' \subseteq Stored(table)
        BY <2>2, <2>4 DEF Stored
    <2>6. \A h \in handed : h.sel = s => h.from # old
        BY <2>2 DEF IInv, Chain, Unreplaced
    <2>7. old < minted + 1 /\ s \in used
        BY <1>1, <1>4, <2>2 DEF IInv, Chain
    <2>8. \A h \in handed' : h.sel \in used' /\ h.from < h.val /\ h.val <= minted'
        BY <1>1, <1>3, <2>1, <2>7
    <2>9. Stored(table)' \subseteq used'
        BY <1>1, <2>5 DEF IInv, Chain
    <2>10. \A q \in Stored(table)' : table'[q].validator <= minted'
        BY <1>1, <1>4, <2>4, <2>5 DEF Stored
    <2>11. Unreplaced'
        <3> SUFFICES ASSUME NEW q \in Stored(table)', NEW h \in handed', h.sel = q
                     PROVE  h.from # table'[q].validator
            BY DEF Unreplaced
        <3>1. CASE q = s
            BY <3>1, <1>1, <1>3, <2>1, <2>4, <2>7
        <3>2. CASE q # s
            BY <3>2, <2>1, <2>4, <2>5 DEF IInv, Chain, Unreplaced, Stored
        <3> QED BY <3>1, <3>2
    <2>12. Chain'
        BY <2>8, <2>9, <2>10, <2>11 DEF Chain
    <2>13. OneSuccessor'
        BY <2>1, <2>6 DEF IInv, OneSuccessor
    <2>14. NoOrphanCookie'
        <3> SUFFICES ASSUME NEW h \in handed', h.sel \in Stored(table)'
                     PROVE  \/ h.val = table'[h.sel].validator
                            \/ \E n \in handed' : n.sel = h.sel /\ n.from = h.val
            BY DEF NoOrphanCookie
        <3>1. CASE h = next
            BY <3>1, <2>4
        <3>2. CASE h \in handed /\ h.sel = s
            <4>1. next \in handed' /\ next.sel = s /\ next.from = old
                BY <2>1
            <4>2. h.val = old \/ \E n \in handed : n.sel = s /\ n.from = h.val
                BY <3>2, <2>2 DEF IInv, NoOrphanCookie
            <4>3. handed \subseteq handed'
                BY <2>1
            <4> HIDE DEF next, old, s
            <4> QED BY <3>2, <4>1, <4>2, <4>3
        <3>3. CASE h \in handed /\ h.sel # s
            BY <3>3, <2>1, <2>4, <2>5 DEF IInv, NoOrphanCookie, Stored
        <3> QED BY <3>1, <3>2, <3>3, <2>1
    <2> QED BY <2>12, <2>13, <2>14
<1>6. CASE ~RotateMatches(table, s, old)
    <2>1. table' = table /\ handed' = handed
        BY <1>6 DEF Rotate, RotateValidator, NewCookies
    <2>2. Chain'
        BY <2>1, <1>1, <1>3, <1>4 DEF IInv, Chain, Unreplaced, Stored
    <2> QED BY <2>1, <2>2 DEF IInv, OneSuccessor, NoOrphanCookie, Stored
<1> QED BY <1>5, <1>6

\* What a step of Next does to the table, the cookies and the history.
LEMMA ChainIsInductive ==
    ASSUME IInv, [Next]_vars
    PROVE  Chain' /\ OneSuccessor' /\ NoOrphanCookie'
<1>1. ASSUME NEW u \in User, NEW s \in Selector, Issue(u, s)
      PROVE  Chain' /\ OneSuccessor' /\ NoOrphanCookie'
    BY <1>1, IssueKeepsChain
<1>2. ASSUME NEW r \in Request, NEW s \in Selector, NEW v \in 1..(MaxMint + 1),
             Present(r, s, v)
      PROVE  Chain' /\ OneSuccessor' /\ NoOrphanCookie'
    BY <1>2, SameTableKeepsChain DEF Present
<1>3. ASSUME NEW r \in Request, Step(r) \/ StatementFails(r)
      PROVE  Chain' /\ OneSuccessor' /\ NoOrphanCookie'
    <2>1. CASE Find(r) \/ Respond(r) \/ StatementFails(r)
        BY <2>1, SameTableKeepsChain DEF Find, Respond, StatementFails
    <2>2. CASE Rotate(r)
        BY <2>2, RotateKeepsChain
    <2>3. CASE Expire(r)
        BY <2>3, DeleteKeepsChain DEF Expire, Delete
    <2>4. CASE RevokeFamily(r)
        BY <2>4, DeleteKeepsChain DEF RevokeFamily, DeleteByUser
    <2> QED BY <1>3, <2>1, <2>2, <2>3, <2>4 DEF Step
<1>4. ASSUME NEW s \in Selector, Revoke(s)
      PROVE  Chain' /\ OneSuccessor' /\ NoOrphanCookie'
    BY <1>4, DeleteKeepsChain DEF Revoke, Delete
<1>5. ASSUME NEW u \in User, RevokeAllForUser(u)
      PROVE  Chain' /\ OneSuccessor' /\ NoOrphanCookie'
    BY <1>5, DeleteKeepsChain DEF RevokeAllForUser, DeleteByUser
<1>6. CASE PruneExpired
    BY <1>6, DeleteKeepsChain DEF PruneExpired, DeleteExpired
<1>7. CASE Tick \/ UNCHANGED vars
    BY <1>7, SameTableKeepsChain DEF Tick, vars
<1> QED BY <1>1, <1>2, <1>3, <1>4, <1>5, <1>6, <1>7 DEF Next

LEMMA InvariantIsInductive == IInv /\ [Next]_vars => IInv'
BY TypeIsInductive, ChainIsInductive DEF IInv

LEMMA InitHasInvariant == Init => IInv
<1> SUFFICES ASSUME Init PROVE IInv
    OBVIOUS
<1>1. Stored(table) = {} /\ handed = {}
    BY DEF Init, EmptyTable, Stored
<1> QED BY <1>1, InitHasType DEF IInv, Chain, Unreplaced, OneSuccessor, NoOrphanCookie

\* However many requests present one validator at once, at most one is handed
\* its successor.
THEOREM RememberOneSuccessor == Spec => []OneSuccessor
<1>1. IInv => OneSuccessor
    BY DEF IInv
<1> QED BY <1>1, InitHasInvariant, InvariantIsInductive, PTL DEF Spec

\* Every cookie that was handed out, of a family that is stored, is the current
\* one or was replaced by another that was handed out.
THEOREM RememberNoOrphanCookie == Spec => []NoOrphanCookie
<1>1. IInv => NoOrphanCookie
    BY DEF IInv
<1> QED BY <1>1, InitHasInvariant, InvariantIsInductive, PTL DEF Spec

\* A rotation neither stores a family nor removes one.
LEMMA RotateKeepsStored ==
    ASSUME TypeOK, NEW r \in Request, Rotate(r)
    PROVE  \A q \in Selector : table[q] = NoToken <=> table'[q] = NoToken
<1> DEFINE s == cookie[r].sel
           old == seen[r].validator
<1>1. s \in Selector /\ old \in Nat /\ at[r] \in Nat /\ at[r] + TTL \in Nat /\ minted + 1 \in Nat
    BY RememberAssumption DEF RememberAssumption, TypeOK, Rotate, Cookie, Token
<1>2. CASE RotateMatches(table, s, old)
    <2>1. table[s] \in Token
        BY <1>1, <1>2 DEF RotateMatches, TypeOK, Table
    <2>2. RotatedToken(table[s], minted + 1, old, at[r], at[r] + TTL) \in Token
        BY <2>1, <1>1 DEF RotatedToken, Token
    <2>3. table' = [table EXCEPT ![s] = RotatedToken(@, minted + 1, old, at[r], at[r] + TTL)]
        BY <1>2 DEF Rotate, RotateValidator
    <2> QED BY <2>1, <2>2, <2>3, <1>1, NoTokenAssumption DEF TypeOK, Table
<1>3. CASE ~RotateMatches(table, s, old)
    BY <1>3 DEF Rotate, RotateValidator
<1> QED BY <1>2, <1>3

\* A revoked family stays revoked: only Issue stores a family, and it takes a
\* selector that was never used.
LEMMA StepRevokesForGood ==
    ASSUME TypeOK, [Next]_vars, NEW s \in used, table[s] = NoToken
    PROVE  table'[s] = NoToken
<1>1. s \in Selector /\ table \in Table
    BY DEF TypeOK
<1>2. \A S : DeleteAll(table, S)[s] = NoToken
    BY <1>1, DeleteFrees
<1>3. ASSUME NEW u \in User, NEW q \in Selector, Issue(u, q)
      PROVE  table'[s] = NoToken
    BY <1>1, <1>3 DEF Issue, Create, Table
<1>4. ASSUME NEW r \in Request, Step(r) \/ StatementFails(r)
      PROVE  table'[s] = NoToken
    <2>1. CASE Rotate(r)
        BY <2>1, <1>1, RotateKeepsStored
    <2>2. CASE Expire(r) \/ RevokeFamily(r)
        BY <2>2, <1>2 DEF Expire, RevokeFamily, Delete, DeleteByUser
    <2>3. CASE Find(r) \/ Respond(r) \/ StatementFails(r)
        BY <2>3 DEF Find, Respond, StatementFails
    <2> QED BY <1>4, <2>1, <2>2, <2>3 DEF Step
<1>5. ASSUME NEW q \in Selector, Revoke(q) PROVE table'[s] = NoToken
    BY <1>2, <1>5 DEF Revoke, Delete
<1>6. ASSUME NEW u \in User, RevokeAllForUser(u) PROVE table'[s] = NoToken
    BY <1>2, <1>6 DEF RevokeAllForUser, DeleteByUser
<1>7. CASE PruneExpired
    BY <1>2, <1>7 DEF PruneExpired, DeleteExpired
<1>8. CASE Tick \/ UNCHANGED vars
    BY <1>8 DEF Tick, vars
<1>9. ASSUME NEW r \in Request, NEW q \in Selector, NEW v, Present(r, q, v)
      PROVE  table'[s] = NoToken
    BY <1>9 DEF Present
<1> QED BY <1>3, <1>4, <1>5, <1>6, <1>7, <1>8, <1>9 DEF Next

\* A family that was revoked, expired or pruned never comes back, whatever a
\* request that read its row before goes on to write.
THEOREM RememberRevokedForGood == Spec => RevokedForGood
<1>1. TypeOK /\ [Next]_vars => [\A s \in used : table[s] = NoToken => table'[s] = NoToken]_vars
    BY StepRevokesForGood
<1> QED BY <1>1, RememberTypeOK, PTL DEF Spec, RevokedForGood

-----------------------------------------------------------------------------
(* Theft *)

\* Validator v of family s was replaced, and so was its successor.
RotatedTwice(s, v) ==
    \E h1, h2 \in handed : h1.sel = s /\ h1.from = v /\ h2.sel = s /\ h2.from = h1.val

\* The superseded validator that a row keeps is the one its current replaced.
Linked ==
    \A s \in Stored(table) : table[s].previous # 0 =>
        \E h \in handed : h.sel = s /\ h.from = table[s].previous /\ h.val = table[s].validator

\* Family s is gone, or knows validator v still, or was rotated twice since.
Near(s, v) ==
    \/ table[s] = NoToken
    \/ table[s].validator = v
    \/ table[s].previous = v
    \/ RotatedTwice(s, v)

\* The cookie of r was the current one when r was sent.
SentCurrent(r) == sentRow[r] # NoToken /\ sentRow[r].validator = cookie[r].val

\* A request that was sent with the current cookie of its family finds a row not
\* far from it.
SentIsNear ==
    \A r \in Request : pc[r] = "sent" =>
        /\ cookie[r].val # 0
        /\ SentCurrent(r) => cookie[r].sel \in used /\ Near(cookie[r].sel, cookie[r].val)

TheftInv == Linked /\ SentIsNear /\ NotMistakenForTheft

\* What a step does to the table: nothing that rows show, a family that is new, a
\* rotation from the current validator, or families deleted.
LEMMA TableSteps ==
    ASSUME IInv, [Next]_vars
    PROVE  \/ UNCHANGED <<table, handed, used>>
           \/ \E u \in User, s \in Selector : Issue(u, s)
           \/ \E r \in Request : Rotate(r)
           \/ (\E S : table' = DeleteAll(table, S)) /\ UNCHANGED <<handed, used>>
<1>1. ASSUME NEW r \in Request, Step(r) \/ StatementFails(r), ~Rotate(r)
      PROVE  \/ UNCHANGED <<table, handed, used>>
             \/ (\E S : table' = DeleteAll(table, S)) /\ UNCHANGED <<handed, used>>
    BY <1>1 DEF Step, Find, Expire, RevokeFamily, Respond, StatementFails, Delete, DeleteByUser
<1>2. ASSUME \/ \E r \in Request, s \in Selector, v \in 1..(MaxMint + 1) : Present(r, s, v)
             \/ Tick
             \/ UNCHANGED vars
      PROVE  UNCHANGED <<table, handed, used>>
    BY <1>2 DEF Present, Tick, vars
<1>3. ASSUME \/ \E s \in Selector : Revoke(s)
             \/ \E u \in User : RevokeAllForUser(u)
             \/ PruneExpired
      PROVE  (\E S : table' = DeleteAll(table, S)) /\ UNCHANGED <<handed, used>>
    BY <1>3 DEF Revoke, RevokeAllForUser, PruneExpired, Delete, DeleteByUser, DeleteExpired
<1> QED BY <1>1, <1>2, <1>3 DEF Next

\* A rotation changes at most the row of its family, to the successor of the
\* validator it had, and hands that successor out.
LEMMA RotateRow ==
    ASSUME IInv, NEW r \in Request, Rotate(r)
    PROVE  \/ UNCHANGED <<table, handed>>
           \/ \E s \in Stored(table), h \in handed' :
                 /\ \A q \in Selector : q # s => table'[q] = table[q]
                 /\ table'[s].validator = h.val
                 /\ table'[s].previous = table[s].validator
                 /\ h.sel = s /\ h.from = table[s].validator
                 /\ handed \subseteq handed'
<1> DEFINE s == cookie[r].sel
           old == seen[r].validator
           next == [sel |-> s, val |-> minted + 1, from |-> old]
<1>1. s \in Selector /\ table \in Table
    BY DEF IInv, TypeOK, Rotate, Cookie
<1>2. CASE RotateMatches(table, s, old)
    <2>1. handed' = handed \cup {next}
        BY <1>2 DEF Rotate, NewCookies
    <2>2. s \in Stored(table) /\ table[s].validator = old /\ table[s] \in Token
        BY <1>1, <1>2 DEF RotateMatches, Stored, Table
    <2>3. table' = [table EXCEPT ![s] =
                        RotatedToken(@, minted + 1, old, at[r], at[r] + TTL)]
        BY <1>2 DEF Rotate, RotateValidator
    <2>4. /\ table'[s].validator = minted + 1
          /\ table'[s].previous = old
          /\ \A q \in Selector : q # s => table'[q] = table[q]
        BY <2>2, <2>3, <1>1 DEF RotatedToken, Table, Token
    <2>5. next \in handed' /\ handed \subseteq handed'
        BY <2>1
    <2> QED BY <2>2, <2>4, <2>5
<1>3. CASE ~RotateMatches(table, s, old)
    BY <1>3 DEF Rotate, RotateValidator, NewCookies
<1> QED BY <1>2, <1>3

LEMMA LinkedIsInductive ==
    ASSUME IInv, [Next]_vars, Linked
    PROVE  Linked'
<1>1. CASE UNCHANGED <<table, handed, used>>
    BY <1>1 DEF Linked, Stored
<1>2. CASE \E u \in User, s \in Selector : Issue(u, s)
    <2>1. PICK u \in User, s \in Selector : Issue(u, s)
        BY <1>2
    <2>2. table' = [table EXCEPT ![s] = NewToken(u, minted + 1, now + TTL)] /\ handed \subseteq handed'
        BY <2>1 DEF Issue, Create
    <2>3. /\ table'[s].previous = 0
          /\ \A q \in Selector : q # s => table'[q] = table[q]
        BY <2>2 DEF IInv, TypeOK, Table, NewToken
    <2> QED BY <2>2, <2>3 DEF Linked, Stored
<1>3. CASE \E r \in Request : Rotate(r)
    <2>1. CASE UNCHANGED <<table, handed>>
        BY <2>1 DEF Linked, Stored
    <2>2. CASE ~UNCHANGED <<table, handed>>
        <3>1. PICK s \in Stored(table), h \in handed' :
                 /\ \A q \in Selector : q # s => table'[q] = table[q]
                 /\ table'[s].validator = h.val
                 /\ table'[s].previous = table[s].validator
                 /\ h.sel = s /\ h.from = table[s].validator
                 /\ handed \subseteq handed'
            BY <1>3, <2>2, RotateRow
        <3> QED BY <3>1 DEF Linked, Stored
    <2> QED BY <2>1, <2>2
<1>4. CASE (\E S : table' = DeleteAll(table, S)) /\ UNCHANGED <<handed, used>>
    <2>1. \A q \in Stored(table)' : q \in Stored(table) /\ table'[q] = table[q]
        BY <1>4, DeleteFrees DEF Stored, IInv, TypeOK
    <2> QED BY <1>4, <2>1 DEF Linked
<1> QED BY <1>1, <1>2, <1>3, <1>4, TableSteps

\* One step does not lead away from a cookie, but by the second rotation.
LEMMA StaysNear ==
    ASSUME IInv, [Next]_vars, Linked, NEW s \in used, NEW v, v # 0, Near(s, v)
    PROVE  Near(s, v)' /\ s \in used'
<1>1. s \in Selector
    BY DEF IInv, TypeOK
<1>2. CASE UNCHANGED <<table, handed, used>>
    BY <1>2 DEF Near, RotatedTwice
<1>3. CASE \E u \in User, q \in Selector : Issue(u, q)
    <2>1. PICK u \in User, q \in Selector : Issue(u, q)
        BY <1>3
    <2>2. q # s /\ used \subseteq used' /\ handed \subseteq handed'
        BY <2>1 DEF Issue
    <2>3. table'[s] = table[s]
        BY <1>1, <2>1, <2>2 DEF Issue, Create, IInv, TypeOK, Table
    <2> QED BY <2>2, <2>3 DEF Near, RotatedTwice
<1>4. CASE \E r \in Request : Rotate(r)
    <2>1. used' = used
        BY <1>4 DEF Rotate
    <2>2. CASE UNCHANGED <<table, handed>>
        BY <2>1, <2>2 DEF Near, RotatedTwice
    <2>3. CASE ~UNCHANGED <<table, handed>>
        <3>1. PICK q \in Stored(table), h \in handed' :
                 /\ \A p \in Selector : p # q => table'[p] = table[p]
                 /\ table'[q].validator = h.val
                 /\ table'[q].previous = table[q].validator
                 /\ h.sel = q /\ h.from = table[q].validator
                 /\ handed \subseteq handed'
            BY <1>4, <2>3, RotateRow
        <3>2. CASE q # s
            BY <1>1, <2>1, <3>1, <3>2 DEF Near, RotatedTwice
        <3>3. CASE q = s
            <4>1. CASE table[s].validator = v
                BY <2>1, <3>1, <3>3, <4>1 DEF Near
            <4>2. CASE table[s].previous = v
                <5>1. PICK h1 \in handed : h1.sel = s /\ h1.from = v /\ h1.val = table[s].validator
                    BY <3>3, <4>2 DEF Linked
                <5>2. RotatedTwice(s, v)'
                    BY <3>1, <3>3, <5>1 DEF RotatedTwice
                <5> QED BY <2>1, <5>2 DEF Near
            <4>3. CASE RotatedTwice(s, v)
                BY <2>1, <3>1, <4>3 DEF Near, RotatedTwice
            <4>4. table[s] # NoToken
                BY <3>1, <3>3 DEF Stored
            <4> QED BY <4>1, <4>2, <4>3, <4>4 DEF Near
        <3> QED BY <3>2, <3>3
    <2> QED BY <2>2, <2>3
<1>5. CASE (\E S : table' = DeleteAll(table, S)) /\ UNCHANGED <<handed, used>>
    <2>1. table'[s] \in {table[s], NoToken}
        BY <1>1, <1>5, DeleteFrees DEF IInv, TypeOK
    <2> QED BY <1>5, <2>1 DEF Near, RotatedTwice
<1> QED BY <1>2, <1>3, <1>4, <1>5, TableSteps

\* What a step does to a request: nothing, or it is sent, finds its row, or is
\* done with it.
LEMMA RequestSteps ==
    ASSUME TypeOK, [Next]_vars, NEW r \in Request
    PROVE  \/ /\ pc'[r] = pc[r] /\ cookie'[r] = cookie[r] /\ sentRow'[r] = sentRow[r]
              /\ seen'[r] = seen[r] /\ at'[r] = at[r]
           \/ \E s \in Selector, v \in 1..(MaxMint + 1) : Present(r, s, v)
           \/ Find(r)
           \/ pc'[r] \notin {"sent", "revoke"}
<1> DEFINE Same(q) == /\ pc'[q] = pc[q] /\ cookie'[q] = cookie[q] /\ sentRow'[q] = sentRow[q]
                      /\ seen'[q] = seen[q] /\ at'[q] = at[q]
<1>1. ASSUME UNCHANGED requestVars PROVE Same(r)
    BY <1>1 DEF requestVars
<1>2. ASSUME NEW q \in Request, NEW s, NEW v, Present(q, s, v), q # r
      PROVE  Same(r)
    BY <1>2 DEF Present, TypeOK
<1>3. ASSUME NEW q \in Request, NEW answer, Return(q, answer), q # r
      PROVE  Same(r)
    BY <1>3 DEF Return, TypeOK
<1>4. ASSUME NEW q \in Request, NEW stage, NEW token, NEW time, Goto(q, stage, token, time), q # r
      PROVE  Same(r)
    BY <1>4 DEF Goto, TypeOK
<1>5. ASSUME NEW q \in Request, Respond(q)
      PROVE  Same(r) \/ pc'[r] = "idle"
    BY <1>5 DEF Respond, TypeOK
<1>6. ASSUME NEW answer \in {"granted", "refused"}, Return(r, answer)
      PROVE  pc'[r] \notin {"sent", "revoke"}
    BY <1>6 DEF Return, TypeOK
<1>7. ASSUME NEW q \in Request, Step(q) \/ StatementFails(q)
      PROVE  Same(r) \/ Find(r) \/ pc'[r] \notin {"sent", "revoke"}
    <2>1. CASE Find(q)
        BY <2>1, <1>3, <1>4 DEF Find
    <2>2. CASE Rotate(q)
        BY <2>2, <1>3, <1>6 DEF Rotate
    <2>3. CASE Expire(q) \/ RevokeFamily(q) \/ StatementFails(q)
        BY <2>3, <1>3, <1>6 DEF Expire, RevokeFamily, StatementFails
    <2>4. CASE Respond(q)
        BY <2>4, <1>5
    <2> QED BY <1>7, <2>1, <2>2, <2>3, <2>4 DEF Step
<1>8. ASSUME \/ \E u \in User, s \in Selector : Issue(u, s)
             \/ \E s \in Selector : Revoke(s)
             \/ \E u \in User : RevokeAllForUser(u)
             \/ PruneExpired
             \/ Tick
             \/ UNCHANGED vars
      PROVE  UNCHANGED requestVars
    BY <1>8 DEF Issue, Revoke, RevokeAllForUser, PruneExpired, Tick, vars, requestVars
<1> HIDE DEF Same
<1>9. ASSUME NEW q \in Request, NEW s \in Selector, NEW v \in 1..(MaxMint + 1), Present(q, s, v)
      PROVE  Same(r) \/ Present(r, s, v)
    BY <1>2, <1>9
<1>10. Same(r) \/ (\E s \in Selector, v \in 1..(MaxMint + 1) : Present(r, s, v)) \/ Find(r)
           \/ pc'[r] \notin {"sent", "revoke"}
    BY <1>1, <1>7, <1>8, <1>9 DEF Next
<1> QED BY <1>10 DEF Same

\* A request that is sent reads the row as it is: its cookie is near.
LEMMA PresentIsNear ==
    ASSUME IInv, NEW r \in Request, NEW s \in Selector, NEW v \in 1..(MaxMint + 1),
           Present(r, s, v)
    PROVE  /\ pc'[r] = "sent" /\ cookie'[r].val # 0
           /\ SentCurrent(r)' => cookie'[r].sel \in used' /\ Near(cookie[r].sel, cookie[r].val)'
<1>1. /\ pc'[r] = "sent" /\ cookie'[r] = [sel |-> s, val |-> v] /\ sentRow'[r] = table[s]
      /\ UNCHANGED <<table, used, handed>>
    BY DEF Present, IInv, TypeOK
<1>2. v # 0
    BY RememberAssumption DEF RememberAssumption
<1>3. Stored(table) \subseteq used
    BY DEF IInv, Chain
<1>4. SentCurrent(r)' => s \in used /\ table[s].validator = v
    BY <1>1, <1>3 DEF SentCurrent, Stored
<1> QED BY <1>1, <1>2, <1>4 DEF Near

\* A request that decides to revoke found a row that knows its cookie no longer:
\* the grace window of the rotation is over, or there was another.
LEMMA FindIsNear ==
    ASSUME IInv, Linked, SentIsNear, NEW r \in Request, Find(r),
           pc'[r] = "revoke", SentCurrent(r)'
    PROVE  \/ at'[r] - seen'[r].rotatedAt > Grace
           \/ RotatedTwice(cookie[r].sel, cookie[r].val)'
<1> DEFINE s == cookie[r].sel
           v == cookie[r].val
           token == table[s]
<1>1. /\ pc[r] = "sent" /\ UNCHANGED <<table, handed>>
      /\ now \in Nat /\ s \in Selector /\ token \in Token \cup {NoToken} /\ v \in Nat
    BY DEF Find, IInv, TypeOK, Table, Cookie
<1>2. Verdict(token, v, now) = "revoke" /\ Goto(r, "revoke", token, now)
    BY DEF Find, Decision, Return, IInv, TypeOK, FindBySelector, Goto
<1>3. cookie' = cookie /\ sentRow' = sentRow /\ seen'[r] = token /\ at'[r] = now
    BY <1>2 DEF Goto, IInv, TypeOK
<1>4. v # 0 /\ Near(s, v)
    BY <1>1, <1>3 DEF SentIsNear, SentCurrent
<1>5. token # NoToken /\ v # token.validator /\ ~InGrace(token, v, now)
    BY <1>2 DEF Verdict
<1>6. CASE token.previous = v
    <2>1. ~(now - token.rotatedAt <= Grace)
        BY <1>4, <1>5, <1>6 DEF InGrace
    <2>2. token.rotatedAt \in Nat /\ Grace \in Nat
        BY <1>1, <1>5, RememberAssumption DEF RememberAssumption, Token
    <2> QED BY <1>1, <1>3, <2>1, <2>2
<1>7. CASE RotatedTwice(s, v)
    BY <1>1, <1>3, <1>7 DEF RotatedTwice
<1> QED BY <1>4, <1>5, <1>6, <1>7 DEF Near

LEMMA TheftIsInductive ==
    ASSUME IInv, [Next]_vars, TheftInv
    PROVE  TheftInv'
<1>1. Linked'
    BY LinkedIsInductive DEF TheftInv
<1>2. handed \subseteq handed'
    BY TableSteps, RotateRow DEF Issue
<1>3. SentIsNear'
    <2>1. ASSUME NEW r \in Request, pc'[r] = "sent"
          PROVE  /\ cookie'[r].val # 0
                 /\ SentCurrent(r)' =>
                       cookie'[r].sel \in used' /\ Near(cookie[r].sel, cookie[r].val)'
        <3>1. CASE pc'[r] = pc[r] /\ cookie'[r] = cookie[r] /\ sentRow'[r] = sentRow[r]
            <4>1. /\ cookie[r].val # 0
                  /\ SentCurrent(r) =>
                        cookie[r].sel \in used /\ Near(cookie[r].sel, cookie[r].val)
                BY <2>1, <3>1 DEF TheftInv, SentIsNear
            <4>2. SentCurrent(r)' => SentCurrent(r)
                BY <3>1 DEF SentCurrent
            <4>3. SentCurrent(r) =>
                      cookie[r].sel \in used' /\ Near(cookie[r].sel, cookie[r].val)'
                <5> SUFFICES ASSUME SentCurrent(r)
                             PROVE  cookie[r].sel \in used' /\ Near(cookie[r].sel, cookie[r].val)'
                    OBVIOUS
                <5> DEFINE s == cookie[r].sel
                           v == cookie[r].val
                <5>1. s \in used /\ v # 0 /\ Near(s, v) /\ Linked
                    BY <4>1 DEF TheftInv
                <5> QED BY <3>1, <5>1, StaysNear
            <4> QED BY <3>1, <4>1, <4>2, <4>3
        <3>2. CASE \E s \in Selector, v \in 1..(MaxMint + 1) : Present(r, s, v)
            BY <3>2, PresentIsNear
        <3>3. CASE Find(r)
            <4>1. pc'[r] # "sent"
                BY <3>3 DEF Find, Decision, Return, Goto, Verdict, IInv, TypeOK
            <4> QED BY <2>1, <4>1
        <3> QED BY <2>1, <3>1, <3>2, <3>3, RequestSteps DEF IInv
    <2> QED BY <2>1 DEF SentIsNear
<1>4. NotMistakenForTheft'
    <2>1. ASSUME NEW r \in Request, pc'[r] = "revoke", SentCurrent(r)'
          PROVE  \/ at'[r] - seen'[r].rotatedAt > Grace
                 \/ RotatedTwice(cookie[r].sel, cookie[r].val)'
        <3>1. CASE /\ pc'[r] = pc[r] /\ cookie'[r] = cookie[r] /\ sentRow'[r] = sentRow[r]
                   /\ seen'[r] = seen[r] /\ at'[r] = at[r]
            <4>1. \/ at[r] - seen[r].rotatedAt > Grace
                  \/ RotatedTwice(cookie[r].sel, cookie[r].val)
                BY <2>1, <3>1 DEF TheftInv, NotMistakenForTheft, SentCurrent, RotatedTwice
            <4> QED BY <1>2, <3>1, <4>1 DEF RotatedTwice
        <3>2. CASE \E s \in Selector, v \in 1..(MaxMint + 1) : Present(r, s, v)
            <4>1. pc'[r] = "sent"
                BY <3>2, PresentIsNear
            <4> QED BY <2>1, <4>1
        <3>3. CASE Find(r)
            BY <2>1, <3>3, FindIsNear DEF TheftInv
        <3> QED BY <2>1, <3>1, <3>2, <3>3, RequestSteps DEF IInv
    <2> QED BY <2>1 DEF NotMistakenForTheft, SentCurrent, RotatedTwice
<1> QED BY <1>1, <1>3, <1>4 DEF TheftInv

\* A request that was sent with the current cookie is never taken for theft
\* because others rotated first, unless the grace window is over or the family
\* was rotated twice (services/remember.go, Resolve).
THEOREM RememberNotMistakenForTheft == Spec => []NotMistakenForTheft
<1>1. Init => IInv /\ TheftInv
    <2> SUFFICES ASSUME Init PROVE TheftInv
        BY InitHasInvariant
    <2>1. Stored(table) = {} /\ \A r \in Request : pc[r] = "idle"
        BY DEF Init, EmptyTable, Stored
    <2> QED BY <2>1 DEF TheftInv, Linked, SentIsNear, NotMistakenForTheft
<1>2. IInv /\ TheftInv /\ [Next]_vars => IInv' /\ TheftInv'
    BY InvariantIsInductive, TheftIsInductive
<1>3. TheftInv => NotMistakenForTheft
    BY DEF TheftInv
<1> QED BY <1>1, <1>2, <1>3, PTL DEF Spec

-----------------------------------------------------------------------------
(* The refinement *)

LiveFamilies == {s \in Selector : Family[s] = "live"}

\* A live family is a stored one.
LEMMA LiveIsStored ==
    ASSUME IInv
    PROVE  LiveFamilies = Stored(table)
BY DEF LiveFamilies, Family, Stored, IInv, Chain

\* Deleting families revokes those of them that were live.
LEMMA DeleteRevokes ==
    ASSUME IInv, NEW S, table' = DeleteAll(table, S), used' = used
    PROVE  \E R \in SUBSET LiveFamilies :
              Family' = [s \in Selector |-> IF s \in R THEN "revoked" ELSE Family[s]]
<1> DEFINE R == S \cap LiveFamilies
<1>1. R \in SUBSET LiveFamilies
    OBVIOUS
<1>2. Family' = [s \in Selector |-> IF s \in R THEN "revoked" ELSE Family[s]]
    <2>1. \A s \in Selector : Family'[s] = IF s \in R THEN "revoked" ELSE Family[s]
        BY LiveIsStored, DeleteFrees DEF Family, Stored, IInv, TypeOK, LiveFamilies
    <2> QED BY <2>1 DEF Family
<1> QED BY <1>1, <1>2

LEMMA DeleteImplements ==
    ASSUME IInv, NEW S, table' = DeleteAll(table, S), used' = used,
           Login' = Login, Claim' = Claim
    PROVE  Promise!Revoked
BY DeleteRevokes DEF Promise!Revoked, LiveFamilies

\* A request that moves from one stage to another moves its login alone.
LEMMA LoginMoves ==
    ASSUME TypeOK, NEW r \in Request, NEW stage \in Stage, pc' = [pc EXCEPT ![r] = stage]
    PROVE  /\ Login[r] = LoginAt(pc[r])
           /\ Login' = [Login EXCEPT ![r] = LoginAt(stage)]
BY DEF Login, TypeOK

\* A request that goes on to another stage leaves the claims of the others, and
\* its own if it goes on to rotate.
LEMMA ClaimMoves ==
    ASSUME TypeOK, NEW r \in Request, NEW stage \in Stage, pc' = [pc EXCEPT ![r] = stage],
           \A q \in Request \ {r} : cookie'[q] = cookie[q]
    PROVE  /\ stage \notin {"sent", "rotate"} => Claim' = [Claim EXCEPT ![r] = NoToken]
           /\ stage \in {"sent", "rotate"} => Claim' = [Claim EXCEPT ![r] = cookie'[r].sel]
<1>1. \A q \in Request : pc'[q] = IF q = r THEN stage ELSE pc[q]
    BY DEF TypeOK
<1>2. \A q \in Request \ {r} : Claim'[q] = Claim[q]
    BY <1>1 DEF Claim
<1>3. Claim'[r] = IF stage \in {"sent", "rotate"} THEN cookie'[r].sel ELSE NoToken
    BY <1>1 DEF Claim
<1>4. \A v : Claim'[r] = v => Claim' = [Claim EXCEPT ![r] = v]
    BY <1>2 DEF Claim
<1> QED BY <1>3, <1>4

\* The claims of requests that return with an answer.
LEMMA ReturnClears ==
    ASSUME TypeOK, NEW r \in Request, NEW answer \in {"granted", "refused"}, Return(r, answer)
    PROVE  /\ Login' = [Login EXCEPT ![r] = answer]
           /\ Claim' = [Claim EXCEPT ![r] = NoToken]
<1>1. pc' = [pc EXCEPT ![r] = answer] /\ \A q \in Request \ {r} : cookie'[q] = cookie[q]
    BY DEF Return, TypeOK
<1>2. answer \in Stage /\ answer \notin {"sent", "rotate"} /\ LoginAt(answer) = answer
    BY DEF Stage, LoginAt
<1> QED BY <1>1, <1>2, LoginMoves, ClaimMoves

\* A step that changes neither table nor history changes no family.
LEMMA SameFamily ==
    ASSUME UNCHANGED <<table, used>>
    PROVE  Family' = Family
BY DEF Family

LEMMA IssueImplements ==
    ASSUME IInv, NEW u \in User, NEW s \in Selector, Issue(u, s)
    PROVE  Promise!Issued(s)
<1>1. s \notin used /\ used' = used \cup {s} /\ table \in Table
    BY DEF Issue, IInv, TypeOK
<1>2. table' = [table EXCEPT ![s] = NewToken(u, minted + 1, now + TTL)]
    BY DEF Issue, Create
<1>3. NewToken(u, minted + 1, now + TTL) # NoToken
    <2>1. minted + 1 \in Nat /\ now + TTL \in Nat
        BY RememberAssumption DEF RememberAssumption, IInv, TypeOK
    <2> QED BY <2>1, NoTokenAssumption DEF NewToken, Token
<1>4. \A q \in Selector : Family'[q] = IF q = s THEN "live" ELSE Family[q]
    BY <1>1, <1>2, <1>3 DEF Family, Table
<1>5. Family' = [Family EXCEPT ![s] = "live"]
    BY <1>4 DEF Family
<1>6. Login' = Login
    BY DEF Issue, requestVars, Login, LoginAt
<1>7. Claim' = Claim
    BY DEF Issue, requestVars, Claim
<1> QED BY <1>1, <1>5, <1>6, <1>7 DEF Promise!Issued, Family

\* A row that is found is of the family that the request claims.
LEMMA FindImplements ==
    ASSUME IInv, NEW r \in Request, Find(r)
    PROVE  Promise!Admitted(r) \/ Promise!Granted(r) \/ Promise!Refused(r)
<1> DEFINE s == cookie[r].sel
           decision == Decision(r)
<1>1. TypeOK /\ s \in Selector /\ pc[r] = "sent"
    BY DEF IInv, TypeOK, Cookie, Find
<1>2. /\ decision \in {"refused", "expire", "rotate", "granted", "revoke"}
      /\ decision # "refused" => table[s] # NoToken
    BY DEF Decision, FindBySelector, Verdict
<1>3. /\ decision \in {"granted", "refused"} => Return(r, decision)
      /\ decision \notin {"granted", "refused"} =>
            pc' = [pc EXCEPT ![r] = decision] /\ cookie' = cookie
    BY DEF Find, Goto
<1>4. Family' = Family
    BY SameFamily DEF Find
<1>5. Login[r] = "asked" /\ Claim[r] = s
    BY <1>1 DEF Login, LoginAt, Claim
<1>6. decision \in Stage
    BY <1>2 DEF Stage
<1>7. decision # "refused" => Family[s] = "live"
    BY <1>1, <1>2, LiveIsStored DEF LiveFamilies, Stored
<1> HIDE DEF decision, s
<1>8. CASE decision \in {"refused", "granted"}
    <2>1. Login' = [Login EXCEPT ![r] = decision] /\ Claim' = [Claim EXCEPT ![r] = NoToken]
        BY <1>1, <1>3, <1>8, ReturnClears
    <2>2. Promise!Answer(r, decision)
        BY <2>1, <1>4 DEF Promise!Answer
    <2>3. decision = "granted" => Promise!ClaimIsLive(r)
        BY <1>5, <1>7 DEF Promise!ClaimIsLive
    <2> QED BY <2>2, <2>3, <1>5, <1>8 DEF Promise!Granted, Promise!Refused
<1>9. CASE decision \in {"expire", "revoke"}
    <2>1. Login' = [Login EXCEPT ![r] = "refused"]
        <3>1. LoginAt(decision) = "refused"
            BY <1>9 DEF LoginAt
        <3> QED BY <3>1, <1>1, <1>3, <1>6, <1>9, LoginMoves
    <2>2. Claim' = [Claim EXCEPT ![r] = NoToken]
        BY <1>1, <1>3, <1>6, <1>9, ClaimMoves
    <2> QED BY <2>1, <2>2, <1>4, <1>5 DEF Promise!Refused, Promise!Answer
<1>10. CASE decision = "rotate"
    <2>1. Login' = [Login EXCEPT ![r] = "admitted"]
        <3>1. LoginAt(decision) = "admitted"
            BY <1>10 DEF LoginAt
        <3> QED BY <3>1, <1>1, <1>3, <1>6, <1>10, LoginMoves
    <2>2. Claim' = Claim
        BY <1>1, <1>3, <1>10 DEF Claim, TypeOK
    <2>3. Promise!ClaimIsLive(r)
        BY <1>5, <1>7, <1>10 DEF Promise!ClaimIsLive
    <2> QED BY <2>1, <2>2, <2>3, <1>4 DEF Promise!Admitted
<1> QED BY <1>2, <1>8, <1>9, <1>10

LEMMA RotateImplements ==
    ASSUME IInv, NEW r \in Request, Rotate(r)
    PROVE  Promise!Granted(r)
<1>1. Login[r] = "admitted"
    BY DEF Rotate, Login, LoginAt
<1>2. Login' = [Login EXCEPT ![r] = "granted"] /\ Claim' = [Claim EXCEPT ![r] = NoToken]
    BY ReturnClears DEF Rotate, IInv
<1>3. Family' = Family
    <2>1. \A q \in Selector : table[q] = NoToken <=> table'[q] = NoToken
        BY RotateKeepsStored DEF IInv
    <2> QED BY <2>1 DEF Family, Rotate
<1> QED BY <1>1, <1>2, <1>3 DEF Promise!Granted, Promise!Answer

\* A request that was refused before its last statement is refused.
LEMMA RefusedStays ==
    ASSUME IInv, NEW r \in Request, pc[r] \in {"expire", "revoke"}, Return(r, "refused")
    PROVE  Login' = Login /\ Claim' = Claim
<1>1. Login' = [Login EXCEPT ![r] = "refused"] /\ Claim' = [Claim EXCEPT ![r] = NoToken]
    BY ReturnClears DEF IInv
<1>2. Login[r] = "refused" /\ Claim[r] = NoToken
    BY DEF Login, LoginAt, Claim
<1> QED BY <1>1, <1>2 DEF Login, Claim

\* A step of a request is a step of the promise, or one it does not see.
LEMMA StepImplements ==
    ASSUME IInv, NEW r \in Request, Step(r) \/ StatementFails(r)
    PROVE  [Promise!PromiseNext]_(Promise!promiseVars)
<1>1. CASE Find(r)
    BY <1>1, FindImplements DEF Promise!PromiseNext
<1>2. CASE Rotate(r)
    BY <1>2, RotateImplements DEF Promise!PromiseNext
<1>3. CASE Expire(r) \/ RevokeFamily(r)
    <2>1. Login' = Login /\ Claim' = Claim
        BY <1>3, RefusedStays DEF Expire, RevokeFamily
    <2>2. used' = used /\ \E S : table' = DeleteAll(table, S)
        BY <1>3 DEF Expire, RevokeFamily, Delete, DeleteByUser
    <2> QED BY <2>1, <2>2, DeleteImplements DEF Promise!PromiseNext
<1>4. CASE Respond(r)
    <2>1. pc[r] \in {"granted", "refused"} /\ pc' = [pc EXCEPT ![r] = "idle"] /\ cookie' = cookie
        BY <1>4 DEF Respond
    <2>2. Login[r] \in {"granted", "refused"}
        BY <2>1 DEF Login, LoginAt
    <2>3. Login' = [Login EXCEPT ![r] = "idle"]
        BY <2>1, LoginMoves DEF IInv, Stage, LoginAt
    <2>4. Claim' = Claim
        BY <2>1 DEF Claim, IInv, TypeOK
    <2>5. Family' = Family
        BY <1>4, SameFamily DEF Respond
    <2> QED BY <2>2, <2>3, <2>4, <2>5 DEF Promise!Returned, Promise!PromiseNext
<1>5. CASE StatementFails(r)
    <2>1. Return(r, "refused")
        BY <1>5 DEF StatementFails
    <2>2. Family' = Family
        BY <1>5, SameFamily DEF StatementFails
    <2>3. CASE pc[r] \in {"sent", "rotate"}
        <3>1. Login[r] \in {"asked", "admitted"}
            BY <2>3 DEF Login, LoginAt
        <3>2. Login' = [Login EXCEPT ![r] = "refused"] /\ Claim' = [Claim EXCEPT ![r] = NoToken]
            BY <2>1, ReturnClears DEF IInv
        <3> QED BY <2>2, <3>1, <3>2
                DEF Promise!Refused, Promise!Answer, Promise!PromiseNext
    <2>4. CASE pc[r] \in {"expire", "revoke"}
        BY <2>1, <2>2, <2>4, RefusedStays DEF Promise!promiseVars
    <2> QED BY <1>5, <2>3, <2>4 DEF StatementFails
<1> QED BY <1>1, <1>2, <1>3, <1>4, <1>5 DEF Step

\* A request on its way claims the family of the cookie it carries.
LEMMA PresentImplements ==
    ASSUME IInv, NEW r \in Request, NEW s \in Selector, NEW v, Present(r, s, v)
    PROVE  Promise!Asked(r, s)
<1>1. /\ pc[r] = "idle" /\ pc' = [pc EXCEPT ![r] = "sent"]
      /\ cookie' = [cookie EXCEPT ![r] = [sel |-> s, val |-> v]]
    BY DEF Present
<1>2. cookie'[r].sel = s /\ \A q \in Request \ {r} : cookie'[q] = cookie[q]
    BY <1>1 DEF IInv, TypeOK
<1>3. Login[r] = "idle"
    BY <1>1 DEF Login, LoginAt
<1>4. Login' = [Login EXCEPT ![r] = "asked"]
    BY <1>1, LoginMoves DEF IInv, Stage, LoginAt
<1>5. Claim' = [Claim EXCEPT ![r] = s]
    BY <1>1, <1>2, ClaimMoves DEF IInv, Stage
<1>6. Family' = Family
    BY SameFamily DEF Present
<1> QED BY <1>3, <1>4, <1>5, <1>6 DEF Promise!Asked

LEMMA NextImplements ==
    ASSUME IInv, [Next]_vars
    PROVE  [Promise!PromiseNext]_(Promise!promiseVars)
<1>1. ASSUME NEW u \in User, NEW s \in Selector, Issue(u, s)
      PROVE  [Promise!PromiseNext]_(Promise!promiseVars)
    BY <1>1, IssueImplements DEF Promise!PromiseNext
<1>2. ASSUME NEW r \in Request, NEW s \in Selector, NEW v, Present(r, s, v)
      PROVE  [Promise!PromiseNext]_(Promise!promiseVars)
    BY <1>2, PresentImplements DEF Promise!PromiseNext
<1>3. ASSUME NEW r \in Request, Step(r) \/ StatementFails(r)
      PROVE  [Promise!PromiseNext]_(Promise!promiseVars)
    BY <1>3, StepImplements
<1>4. ASSUME NEW S, table' = DeleteAll(table, S), UNCHANGED <<used, requestVars>>
      PROVE  [Promise!PromiseNext]_(Promise!promiseVars)
    <2>1. Login' = Login /\ Claim' = Claim
        BY <1>4 DEF Login, Claim, requestVars
    <2> QED BY <1>4, <2>1, DeleteImplements DEF Promise!PromiseNext
<1>5. ASSUME NEW s \in Selector, Revoke(s)
      PROVE  [Promise!PromiseNext]_(Promise!promiseVars)
    BY <1>4, <1>5 DEF Revoke, Delete
<1>6. ASSUME NEW u \in User, RevokeAllForUser(u)
      PROVE  [Promise!PromiseNext]_(Promise!promiseVars)
    BY <1>4, <1>6 DEF RevokeAllForUser, DeleteByUser
<1>7. CASE PruneExpired
    BY <1>4, <1>7 DEF PruneExpired, DeleteExpired
<1>8. CASE Tick \/ UNCHANGED vars
    <2>1. Family' = Family
        BY <1>8, SameFamily DEF Tick, vars
    <2>2. pc' = pc /\ cookie' = cookie
        BY <1>8 DEF Tick, vars, requestVars
    <2>3. Login' = Login /\ Claim' = Claim
        BY <2>2 DEF Login, Claim
    <2> QED BY <2>1, <2>3 DEF Promise!promiseVars
<1> QED BY <1>1, <1>2, <1>3, <1>5, <1>6, <1>7, <1>8 DEF Next

\* Every login remember-me grants, it grants to a request that presents a cookie
\* of a family that was live at some moment of that request, whatever the other
\* families; and a revoked family stays revoked.
THEOREM RememberImplementsPromise == Spec => ImplementsPromise
<1>1. Init => Promise!PromiseInit
    <2> SUFFICES ASSUME Init PROVE Promise!PromiseInit
        OBVIOUS
    <2>1. Family = [s \in Selector |-> "unissued"]
        BY DEF Init, Family
    <2>2. Login = [r \in Request |-> "idle"]
        BY DEF Init, Login, LoginAt
    <2>3. Claim = [r \in Request |-> NoToken]
        BY DEF Init, Claim
    <2> QED BY <2>1, <2>2, <2>3 DEF Promise!PromiseInit
<1>2. IInv /\ [Next]_vars => [Promise!PromiseNext]_(Promise!promiseVars)
    BY NextImplements
<1> QED BY <1>1, <1>2, InitHasInvariant, InvariantIsInductive, PTL
    DEF Spec, ImplementsPromise, Promise!PromiseSpec

=============================================================================
