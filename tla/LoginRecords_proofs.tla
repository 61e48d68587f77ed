------------------------- MODULE LoginRecords_proofs -------------------------
(***************************************************************************)
(* What a login leaves behind, in two tables that know nothing of each     *)
(* other: the entries of AdminLogins, as an administrator's pages show     *)
(* them for any queries and sizes, and the two-factor columns of           *)
(* TwoFactor, of which it consumes a code, for any requests, secrets and   *)
(* codes.                                                                  *)
(***************************************************************************)
EXTENDS AdminLogins, TwoFactor, FiniteSetTheorems, TLAPS

-----------------------------------------------------------------------------
(* The inductive invariant *)

\* The entries of q's answer that come before e.
Before(q, e) == {d \in Filtered(q) : Precedes(q, d, e)}

\* A query that is answered asks for a page from 1, and no user's address decides
\* over the rows counted: since the count they have only become more.
Counted ==
    /\ call.query.page \in Nat \ {0}
    /\ call.stage = "rows" /\ (call.query.user = Any \/ ~call.moved) =>
          call.total <= Cardinality(Filtered(call.query))

\* The request is for the page after those read.
ReadsOn ==
    walk.on /\ call.stage \in {"count", "rows"} => Continues(call.query)

\* What matched at the first page matches, and what was not seen has before it
\* all the rows of the pages read.
Stands ==
    walk.on /\ (walk.query.user = Any \/ ~walk.moved) =>
        /\ walk.from \subseteq Filtered(walk.query)
        /\ \A e \in walk.from \ walk.seen :
              walk.read * walk.query.perPage <= Cardinality(Before(walk.query, e))

IInv == TypeOK /\ Counted /\ ReadsOn /\ Stands /\ PromisedPagesHaveRows

-----------------------------------------------------------------------------
(* Rows and their positions *)

\* A function that repeats no value maps into a finite set no more than it holds,
\* and reaches all of a set as large as its domain.
LEMMA OneToOne ==
    ASSUME NEW S, NEW T, IsFiniteSet(T), NEW f \in [S -> T],
           \A x, y \in S : x # y => f[x] # f[y]
    PROVE  /\ IsFiniteSet(S)
           /\ Cardinality(S) <= Cardinality(T)
           /\ Cardinality(S) = Cardinality(T) => \A t \in T : \E x \in S : f[x] = t
           /\ (\A t \in T : \E x \in S : f[x] = t) => Cardinality(S) = Cardinality(T)
<1>1. f \in Injection(S, T)
    BY DEF Injection, IsInjective
<1>2. /\ IsFiniteSet(S)
      /\ Cardinality(S) <= Cardinality(T)
      /\ Cardinality(S) = Cardinality(T) <=> f \in Surjection(S, T)
    BY <1>1, FS_Injection
<1> QED BY <1>2 DEF Surjection

\* Ids are few: entries of which no two share one are, too.
LEMMA EntriesAreFinite ==
    ASSUME NEW rows \in SUBSET Entry, \A d, e \in rows : d.id = e.id => d = e
    PROVE  IsFiniteSet(rows)
<1> DEFINE idOf == [e \in rows |-> e.id]
<1>1. idOf \in [rows -> Id]
    BY DEF Entry
<1>2. \A d, e \in rows : d # e => idOf[d] # idOf[e]
    OBVIOUS
<1>3. IsFiniteSet(Id)
    BY AdminLoginsAssumption
<1> HIDE DEF idOf
<1> QED BY <1>1, <1>2, <1>3, OneToOne

LEMMA AuditIsFinite ==
    ASSUME TypeOK
    PROVE  IsFiniteSet(audit)
BY EntriesAreFinite DEF TypeOK

LEMMA FilteredIsFinite ==
    ASSUME TypeOK, NEW q
    PROVE  /\ IsFiniteSet(Filtered(q))
           /\ Cardinality(Filtered(q)) \in Nat
           /\ Filtered(q) \subseteq Entry
<1>1. Filtered(q) \in SUBSET audit
    BY DEF Filtered
<1>2. IsFiniteSet(Filtered(q))
    BY <1>1, AuditIsFinite, FS_Subset
<1>3. Filtered(q) \subseteq Entry
    BY <1>1 DEF TypeOK
<1> QED BY <1>2, <1>3, FS_CardinalityType

LEMMA BeforeIsFinite ==
    ASSUME TypeOK, NEW q, NEW e
    PROVE  IsFiniteSet(Before(q, e)) /\ Cardinality(Before(q, e)) \in Nat
<1>1. Before(q, e) \in SUBSET Filtered(q)
    BY DEF Before
<1>2. IsFiniteSet(Before(q, e))
    BY <1>1, FilteredIsFinite, FS_Subset
<1> QED BY <1>2, FS_CardinalityType

\* Of two entries one precedes the other, by its time or else by its id.
LEMMA OneOfTwoPrecedes ==
    ASSUME TypeOK, NEW q, NEW d \in audit, NEW e \in audit, d # e
    PROVE  Precedes(q, d, e) \/ Precedes(q, e, d)
<1>1. d.at \in Nat /\ e.at \in Nat /\ d.id \in Nat /\ e.id \in Nat
    BY AdminLoginsAssumption DEF TypeOK, Entry
<1>2. d.id # e.id
    BY DEF TypeOK
<1> QED BY <1>1, <1>2 DEF Precedes, Older

\* The rows of an answer fill its positions.
LEMMA PositionsAreFilled ==
    ASSUME TypeOK, NEW q, NEW f \in Positions(q, Filtered(q)),
           NEW k \in 0 .. Cardinality(Filtered(q)) - 1
    PROVE  \E d \in Filtered(q) : f[d] = k
<1> DEFINE n == Cardinality(Filtered(q))
<1>1. n \in Nat
    BY FilteredIsFinite
<1>2. f \in [Filtered(q) -> 0 .. n - 1] /\ \A d, e \in Filtered(q) : d # e => f[d] # f[e]
    BY DEF Positions
<1>3. IsFiniteSet(0 .. n - 1) /\ Cardinality(0 .. n - 1) = n
    <2>1. 0 \in Int /\ n - 1 \in Int
        BY <1>1
    <2>2. /\ IsFiniteSet(0 .. n - 1)
          /\ Cardinality(0 .. n - 1) = IF 0 > n - 1 THEN 0 ELSE (n - 1) - 0 + 1
        BY <2>1, FS_Interval
    <2> HIDE DEF n
    <2> QED BY <1>1, <2>2
<1>4. n = Cardinality(Filtered(q))
    OBVIOUS
<1> HIDE DEF n
<1>5. Cardinality(Filtered(q)) = Cardinality(0 .. n - 1)
    BY <1>3, <1>4
<1>6. IsFiniteSet(0 .. n - 1) /\ f \in [Filtered(q) -> 0 .. n - 1]
    BY <1>2, <1>3
<1>7. \A x, y \in Filtered(q) : x # y => f[x] # f[y]
    BY <1>2
<1> DEFINE all == 0 .. n - 1
           rows == Filtered(q)
<1>8. /\ IsFiniteSet(all) /\ f \in [rows -> all] /\ Cardinality(rows) = Cardinality(all)
      /\ \A x, y \in rows : x # y => f[x] # f[y]
    BY <1>5, <1>6, <1>7
<1> HIDE DEF all, rows
<1>9. \A t \in all : \E x \in rows : f[x] = t
    BY <1>8, OneToOne
<1> QED BY <1>4, <1>9 DEF all, rows

\* The position of a row is the number of the rows that precede it.
LEMMA RankIsPosition ==
    ASSUME TypeOK, NEW q, NEW f \in Positions(q, Filtered(q)), NEW e \in Filtered(q)
    PROVE  f[e] \in Nat /\ Cardinality(Before(q, e)) = f[e]
<1> DEFINE n == Cardinality(Filtered(q))
           g == [d \in Before(q, e) |-> f[d]]
<1>1. n \in Nat
    BY FilteredIsFinite
<1>2. /\ f \in [Filtered(q) -> 0 .. n - 1]
      /\ \A c, d \in Filtered(q) : c # d => f[c] # f[d]
      /\ \A c, d \in Filtered(q) : Precedes(q, c, d) => f[c] < f[d]
    BY DEF Positions
<1>3. f[e] \in Nat /\ f[e] <= n - 1
    <2> HIDE DEF n
    <2> QED BY <1>1, <1>2
<1>4. Before(q, e) \subseteq Filtered(q) /\ \A d \in Before(q, e) : Precedes(q, d, e)
    BY DEF Before
<1>5. g \in [Before(q, e) -> 0 .. f[e] - 1]
    <2> SUFFICES ASSUME NEW d \in Before(q, e) PROVE f[d] \in 0 .. f[e] - 1
        OBVIOUS
    <2>1. f[d] \in 0 .. n - 1 /\ f[d] < f[e]
        BY <1>2, <1>4
    <2> HIDE DEF n
    <2> QED BY <1>1, <1>3, <2>1
<1>6. \A c, d \in Before(q, e) : c # d => g[c] # g[d]
    BY <1>2, <1>4
<1>7. \A k \in 0 .. f[e] - 1 : \E d \in Before(q, e) : g[d] = k
    <2> SUFFICES ASSUME NEW k \in 0 .. f[e] - 1
                 PROVE  \E d \in Before(q, e) : f[d] = k
        OBVIOUS
    <2>1. k \in 0 .. n - 1 /\ k < f[e]
        <3> HIDE DEF n
        <3> QED BY <1>1, <1>3
    <2>2. PICK d \in Filtered(q) : f[d] = k
        BY <2>1, PositionsAreFilled
    <2>3. d # e /\ ~(f[e] < f[d])
        BY <1>3, <2>1, <2>2
    <2>4. d \in audit /\ e \in audit
        BY DEF Filtered
    <2>5. Precedes(q, d, e) \/ Precedes(q, e, d)
        BY <2>3, <2>4, OneOfTwoPrecedes
    <2>6. Precedes(q, d, e)
        BY <1>2, <2>3, <2>5
    <2> QED BY <2>2, <2>6 DEF Before
<1>8. IsFiniteSet(0 .. f[e] - 1) /\ Cardinality(0 .. f[e] - 1) = f[e]
    <2>1. 0 \in Int /\ f[e] - 1 \in Int
        BY <1>3
    <2>2. /\ IsFiniteSet(0 .. f[e] - 1)
          /\ Cardinality(0 .. f[e] - 1) = IF 0 > f[e] - 1 THEN 0 ELSE (f[e] - 1) - 0 + 1
        BY <2>1, FS_Interval
    <2> QED BY <1>3, <2>2
<1> DEFINE all == 0 .. f[e] - 1
           before == Before(q, e)
<1>9. /\ IsFiniteSet(all) /\ Cardinality(all) = f[e] /\ g \in [before -> all]
      /\ \A c, d \in before : c # d => g[c] # g[d]
      /\ \A k \in all : \E d \in before : g[d] = k
    BY <1>5, <1>6, <1>7, <1>8
<1> HIDE DEF all, before, g, n
<1>10. Cardinality(before) = Cardinality(all)
    BY <1>9, OneToOne
<1> QED BY <1>3, <1>9, <1>10 DEF before

\* A page holds at most its size.
LEMMA PageFits ==
    ASSUME TypeOK, NEW q \in Query, q.page # 0,
           NEW f \in Positions(q, Filtered(q)), NEW page,
           page = {e \in Filtered(q) : f[e] \in Offset(q) .. Offset(q) + q.perPage - 1}
    PROVE  Cardinality(page) <= q.perPage
<1> DEFINE first == Offset(q)
           last == Offset(q) + q.perPage - 1
           g == [e \in page |-> f[e]]
<1>1. first \in Int /\ last \in Int /\ q.perPage \in Nat /\ last - first + 1 = q.perPage
    <2>1. q.page \in Nat /\ q.perPage \in Nat
        BY DEF Query, Queried
    <2>2. Offset(q) \in Int
        BY <2>1 DEF Offset
    <2> QED BY <2>1, <2>2
<1>2. g \in [page -> first .. last]
    OBVIOUS
<1>3. \A d, e \in page : d # e => g[d] # g[e]
    BY DEF Positions
<1> HIDE DEF first, last, g
<1>4. /\ IsFiniteSet(first .. last)
      /\ Cardinality(first .. last) = IF first > last THEN 0 ELSE last - first + 1
    BY <1>1, FS_Interval
<1> DEFINE all == first .. last
<1>5. IsFiniteSet(all) /\ g \in [page -> all]
    BY <1>2, <1>4
<1> HIDE DEF all
<1>6. Cardinality(page) <= Cardinality(all)
    BY <1>3, <1>5, OneToOne
<1> QED BY <1>1, <1>4, <1>6 DEF all

\* Up to the last page that a total promises, there is a row at the page's offset.
LEMMA OffsetWithinTotal ==
    ASSUME NEW q \in Query, NEW total \in Nat, q.page # 0, q.perPage # 0,
           q.page <= TotalPages(total, q)
    PROVE  Offset(q) \in Nat /\ Offset(q) < total
<1>1. q.page \in Nat \ {0} /\ q.perPage \in Nat \ {0}
    BY DEF Query, Queried
<1> DEFINE g == q.page
           p == q.perPage
<1>2. g \in Nat \ {0} /\ p \in Nat \ {0} /\ g <= (total + p - 1) \div p
    BY <1>1 DEF TotalPages
<1> HIDE DEF g, p
<1>3. (g - 1) * p \in Nat /\ (g - 1) * p < total
    BY <1>2
<1> QED BY <1>3 DEF Offset, g, p

-----------------------------------------------------------------------------
(* Types *)

LEMMA NoCallIsTyped ==
    /\ NoQuery \in Query /\ NoQuery.page = 1
    /\ NoQuery.perPage \in 1 .. MaxPageSize
    /\ NoCall \in Call /\ NoCall.query = NoQuery /\ Cardinality(NoCall.items) = 0
    /\ NoWalk \in Walk
<1>1. NoQuery \in Query /\ NoQuery.page = 1 /\ NoQuery.perPage \in 1 .. MaxPageSize
    BY AdminLoginsAssumption DEF NoQuery, Query, Queried
<1>2. NoCall \in Call /\ NoCall.query = NoQuery
    BY <1>1 DEF NoCall, Call
<1>3. NoWalk \in Walk
    BY <1>1 DEF NoWalk, Walk
<1> QED BY <1>1, <1>2, <1>3, FS_EmptySet DEF NoCall

\* Up to its refusals, a query is made one that names its page and its size.
LEMMA AcceptedIsTyped ==
    ASSUME NEW q \in Queries, ~Refused(q)
    PROVE  /\ Normalized(q) \in Query
           /\ Normalized(q).page \in Nat \ {0}
           /\ Normalized(q).perPage \in 1 .. MaxPageSize
<1>1. PICK a \in Asked, p \in -1 .. MaxPage : q = [a EXCEPT !.page = p]
    BY DEF Queries
<1>2. q \in AdminLoginQuery
    BY <1>1, AdminLoginsAssumption DEF AdminLoginQuery, Queried
<1>3. q.page \in Nat /\ q.perPage \in Nat /\ q.perPage <= MaxPageSize
    BY <1>2, AdminLoginsAssumption DEF Refused, AdminLoginQuery, Queried
<1> DEFINE n == Normalized(q)
<1>4. n \in Query
    BY <1>2, <1>3, AdminLoginsAssumption DEF Normalized, AdminLoginQuery, Query, Queried
<1>5. n.page = (IF q.page = 0 THEN 1 ELSE q.page)
      /\ n.perPage = (IF q.perPage = 0 THEN DefaultPageSize ELSE q.perPage)
    BY <1>2 DEF Normalized, AdminLoginQuery, Queried
<1> HIDE DEF n
<1>6. n.page \in Nat \ {0}
    BY <1>3, <1>5
<1>7. n.perPage \in 1 .. MaxPageSize
    BY <1>3, <1>5, AdminLoginsAssumption
<1> QED BY <1>4, <1>6, <1>7 DEF n

\* What TypeOK says of the administrator's request and of its walk.
CallOK ==
    /\ call \in Call
    /\ walk \in Walk
    /\ call.query.perPage \in 1 .. MaxPageSize
    /\ Cardinality(call.items) <= call.query.perPage

LEMMA TablesStayTyped ==
    ASSUME TypeOK, CallOK',
           now' \in Nat, users' \in [User -> Email \cup {Gone}], changes' \in Nat,
           audit' \cup writing' \subseteq audit \cup writing
    PROVE  TypeOK'
BY DEF TypeOK, CallOK

LEMMA LogStaysTyped ==
    ASSUME TypeOK, NEW u \in User, NEW a \in Actions, Log(u, a)
    PROVE  TypeOK'
<1>1. PICK id \in Id \ {e.id : e \in audit \cup writing} :
        writing' = writing \cup
            {[id |-> id, at |-> now, user |-> u, email |-> users[u], action |-> a]}
    BY DEF Log
<1> DEFINE new == [id |-> id, at |-> now, user |-> u, email |-> users[u], action |-> a]
<1>2. UNCHANGED <<now, users, audit, call, changes, walk>>
    BY DEF Log
<1>3. users[u] \in Email /\ now \in Nat
    BY DEF Log, TypeOK
<1>4. new \in Entry /\ new.id = id
    BY <1>3 DEF Entry
<1>5. \A e \in audit \cup writing : e.id # new.id
    BY <1>1, <1>4
<1>6. writing' = writing \cup {new}
    BY <1>1
<1> HIDE DEF new
<1>7. writing' \subseteq Entry
    BY <1>4, <1>6 DEF TypeOK
<1>8. \A d, e \in audit' \cup writing' : d.id = e.id => d = e
    <2>1. audit' \cup writing' = (audit \cup writing) \cup {new}
        BY <1>2, <1>6
    <2>2. \A d, e \in audit \cup writing : d.id = e.id => d = e
        BY DEF TypeOK
    <2> QED BY <1>5, <2>1, <2>2
<1> QED BY <1>2, <1>7, <1>8 DEF TypeOK

LEMMA AskStaysTyped ==
    ASSUME TypeOK, NEW q \in Queries, Ask(q)
    PROVE  TypeOK'
<1> DEFINE n == Normalized(q)
<1>1. call' = (IF Refused(q) THEN [NoCall EXCEPT !.stage = "refused"]
               ELSE [NoCall EXCEPT !.stage = "count", !.query = n])
    BY DEF Ask, Statements
<1>2. CASE Refused(q)
    <2>1. call' = [NoCall EXCEPT !.stage = "refused"] /\ walk' = walk
        BY <1>1, <1>2 DEF Ask
    <2>2. call' \in Call /\ call'.query = NoQuery /\ call'.items = NoCall.items
        BY <2>1, NoCallIsTyped DEF Call
    <2>3. CallOK'
        <3>1. walk' \in Walk
            BY <2>1 DEF TypeOK
        <3>2. call'.query.perPage \in 1 .. MaxPageSize
            BY <2>2, NoCallIsTyped
        <3>3. Cardinality(call'.items) <= call'.query.perPage
            <4>1. Cardinality(call'.items) = 0
                BY <2>2, NoCallIsTyped
            <4> QED BY <3>2, <4>1
        <3> QED BY <2>2, <3>1, <3>2, <3>3 DEF CallOK
    <2> QED BY <2>3, TablesStayTyped DEF Ask, TypeOK
<1>3. CASE ~Refused(q)
    <2>1. n \in Query /\ n.perPage \in 1 .. MaxPageSize
        BY <1>3, AcceptedIsTyped
    <2>2. call' = [NoCall EXCEPT !.stage = "count", !.query = n]
        BY <1>1, <1>3
    <2>3. walk' \in {walk, NoWalk,
                     [NoWalk EXCEPT !.on = TRUE, !.query = n, !.from = Filtered(n)]}
        BY <1>3 DEF Ask
    <2>4. Filtered(n) \subseteq Entry
        BY FilteredIsFinite
    <2> HIDE DEF n
    <2>5. call' \in Call /\ call'.query = n /\ call'.items = NoCall.items
        BY <2>1, <2>2, NoCallIsTyped DEF Call
    <2>6. [NoWalk EXCEPT !.on = TRUE, !.query = n, !.from = Filtered(n)] \in Walk
        BY <2>1, <2>4, NoCallIsTyped DEF Walk
    <2>7. walk' \in Walk
        BY <2>3, <2>6, NoCallIsTyped DEF TypeOK
    <2>8. Cardinality(call'.items) <= call'.query.perPage
        <3>1. Cardinality(call'.items) = 0
            BY <2>5, NoCallIsTyped
        <3> QED BY <2>1, <2>5, <3>1
    <2>9. CallOK'
        BY <2>1, <2>5, <2>7, <2>8 DEF CallOK
    <2> QED BY <2>9, TablesStayTyped DEF Ask, TypeOK
<1> QED BY <1>2, <1>3

LEMMA CountStaysTyped ==
    ASSUME TypeOK, Count
    PROVE  TypeOK'
<1> DEFINE total == Cardinality(Filtered(call.query))
<1>1. total \in Nat
    BY FilteredIsFinite
<1>2. call' = [call EXCEPT !.stage = "rows", !.total = total] /\ walk' = walk
    BY DEF Count, After, Statements
<1> HIDE DEF total
<1>3. call \in Call
    BY DEF TypeOK
<1>4. call' \in Call /\ call'.query = call.query /\ call'.items = call.items
    BY <1>1, <1>2, <1>3 DEF Call
<1>5. CallOK'
    BY <1>2, <1>4 DEF CallOK, TypeOK
<1> QED BY <1>5, TablesStayTyped DEF Count, TypeOK

\* What Rows reads, of the positions it finds the rows in.
ReadPage(f, page) ==
    /\ f \in Positions(call.query, Filtered(call.query))
    /\ page = {e \in Filtered(call.query) :
                 f[e] \in Offset(call.query) .. Offset(call.query) + call.query.perPage - 1}
    /\ call' = [call EXCEPT !.stage = "answered", !.items = page]
    /\ walk' = [walk EXCEPT !.read = IF walk.on THEN call.query.page ELSE @,
                            !.seen = IF walk.on THEN @ \cup page ELSE @]

LEMMA RowsReadAPage ==
    ASSUME Rows
    PROVE  \E f, page : ReadPage(f, page)
<1> DEFINE q == call.query
           Page(f) == {e \in Filtered(q) : f[e] \in Offset(q) .. Offset(q) + q.perPage - 1}
<1>1. PICK f \in Positions(q, Filtered(q)) :
        /\ call' = [call EXCEPT !.stage = After("rows"), !.items = Page(f)]
        /\ walk' = [walk EXCEPT !.read = IF walk.on THEN q.page ELSE @,
                                !.seen = IF walk.on THEN @ \cup Page(f) ELSE @]
    BY DEF Rows
<1>2. After("rows") = "answered"
    BY DEF After, Statements
<1>3. ReadPage(f, Page(f))
    BY <1>1, <1>2 DEF ReadPage
<1> QED BY <1>3

LEMMA RowsStayTyped ==
    ASSUME TypeOK, call.query.page # 0, Rows
    PROVE  TypeOK'
<1>1. PICK f, page : ReadPage(f, page)
    BY RowsReadAPage
<1>2. call \in Call /\ walk \in Walk /\ call.query \in Query
    BY DEF TypeOK, Call
<1>3. page \subseteq Entry
    BY <1>1, FilteredIsFinite DEF ReadPage
<1>4. Cardinality(page) <= call.query.perPage
    <2>1. /\ f \in Positions(call.query, Filtered(call.query))
          /\ page = {e \in Filtered(call.query) :
                 f[e] \in Offset(call.query) .. Offset(call.query) + call.query.perPage - 1}
        BY <1>1 DEF ReadPage
    <2> QED BY <1>2, <2>1, PageFits
<1>5. call' \in Call /\ call'.query = call.query /\ call'.items = page
    BY <1>1, <1>2, <1>3 DEF ReadPage, Call
<1>6. walk' \in Walk
    <2>1. call.query.page \in Nat
        BY <1>2 DEF Query, Queried
    <2> QED BY <1>1, <1>2, <1>3, <2>1 DEF ReadPage, Walk
<1>7. CallOK'
    BY <1>4, <1>5, <1>6 DEF CallOK, TypeOK
<1> QED BY <1>7, TablesStayTyped DEF Rows, TypeOK

LEMMA TypeStays ==
    ASSUME TypeOK, call.query.page # 0, [Next]_vars
    PROVE  TypeOK'
<1>1. ASSUME UNCHANGED vars PROVE TypeOK'
    BY <1>1 DEF vars, TypeOK
<1>2. ASSUME NEW u \in User, NEW a \in Actions, Log(u, a) PROVE TypeOK'
    BY <1>2, LogStaysTyped
<1>3. ASSUME NEW e \in writing, LogWritten(e) \/ LogFails(e) PROVE TypeOK'
    BY <1>3, TablesStayTyped DEF LogWritten, LogFails, TypeOK, CallOK
<1>4. ASSUME NEW u \in User, NEW m \in Email \cup {Gone}, ChangeUser(u, m) PROVE TypeOK'
    <2>1. /\ call' = [call EXCEPT !.moved = @ \/ call.stage = "rows"]
          /\ walk' = [walk EXCEPT !.moved = @ \/ walk.on]
          /\ UNCHANGED <<now, audit, writing>>
          /\ users' = [users EXCEPT ![u] = m] /\ changes' = changes + 1
        BY <1>4 DEF ChangeUser
    <2>2. call' \in Call /\ walk' \in Walk
          /\ call'.query = call.query /\ call'.items = call.items
        BY <2>1 DEF TypeOK, Call, Walk
    <2>3. CallOK'
        BY <2>2 DEF CallOK, TypeOK
    <2>4. users' \in [User -> Email \cup {Gone}] /\ changes' \in Nat
        BY <2>1 DEF TypeOK
    <2> QED BY <2>1, <2>3, <2>4, TablesStayTyped DEF TypeOK
<1>5. ASSUME Tick PROVE TypeOK'
    BY <1>5, TablesStayTyped DEF Tick, TypeOK, CallOK
<1>6. ASSUME NEW q \in Queries, Ask(q) PROVE TypeOK'
    BY <1>6, AskStaysTyped
<1>7. ASSUME Count PROVE TypeOK'
    BY <1>7, CountStaysTyped
<1>8. ASSUME Rows PROVE TypeOK'
    BY <1>8, RowsStayTyped
<1>9. ASSUME Fail PROVE TypeOK'
    <2>1. call' = [call EXCEPT !.stage = "failed"] /\ walk' = walk
        BY <1>9 DEF Fail
    <2>2. call' \in Call /\ call'.query = call.query /\ call'.items = call.items
        BY <2>1 DEF TypeOK, Call
    <2>3. CallOK'
        BY <2>1, <2>2 DEF CallOK, TypeOK
    <2> QED BY <1>9, <2>3, TablesStayTyped DEF Fail, TypeOK
<1>10. ASSUME Close PROVE TypeOK'
    <2>1. call' = NoCall /\ walk' = walk
        BY <1>10 DEF Close
    <2>2. NoCall.query.perPage \in 1 .. MaxPageSize
          /\ Cardinality(NoCall.items) <= NoCall.query.perPage
        BY NoCallIsTyped
    <2>3. CallOK'
        BY <2>1, <2>2, NoCallIsTyped DEF CallOK, TypeOK
    <2> QED BY <1>10, <2>3, TablesStayTyped DEF Close, TypeOK
<1> QED BY <1>1, <1>2, <1>3, <1>4, <1>5, <1>6, <1>7, <1>8, <1>9, <1>10 DEF Next

-----------------------------------------------------------------------------
(* One lemma per kind of step *)

\* Entries only arrive, and no user's address matters without a filter on users.
LEMMA FilteredGrows ==
    ASSUME NEW q, audit \subseteq audit', users' = users \/ q.user = Any
    PROVE  Filtered(q) \subseteq Filtered(q)'
BY DEF Filtered, UserEmail

\* Where the walk does not move on, rows that arrive push back what it has not
\* seen, if they do anything.
LEMMA StandsStill ==
    ASSUME TypeOK, TypeOK', Stands, NEW q, q = walk.query,
           walk'.on => walk.on, walk'.query = walk.query, walk'.read = walk.read,
           walk'.from = walk.from, walk'.seen = walk.seen,
           walk'.on /\ ~walk'.moved => ~walk.moved,
           walk'.on /\ (q.user = Any \/ ~walk'.moved) => Filtered(q) \subseteq Filtered(q)'
    PROVE  Stands'
<1>1. Filtered(walk.query)' = Filtered(q)'
    BY DEF Filtered, UserEmail
<1>2. \A e : Before(walk.query, e)' = Before(q, e)'
    BY <1>1 DEF Before, Precedes, Older
<1> SUFFICES ASSUME walk'.on, q.user = Any \/ ~walk'.moved
             PROVE  /\ walk.from \subseteq Filtered(q)'
                    /\ \A e \in walk.from \ walk.seen :
                         walk.read * q.perPage <= Cardinality(Before(q, e)')
    BY <1>1, <1>2 DEF Stands
<1>3. /\ walk.from \subseteq Filtered(q)
      /\ \A e \in walk.from \ walk.seen :
           walk.read * q.perPage <= Cardinality(Before(q, e))
    BY DEF Stands
<1>4. ASSUME NEW e \in walk.from \ walk.seen
      PROVE  walk.read * q.perPage <= Cardinality(Before(q, e)')
    <2>1. Before(q, e) \in SUBSET Before(q, e)'
        BY DEF Before, Precedes, Older
    <2>2. Cardinality(Before(q, e)) \in Nat
        BY BeforeIsFinite
    <2>3. IsFiniteSet(Before(q, e)') /\ Cardinality(Before(q, e)') \in Nat
        <3>1. IsFiniteSet(audit')
            BY EntriesAreFinite DEF TypeOK
        <3>2. Before(q, e)' \in SUBSET audit'
            BY DEF Before, Filtered
        <3>3. IsFiniteSet(Before(q, e)')
            BY <3>1, <3>2, FS_Subset
        <3> QED BY <3>3, FS_CardinalityType
    <2>4. Cardinality(Before(q, e)) <= Cardinality(Before(q, e)')
        BY <2>1, <2>3, FS_Subset
    <2>5. walk.read * q.perPage \in Nat
        BY DEF TypeOK, Walk, Query, Queried
    <2>6. walk.read * q.perPage <= Cardinality(Before(q, e))
        BY <1>3
    <2> QED BY <2>2, <2>3, <2>4, <2>5, <2>6
<1> QED BY <1>3, <1>4

\* So does the count, while the rows are still to be read.
LEMMA CountStands ==
    ASSUME TypeOK, TypeOK', Counted, NEW q, q = call.query, call'.query = call.query,
           call'.stage = "rows" /\ (q.user = Any \/ ~call'.moved) =>
               /\ call.stage = "rows" /\ (q.user = Any \/ ~call.moved)
               /\ call'.total = call.total
               /\ Filtered(q) \subseteq Filtered(q)'
    PROVE  Counted'
<1>1. Filtered(call.query)' = Filtered(q)'
    BY DEF Filtered, UserEmail
<1> SUFFICES ASSUME call'.stage = "rows", q.user = Any \/ ~call'.moved
             PROVE  call'.total <= Cardinality(Filtered(q)')
    BY <1>1 DEF Counted
<1>2. call.total <= Cardinality(Filtered(q)) /\ call'.total = call.total
    BY DEF Counted
<1>3. IsFiniteSet(Filtered(q)') /\ Cardinality(Filtered(q)') \in Nat
    <2>1. IsFiniteSet(audit')
        BY EntriesAreFinite DEF TypeOK
    <2>2. Filtered(q)' \in SUBSET audit'
        BY DEF Filtered
    <2>3. IsFiniteSet(Filtered(q)')
        BY <2>1, <2>2, FS_Subset
    <2> QED BY <2>3, FS_CardinalityType
<1>4. /\ Cardinality(Filtered(q)) \in Nat
      /\ Cardinality(Filtered(q)) <= Cardinality(Filtered(q)')
    <2>1. Filtered(q) \in SUBSET Filtered(q)'
        OBVIOUS
    <2> QED BY <2>1, <1>3, FS_Subset, FilteredIsFinite
<1>5. call.total \in Nat
    BY DEF TypeOK, Call
<1> QED BY <1>2, <1>3, <1>4, <1>5

\* While only entries arrive and the clock moves.
LEMMA TableSteps ==
    ASSUME IInv, TypeOK', users' = users, audit \subseteq audit',
           call' = call, walk' = walk
    PROVE  IInv'
<1>1. PICK q, w : q = call.query /\ w = walk.query
    OBVIOUS
<1>2. Filtered(q) \subseteq Filtered(q)' /\ Filtered(w) \subseteq Filtered(w)'
    BY FilteredGrows
<1>3. Counted'
    BY <1>1, <1>2, CountStands DEF IInv
<1>4. Stands'
    BY <1>1, <1>2, StandsStill DEF IInv
<1>5. ReadsOn' /\ PromisedPagesHaveRows'
    BY DEF IInv, ReadsOn, Continues, PromisedPagesHaveRows, TotalPages
<1> QED BY <1>3, <1>4, <1>5 DEF IInv

\* A user who changes is noted wherever the rows may no longer be those counted.
LEMMA UserSteps ==
    ASSUME IInv, TypeOK', NEW u \in User, NEW m \in Email \cup {Gone}, ChangeUser(u, m)
    PROVE  IInv'
<1>1. PICK q, w : q = call.query /\ w = walk.query
    OBVIOUS
<1>2. call \in Call /\ walk \in Walk
    BY DEF IInv, TypeOK
<1>3. /\ call'.stage = call.stage /\ call'.query = call.query /\ call'.total = call.total
      /\ call'.items = call.items /\ call'.moved = (call.moved \/ call.stage = "rows")
    BY <1>2 DEF ChangeUser, Call
<1>4. /\ walk'.on = walk.on /\ walk'.query = walk.query /\ walk'.read = walk.read
      /\ walk'.from = walk.from /\ walk'.seen = walk.seen
      /\ walk'.moved = (walk.moved \/ walk.on)
    BY <1>2 DEF ChangeUser, Walk
<1>5. audit' = audit
    BY DEF ChangeUser
<1>6. /\ q.user = Any => Filtered(q) \subseteq Filtered(q)'
      /\ w.user = Any => Filtered(w) \subseteq Filtered(w)'
    BY <1>5, FilteredGrows
<1>7. Counted'
    BY <1>1, <1>3, <1>6, CountStands DEF IInv
<1>8. Stands'
    BY <1>1, <1>4, <1>6, StandsStill DEF IInv
<1>9. ReadsOn'
    BY <1>3, <1>4 DEF IInv, ReadsOn, Continues
<1>10. PromisedPagesHaveRows'
    BY <1>3 DEF IInv, PromisedPagesHaveRows, TotalPages
<1> QED BY <1>7, <1>8, <1>9, <1>10 DEF IInv

\* A request ends, or one is refused: the walk stands where it stood.
LEMMA ClosedSteps ==
    ASSUME IInv, TypeOK', UNCHANGED <<users, audit, walk>>,
           call'.query.page \in Nat \ {0}, call'.stage \in {"idle", "refused", "failed"}
    PROVE  IInv'
<1>1. PICK w : w = walk.query
    OBVIOUS
<1>2. Filtered(w) \subseteq Filtered(w)'
    BY FilteredGrows
<1>3. Stands'
    BY <1>1, <1>2, StandsStill DEF IInv
<1>4. Counted' /\ ReadsOn' /\ PromisedPagesHaveRows'
    BY DEF Counted, ReadsOn, PromisedPagesHaveRows
<1> QED BY <1>3, <1>4 DEF IInv

LEMMA CountSteps ==
    ASSUME IInv, TypeOK', Count
    PROVE  IInv'
<1>1. PICK q, w : q = call.query /\ w = walk.query
    OBVIOUS
<1>2. call' = [call EXCEPT !.stage = "rows", !.total = Cardinality(Filtered(q))]
    BY <1>1 DEF Count, After, Statements
<1>3. UNCHANGED <<users, audit, walk>> /\ call.stage = "count"
    BY DEF Count
<1>4. call'.stage = "rows" /\ call'.query = q /\ call'.total = Cardinality(Filtered(q))
    BY <1>1, <1>2 DEF IInv, TypeOK, Call
<1>5. Filtered(call.query)' = Filtered(q)
    BY <1>3, <1>4 DEF Filtered, UserEmail
<1>6. Counted'
    <2>1. Cardinality(Filtered(q)) \in Nat
        BY FilteredIsFinite DEF IInv
    <2> QED BY <1>1, <1>4, <1>5, <2>1 DEF IInv, Counted
<1>7. Stands'
    <2>1. Filtered(w) \subseteq Filtered(w)'
        BY <1>3, FilteredGrows
    <2> QED BY <1>1, <1>3, <2>1, StandsStill DEF IInv
<1>8. ReadsOn'
    BY <1>1, <1>3, <1>4 DEF IInv, ReadsOn, Continues
<1>9. PromisedPagesHaveRows'
    BY <1>4 DEF PromisedPagesHaveRows
<1> QED BY <1>6, <1>7, <1>8, <1>9 DEF IInv

\* A query goes on with the walk, begins one, or ends it.
LEMMA AskSteps ==
    ASSUME IInv, TypeOK', NEW asked \in Queries, Ask(asked)
    PROVE  IInv'
<1>1. UNCHANGED <<users, audit>>
    BY DEF Ask
<1>2. CASE Refused(asked)
    <2>1. call' = [NoCall EXCEPT !.stage = "refused"] /\ walk' = walk
        BY <1>2 DEF Ask
    <2>2. call'.query = NoQuery /\ call'.stage = "refused"
        BY <2>1 DEF NoCall
    <2> QED BY <1>1, <2>1, <2>2, NoCallIsTyped, ClosedSteps
<1>3. CASE ~Refused(asked)
    <2>1. PICK n : n = Normalized(asked)
        OBVIOUS
    <2>2. n \in Query /\ n.page \in Nat \ {0}
        BY <1>3, <2>1, AcceptedIsTyped
    <2>3. call' = [NoCall EXCEPT !.stage = "count", !.query = n]
        BY <1>3, <2>1 DEF Ask, Statements
    <2>4. call'.stage = "count" /\ call'.query = n
        BY <2>3 DEF NoCall
    <2>5. Counted' /\ PromisedPagesHaveRows'
        BY <2>2, <2>4 DEF Counted, PromisedPagesHaveRows
    <2>6. CASE Continues(n)
        <3>1. walk' = walk
            BY <1>3, <2>1, <2>6 DEF Ask
        <3>2. PICK w : w = walk.query
            OBVIOUS
        <3>3. Filtered(w) \subseteq Filtered(w)'
            BY <1>1, FilteredGrows
        <3>4. Stands'
            BY <3>1, <3>2, <3>3, StandsStill DEF IInv
        <3>5. ReadsOn'
            BY <2>4, <2>6, <3>1 DEF ReadsOn, Continues
        <3> QED BY <2>5, <3>4, <3>5 DEF IInv
    <2>7. CASE ~Continues(n) /\ n.page = 1
        <3>1. walk' = [NoWalk EXCEPT !.on = TRUE, !.query = n, !.from = Filtered(n)]
            BY <1>3, <2>1, <2>7 DEF Ask
        <3>2. /\ walk'.on /\ walk'.query = n /\ walk'.read = 0
              /\ walk'.from = Filtered(n)
            BY <3>1 DEF NoWalk
        <3>3. n = [n EXCEPT !.page = 0 + 1]
            BY <2>2, <2>7 DEF Query, Queried
        <3>4. ReadsOn'
            BY <2>4, <3>2, <3>3 DEF ReadsOn, Continues
        <3>5. Filtered(walk.query)' = Filtered(n)
            BY <1>1, <3>2 DEF Filtered, UserEmail
        <3>6. ASSUME NEW e
              PROVE  walk'.read * walk'.query.perPage <= Cardinality(Before(walk.query, e)')
            <4>1. Before(walk.query, e)' = Before(n, e)
                BY <3>2, <3>5 DEF Before, Precedes, Older
            <4>2. Cardinality(Before(n, e)) \in Nat
                BY BeforeIsFinite DEF IInv
            <4>3. walk'.read * walk'.query.perPage = 0
                BY <2>2, <3>2 DEF Query, Queried
            <4> QED BY <4>1, <4>2, <4>3
        <3>7. Stands'
            BY <3>2, <3>5, <3>6 DEF Stands
        <3> QED BY <2>5, <3>4, <3>7 DEF IInv
    <2>8. CASE ~Continues(n) /\ n.page # 1
        <3>1. walk' = NoWalk
            BY <1>3, <2>1, <2>8 DEF Ask
        <3>2. ~walk'.on
            BY <3>1 DEF NoWalk
        <3> QED BY <2>5, <3>2 DEF IInv, ReadsOn, Stands
    <2> QED BY <2>6, <2>7, <2>8
<1> QED BY <1>2, <1>3

\* A page that the count promised shows a row.
LEMMA PromisedPageHasRows ==
    ASSUME IInv, NEW f, NEW page, ReadPage(f, page), call.stage = "rows",
           call.query.user = Any \/ ~call.moved,
           call.query.page <= TotalPages(call.total, call.query)
    PROVE  page # {}
<1>1. PICK q : q = call.query
    OBVIOUS
<1> DEFINE rows == Filtered(q)
<1>2. q \in Query /\ call.total \in Nat /\ q.page # 0 /\ q.perPage \in Nat \ {0}
    BY <1>1, AdminLoginsAssumption DEF IInv, TypeOK, Call, Counted
<1>3. Offset(q) \in Nat /\ Offset(q) < call.total
    BY <1>1, <1>2, OffsetWithinTotal
<1>4. call.total <= Cardinality(rows) /\ Cardinality(rows) \in Nat
    BY <1>1, FilteredIsFinite DEF IInv, Counted
<1>5. Offset(q) \in 0 .. Cardinality(rows) - 1
    <2> HIDE DEF rows
    <2> QED BY <1>2, <1>3, <1>4
<1>6. f \in Positions(q, rows) /\ TypeOK
    BY <1>1 DEF ReadPage, IInv
<1>7. PICK d \in rows : f[d] = Offset(q)
    BY <1>5, <1>6, PositionsAreFilled
<1>8. f[d] \in Offset(q) .. Offset(q) + q.perPage - 1
    BY <1>2, <1>3, <1>7
<1> QED BY <1>1, <1>7, <1>8 DEF ReadPage

\* A page is read: what is unseen after it comes after its last row.
LEMMA RowsSteps ==
    ASSUME IInv, TypeOK', Rows
    PROVE  IInv'
<1>1. PICK f, page : ReadPage(f, page)
    BY RowsReadAPage
<1>2. UNCHANGED <<users, audit>> /\ call.stage = "rows"
    BY DEF Rows
<1>3. call \in Call /\ walk \in Walk /\ call.query \in Query /\ walk.query \in Query
    BY DEF IInv, TypeOK, Call, Walk
<1>4. /\ call'.stage = "answered" /\ call'.query = call.query /\ call'.items = page
      /\ call'.total = call.total /\ call'.moved = call.moved
    BY <1>1, <1>3 DEF ReadPage, Call
<1>5. /\ walk'.on = walk.on /\ walk'.query = walk.query /\ walk'.moved = walk.moved
      /\ walk'.from = walk.from
      /\ walk.on => walk'.read = call.query.page /\ walk'.seen = walk.seen \cup page
    BY <1>1, <1>3 DEF ReadPage, Walk
<1>6. Counted' /\ ReadsOn'
    BY <1>4 DEF IInv, Counted, ReadsOn
<1>7. PromisedPagesHaveRows'
    <2>1. TotalPages(call.total, call.query)' = TotalPages(call.total, call.query)
        BY <1>4 DEF TotalPages
    <2> QED BY <1>1, <1>2, <1>4, <2>1, PromisedPageHasRows DEF PromisedPagesHaveRows
<1>8. Stands'
    <2> SUFFICES ASSUME walk.on, walk.query.user = Any \/ ~walk.moved PROVE Stands'
        BY <1>5 DEF Stands
    <2>1. PICK w, q : w = walk.query /\ q = call.query
        OBVIOUS
    <2>2. q = [w EXCEPT !.page = walk.read + 1] /\ w \in Query /\ walk.read \in Nat
        BY <1>2, <1>3, <2>1 DEF IInv, ReadsOn, Continues, Walk
    <2>3. /\ q.page = walk.read + 1 /\ q.perPage = w.perPage /\ q.sort = w.sort
          /\ q.user = w.user /\ q.method = w.method
          /\ w.perPage \in Nat
        BY <2>2 DEF Query, Queried
    <2>4. Filtered(q) = Filtered(w) /\ Filtered(walk.query)' = Filtered(w)
        BY <1>2, <1>5, <2>1, <2>3 DEF Filtered, UserEmail, MethodAction
    <2>5. \A e : Before(q, e) = Before(w, e) /\ Before(walk.query, e)' = Before(w, e)
        BY <1>5, <2>1, <2>3, <2>4 DEF Before, Precedes, Older
    <2>6. /\ walk.from \subseteq Filtered(w)
          /\ \A e \in walk.from \ walk.seen :
               walk.read * w.perPage <= Cardinality(Before(w, e))
        BY <2>1 DEF IInv, Stands
    <2>7. ASSUME NEW e \in walk.from \ (walk.seen \cup page)
          PROVE  (walk.read + 1) * w.perPage <= Cardinality(Before(w, e))
        <3>1. /\ f \in Positions(q, Filtered(q)) /\ e \in Filtered(q)
              /\ f[e] \notin Offset(q) .. Offset(q) + q.perPage - 1
            BY <1>1, <2>1, <2>4, <2>6 DEF ReadPage
        <3>2. f[e] \in Nat /\ Cardinality(Before(q, e)) = f[e]
            BY <3>1, RankIsPosition DEF IInv
        <3>3. walk.read * w.perPage <= f[e]
            BY <2>5, <2>6, <3>2
        <3> DEFINE r == walk.read
                   p == w.perPage
                   x == f[e]
        <3>4. Offset(q) = r * p /\ r \in Nat /\ p \in Nat
            BY <2>2, <2>3 DEF Offset
        <3>5. /\ r \in Nat /\ p \in Nat /\ x \in Nat
              /\ r * p <= x /\ x \notin r * p .. r * p + p - 1
            BY <2>3, <3>1, <3>2, <3>3, <3>4
        <3> HIDE DEF r, p, x
        <3>6. (r + 1) * p <= x
            BY <3>5
        <3> QED BY <2>5, <3>2, <3>6 DEF r, p, x
    <2> QED BY <1>5, <2>1, <2>3, <2>4, <2>5, <2>6, <2>7 DEF Stands
<1> QED BY <1>6, <1>7, <1>8 DEF IInv

-----------------------------------------------------------------------------
(* Theorems *)

LEMMA InitIInv == Init => IInv
<1> SUFFICES ASSUME Init PROVE IInv
    OBVIOUS
<1>1. call = NoCall /\ walk = NoWalk
    BY DEF Init
<1>2. TypeOK
    <2>1. /\ now \in Nat /\ users \in [User -> Email \cup {Gone}] /\ audit \subseteq Entry
          /\ writing \subseteq Entry /\ changes \in Nat
          /\ \A d, e \in audit \cup writing : d.id = e.id => d = e
        BY AdminLoginsAssumption DEF Init
    <2>2. /\ call.query.perPage \in 1 .. MaxPageSize
          /\ Cardinality(call.items) <= call.query.perPage
        BY <1>1, NoCallIsTyped
    <2> QED BY <1>1, <2>1, <2>2, NoCallIsTyped DEF TypeOK
<1>3. Counted /\ ReadsOn /\ PromisedPagesHaveRows
    <2>1. call.stage = "idle" /\ call.query.page = 1
        BY <1>1, NoCallIsTyped DEF NoCall
    <2> QED BY <2>1 DEF Counted, ReadsOn, PromisedPagesHaveRows
<1>4. Stands
    BY <1>1 DEF Stands, NoWalk
<1> QED BY <1>2, <1>3, <1>4 DEF IInv

LEMMA NextKeepsIInv == IInv /\ [Next]_vars => IInv'
<1> SUFFICES ASSUME IInv, [Next]_vars PROVE IInv'
    OBVIOUS
<1>1. TypeOK'
    BY TypeStays DEF IInv, Counted
<1>2. ASSUME UNCHANGED vars PROVE IInv'
    BY <1>1, <1>2, TableSteps DEF vars
<1>3. ASSUME NEW u \in User, NEW a \in Actions, Log(u, a) PROVE IInv'
    BY <1>1, <1>3, TableSteps DEF Log
<1>4. ASSUME NEW e \in writing, LogWritten(e) \/ LogFails(e) PROVE IInv'
    BY <1>1, <1>4, TableSteps DEF LogWritten, LogFails
<1>5. ASSUME NEW u \in User, NEW m \in Email \cup {Gone}, ChangeUser(u, m) PROVE IInv'
    BY <1>1, <1>5, UserSteps
<1>6. ASSUME Tick PROVE IInv'
    BY <1>1, <1>6, TableSteps DEF Tick
<1>7. ASSUME NEW q \in Queries, Ask(q) PROVE IInv'
    BY <1>1, <1>7, AskSteps
<1>8. ASSUME Count PROVE IInv'
    BY <1>1, <1>8, CountSteps
<1>9. ASSUME Rows PROVE IInv'
    BY <1>1, <1>9, RowsSteps
<1>10. ASSUME Fail PROVE IInv'
    <2>1. call'.query = call.query /\ call'.stage = "failed"
        BY <1>10 DEF Fail, IInv, TypeOK, Call
    <2>2. UNCHANGED <<users, audit, walk>>
        BY <1>10 DEF Fail
    <2> QED BY <1>1, <2>1, <2>2, ClosedSteps DEF IInv, Counted
<1>11. ASSUME Close PROVE IInv'
    <2>1. call'.query = NoQuery /\ call'.stage = "idle"
        BY <1>11 DEF Close, NoCall
    <2>2. UNCHANGED <<users, audit, walk>>
        BY <1>11 DEF Close
    <2> QED BY <1>1, <2>1, <2>2, NoCallIsTyped, ClosedSteps
<1> QED BY <1>2, <1>3, <1>4, <1>5, <1>6, <1>7, <1>8, <1>9, <1>10, <1>11 DEF Next

\* The inductive invariant holds of every state the code reaches.
THEOREM InvariantHolds == Spec => []IInv
BY InitIInv, NextKeepsIInv, PTL DEF Spec

\* The table, the request and its walk keep their type, and a page holds at most
\* the rows that List was asked for.
THEOREM AdminLoginsTypeOK == Spec => []TypeOK
<1>1. IInv => TypeOK
    BY DEF IInv
<1> QED BY <1>1, InvariantHolds, PTL

\* No page within the total that List answers is empty, however many entries are
\* written between its two statements, unless a user it filters on changed.
THEOREM AdminLoginsPromisedPagesHaveRows == Spec => []PromisedPagesHaveRows
<1>1. IInv => PromisedPagesHaveRows
    BY DEF IInv
<1> QED BY <1>1, InvariantHolds, PTL

\* Whatever entries arrive between the pages, and in whatever order, no sign-in
\* that was there at the first page falls between two, unless a user whose
\* address decides over the rows changed.
THEOREM AdminLoginsWalkSkipsNothing == Spec => []WalkSkipsNothing
<1>1. IInv => WalkSkipsNothing
    <2> SUFFICES ASSUME IInv, walk.on, walk.query.user = Any \/ ~walk.moved,
                        NEW e \in walk.from \ walk.seen,
                        NEW f \in Positions(walk.query, Filtered(walk.query))
                 PROVE  f[e] >= walk.read * walk.query.perPage
        BY DEF WalkSkipsNothing
    <2>1. /\ e \in Filtered(walk.query)
          /\ walk.read * walk.query.perPage <= Cardinality(Before(walk.query, e))
        BY DEF IInv, Stands
    <2>2. f[e] \in Nat /\ Cardinality(Before(walk.query, e)) = f[e]
        BY <2>1, RankIsPosition DEF IInv
    <2>3. walk.read * walk.query.perPage \in Nat
        BY DEF IInv, TypeOK, Walk, Query, Queried
    <2> QED BY <2>1, <2>2, <2>3
<1> QED BY <1>1, InvariantHolds, PTL

-----------------------------------------------------------------------------
(***************************************************************************)
(* The two-factor columns.  None of their properties is inductive.  A      *)
(* request in flight writes back a secret it read earlier, so the          *)
(* invariant says of that secret what it says of the row: it is sound      *)
(* (Carried).  And a code is consumed once because the row no longer       *)
(* accepts what the ledger of accepted codes holds (Spent), as long as no  *)
(* save has put an earlier row back.                                       *)
(***************************************************************************)

\* data is a row whose secret and codes were generated, and whose secret is
\* proven if the row says it is confirmed.
Sound(data) ==
    /\ data.secret # None => data.secret \in minted.secrets
    /\ data.confirmed => data.secret # None /\ data.secret \in proven
    /\ data.codes \subseteq minted.codes

\* What the requests in flight carry is sound, and Confirm carries a secret.
Carried ==
    \A r \in Request :
        /\ Sound(work[r].row)
        /\ work[r].kind = "confirm" =>
              work[r].row.secret # None /\ work[r].row.secret \in proven

\* What logins consumed, the row does not accept any more.
Spent ==
    /\ accepted.recovery \subseteq minted.codes
    /\ ~reverted =>
          /\ again = {}
          /\ \A code \in accepted.totp : code[2] <= row.lastUsed
          /\ row.codes \cap accepted.recovery = {}

FactorInv == TFTypeOK /\ Sound(row) /\ Carried /\ Spent

-----------------------------------------------------------------------------

LEMMA InitFactorInv == TFInit => FactorInv
<1> SUFFICES ASSUME TFInit PROVE FactorInv
    OBVIOUS
<1>1. NoRow \in Row
    BY DEF NoRow, Row
<1>2. NoWork \in [kind: Kind, row: Row]
    BY <1>1 DEF NoWork, Kind
<1>3. minted \in [secrets: SUBSET Secret, codes: SUBSET Code]
    BY DEF TFInit
<1>4. accepted \in [totp: SUBSET (Secret \X Nat), recovery: SUBSET Code]
    BY DEF TFInit
<1>5. TFTypeOK
    BY <1>1, <1>2, <1>3, <1>4 DEF TFInit, TFTypeOK, NoRow
<1>6. \A r \in Request : work[r] = NoWork
    BY DEF TFInit
<1>7. Sound(NoRow)
    BY DEF Sound, NoRow
<1>8. Carried
    BY <1>6, <1>7 DEF Carried, NoWork
<1> QED BY <1>5, <1>7, <1>8 DEF TFInit, FactorInv, Spent, NoRow

\* What was sound stays sound while the histories grow.
LEMMA SoundStays ==
    ASSUME Carried, work' = work,
           minted.secrets \subseteq minted'.secrets,
           minted.codes \subseteq minted'.codes,
           proven \subseteq proven'
    PROVE  Carried'
  BY DEF Carried, Sound

\* A request that reads the row carries a sound row.
LEMMA ReadsKeepFactorInv ==
    ASSUME FactorInv, NEW r \in Request, NEW kind \in Kind, NEW data \in Row,
           Reads(r, kind, data),
           proven' \in SUBSET Secret, proven \subseteq proven',
           data.secret # None => data.secret \in minted.secrets,
           data.confirmed => data.secret # None /\ data.secret \in proven,
           data.codes \subseteq minted.codes,
           kind = "confirm" => data.secret # None /\ data.secret \in proven'
    PROVE  FactorInv'
<1> DEFINE read == [kind |-> kind, row |-> data]
<1>0. /\ UNCHANGED <<step, row, minted, accepted, again, reverted>>
      /\ work' = [work EXCEPT ![r] = read]
      /\ work \in [Request -> [kind: Kind, row: Row]]
    BY DEF FactorInv, TFTypeOK, Reads
<1>1. TFTypeOK'
    BY <1>0 DEF FactorInv, TFTypeOK
<1>2. Sound(row)'
    BY <1>0 DEF FactorInv, Sound
<1>3. Carried'
    <2> SUFFICES ASSUME NEW q \in Request
                 PROVE  /\ Sound(work[q].row)'
                        /\ work'[q].kind = "confirm" =>
                              work'[q].row.secret # None /\ work'[q].row.secret \in proven'
        BY DEF Carried
    <2>1. CASE q = r
        <3>1. work'[q] = read
            BY <1>0, <2>1
        <3> QED BY <3>1, <1>0 DEF Sound
    <2>2. CASE q # r
        <3>1. work'[q] = work[q]
            BY <1>0, <2>2
        <3> QED BY <3>1, <1>0 DEF FactorInv, Carried, Sound
    <2> QED BY <2>1, <2>2
<1>4. Spent'
    BY <1>0 DEF FactorInv, Spent
<1> QED BY <1>1, <1>2, <1>3, <1>4 DEF FactorInv

\* A request that writes a sound row keeps the ledger if the row it leaves
\* accepts no code that was consumed.
LEMMA WritesKeepFactorInv ==
    ASSUME FactorInv, NEW r \in Request, NEW kind \in Kind, NEW data \in Row,
           Writes(r, kind, data),
           minted' \in [secrets: SUBSET Secret, codes: SUBSET Code],
           minted.secrets \subseteq minted'.secrets,
           minted.codes \subseteq minted'.codes,
           data.secret # None => data.secret \in minted'.secrets,
           data.confirmed => data.secret # None /\ data.secret \in proven,
           data.codes \subseteq minted'.codes,
           reverted' \in BOOLEAN, reverted => reverted',
           ~reverted' => /\ data.lastUsed = row.lastUsed
                         /\ data.codes \cap accepted.recovery = {}
    PROVE  FactorInv'
<1>0. /\ UNCHANGED <<step, proven, accepted, again>>
      /\ row' = data
      /\ work' = [work EXCEPT ![r] = NoWork]
      /\ work \in [Request -> [kind: Kind, row: Row]]
    BY DEF FactorInv, TFTypeOK, Writes
<1>1. TFTypeOK'
    BY <1>0 DEF FactorInv, TFTypeOK, NoWork, NoRow, Row, Kind
<1>2. Sound(row)'
    BY <1>0 DEF Sound
<1>3. Carried'
    <2> SUFFICES ASSUME NEW q \in Request
                 PROVE  /\ Sound(work[q].row)'
                        /\ work'[q].kind = "confirm" =>
                              work'[q].row.secret # None /\ work'[q].row.secret \in proven'
        BY DEF Carried
    <2>1. CASE q = r
        <3>1. work'[q] = NoWork
            BY <1>0, <2>1
        <3> QED BY <3>1 DEF Sound, NoWork, NoRow
    <2>2. CASE q # r
        <3>1. work'[q] = work[q]
            BY <1>0, <2>2
        <3> QED BY <3>1, <1>0 DEF FactorInv, Carried, Sound
    <2> QED BY <2>1, <2>2
<1>4. Spent'
    BY <1>0 DEF FactorInv, Spent
<1> QED BY <1>1, <1>2, <1>3, <1>4 DEF FactorInv

\* Codes that were never generated before were never consumed.
LEMMA FreshCodesAreUnspent ==
    ASSUME FactorInv, NEW codes \in SUBSET Code, FreshCodes(codes)
    PROVE  /\ minted' \in [secrets: SUBSET Secret, codes: SUBSET Code]
           /\ minted.secrets \subseteq minted'.secrets
           /\ minted.codes \subseteq minted'.codes
           /\ codes \subseteq minted'.codes
           /\ codes \cap accepted.recovery = {}
  BY DEF FactorInv, TFTypeOK, Spent, FreshCodes

-----------------------------------------------------------------------------
(* One lemma per operation. *)

LEMMA EnableKeepsFactorInv ==
    ASSUME FactorInv, NEW r \in Request, EnableReads(r) \/ EnableWrites(r)
    PROVE  FactorInv'
<1>1. CASE EnableReads(r)
    <2>1. NoRow \in Row /\ "enable" \in Kind
        BY DEF NoRow, Row, Kind
    <2>2. Reads(r, "enable", NoRow) /\ proven' = proven /\ proven \in SUBSET Secret
        BY <1>1 DEF EnableReads, FactorInv, TFTypeOK
    <2>3. NoRow.secret = None /\ ~NoRow.confirmed /\ NoRow.codes = {}
        BY DEF NoRow
    <2> QED BY <2>1, <2>2, <2>3, ReadsKeepFactorInv
<1>2. CASE EnableWrites(r)
    <2>1. PICK secret \in Secret \ minted.secrets :
              /\ Writes(r, "enable", UpdateTwoFactor(row, secret, {}, FALSE))
              /\ minted' = [minted EXCEPT !.secrets = @ \cup {secret}]
              /\ UNCHANGED reverted
        BY <1>2 DEF EnableWrites
    <2> DEFINE data == UpdateTwoFactor(row, secret, {}, FALSE)
    <2>2. data \in Row /\ "enable" \in Kind
        BY DEF UpdateTwoFactor, FactorInv, TFTypeOK, Row, Kind
    <2>3. /\ data.secret = secret /\ ~data.confirmed /\ data.codes = {}
          /\ data.lastUsed = row.lastUsed
        BY DEF UpdateTwoFactor, FactorInv, TFTypeOK, Row
    <2>4. /\ minted' \in [secrets: SUBSET Secret, codes: SUBSET Code]
          /\ minted.secrets \subseteq minted'.secrets
          /\ minted.codes \subseteq minted'.codes
          /\ secret \in minted'.secrets
          /\ reverted' \in BOOLEAN /\ reverted' = reverted
        BY <2>1 DEF FactorInv, TFTypeOK
    <2> HIDE DEF data
    <2>5. Writes(r, "enable", data)
        BY <2>1 DEF data
    <2> QED BY <2>2, <2>3, <2>4, <2>5, WritesKeepFactorInv
<1> QED BY <1>1, <1>2

LEMMA ConfirmKeepsFactorInv ==
    ASSUME FactorInv, NEW r \in Request, ConfirmReads(r) \/ ConfirmWrites(r)
    PROVE  FactorInv'
<1>1. CASE ConfirmReads(r)
    <2> DEFINE data == Enrollment(row)
    <2>1. data \in Row /\ "confirm" \in Kind
        BY DEF Enrollment, NoRow, FactorInv, TFTypeOK, Row, Kind
    <2>2. data.secret = row.secret /\ data.confirmed = row.confirmed /\ data.codes = {}
        BY DEF Enrollment, NoRow
    <2>3. /\ row.secret # None /\ row.secret \in Secret
          /\ proven' = proven \cup {row.secret} /\ proven' \in SUBSET Secret
        BY <1>1 DEF ConfirmReads, FactorInv, TFTypeOK, Row
    <2>4. Sound(row)
        BY DEF FactorInv
    <2> HIDE DEF data
    <2>5. Reads(r, "confirm", data)
        BY <1>1 DEF ConfirmReads, data
    <2> QED BY <2>1, <2>2, <2>3, <2>4, <2>5, ReadsKeepFactorInv DEF Sound
<1>2. CASE ConfirmWrites(r)
    <2>1. PICK codes \in SUBSET Code :
              /\ FreshCodes(codes)
              /\ Writes(r, "confirm", UpdateTwoFactor(row, ConfirmedSecret(r), codes, TRUE))
              /\ UNCHANGED reverted
        BY <1>2 DEF ConfirmWrites
    <2> DEFINE data == UpdateTwoFactor(row, ConfirmedSecret(r), codes, TRUE)
    <2>2. data \in Row /\ "confirm" \in Kind
        BY DEF UpdateTwoFactor, ConfirmedSecret, FactorInv, TFTypeOK, Row, Kind
    <2>3. /\ data.secret = work[r].row.secret /\ data.codes = codes
          /\ data.lastUsed = row.lastUsed
        BY DEF UpdateTwoFactor, ConfirmedSecret, FactorInv, TFTypeOK, Row
    <2>4. /\ work[r].row.secret # None
          /\ work[r].row.secret \in minted.secrets
          /\ work[r].row.secret \in proven
        BY <2>1 DEF Writes, FactorInv, Carried, Sound
    <2>5. reverted' \in BOOLEAN /\ reverted' = reverted
        BY <2>1 DEF FactorInv, TFTypeOK
    <2> HIDE DEF data
    <2>6. Writes(r, "confirm", data)
        BY <2>1 DEF data
    <2> QED BY <2>1, <2>2, <2>3, <2>4, <2>5, <2>6, FreshCodesAreUnspent, WritesKeepFactorInv
<1> QED BY <1>1, <1>2

LEMMA RegenerateKeepsFactorInv ==
    ASSUME FactorInv, NEW r \in Request, RegenerateReads(r) \/ RegenerateWrites(r)
    PROVE  FactorInv'
<1>1. CASE RegenerateReads(r)
    <2> DEFINE data == Enrollment(row)
    <2>1. data \in Row /\ "regenerate" \in Kind
        BY DEF Enrollment, NoRow, FactorInv, TFTypeOK, Row, Kind
    <2>2. data.secret = row.secret /\ data.confirmed = row.confirmed /\ data.codes = {}
        BY DEF Enrollment, NoRow
    <2>3. proven' = proven /\ proven \in SUBSET Secret
        BY <1>1 DEF RegenerateReads, FactorInv, TFTypeOK
    <2>4. Sound(row)
        BY DEF FactorInv
    <2> HIDE DEF data
    <2>5. Reads(r, "regenerate", data)
        BY <1>1 DEF RegenerateReads, data
    <2> QED BY <2>1, <2>2, <2>3, <2>4, <2>5, ReadsKeepFactorInv DEF Sound
<1>2. CASE RegenerateWrites(r)
    <2> DEFINE read == work[r].row
    <2>1. PICK codes \in SUBSET Code :
              /\ FreshCodes(codes)
              /\ Writes(r, "regenerate", UpdateTwoFactor(row, read.secret, codes, read.confirmed))
              /\ UNCHANGED reverted
        BY <1>2 DEF RegenerateWrites
    <2> DEFINE data == UpdateTwoFactor(row, read.secret, codes, read.confirmed)
    <2>2. data \in Row /\ "regenerate" \in Kind
        BY DEF UpdateTwoFactor, FactorInv, TFTypeOK, Row, Kind
    <2>3. /\ data.secret = read.secret /\ data.codes = codes
          /\ data.confirmed = read.confirmed /\ data.lastUsed = row.lastUsed
        BY DEF UpdateTwoFactor, FactorInv, TFTypeOK, Row
    <2>4. Sound(read)
        BY DEF FactorInv, Carried
    <2>5. reverted' \in BOOLEAN /\ reverted' = reverted
        BY <2>1 DEF FactorInv, TFTypeOK
    <2> HIDE DEF data, read
    <2>6. Writes(r, "regenerate", data)
        BY <2>1 DEF data
    <2> QED BY <2>1, <2>2, <2>3, <2>4, <2>5, <2>6, FreshCodesAreUnspent, WritesKeepFactorInv DEF Sound
<1> QED BY <1>1, <1>2

LEMMA SaveKeepsFactorInv ==
    ASSUME FactorInv, NEW r \in Request, SaveReads(r) \/ SaveWrites(r)
    PROVE  FactorInv'
<1>1. CASE SaveReads(r)
    <2>1. row \in Row /\ "save" \in Kind /\ Sound(row)
        BY DEF FactorInv, TFTypeOK, Kind
    <2>2. Reads(r, "save", row) /\ proven' = proven /\ proven \in SUBSET Secret
        BY <1>1 DEF SaveReads, FactorInv, TFTypeOK
    <2> QED BY <2>1, <2>2, ReadsKeepFactorInv DEF Sound
<1>2. CASE SaveWrites(r)
    <2> DEFINE data == work[r].row
    <2>1. data \in Row /\ "save" \in Kind /\ Sound(data)
        BY DEF FactorInv, TFTypeOK, Carried, Kind
    <2>2. /\ reverted' = (reverted \/ data # row) /\ reverted' \in BOOLEAN
          /\ minted' = minted /\ minted \in [secrets: SUBSET Secret, codes: SUBSET Code]
        BY <1>2 DEF SaveWrites, FactorInv, TFTypeOK
    <2>3. ~reverted => row.codes \cap accepted.recovery = {}
        BY DEF FactorInv, Spent
    <2> HIDE DEF data
    <2>4. Writes(r, "save", data)
        BY <1>2 DEF SaveWrites, data
    <2> QED BY <2>1, <2>2, <2>3, <2>4, WritesKeepFactorInv DEF Sound
<1> QED BY <1>1, <1>2

\* A request that fails carries nothing any more.
LEMMA FailureKeepsFactorInv ==
    ASSUME FactorInv, NEW r \in Request, StatementFails(r)
    PROVE  FactorInv'
<1>0. /\ UNCHANGED <<step, row, minted, proven, accepted, again, reverted>>
      /\ work' = [work EXCEPT ![r] = NoWork]
      /\ work \in [Request -> [kind: Kind, row: Row]]
    BY DEF FactorInv, TFTypeOK, StatementFails
<1>1. TFTypeOK'
    BY <1>0 DEF FactorInv, TFTypeOK, NoWork, NoRow, Row, Kind
<1>2. Sound(row)'
    BY <1>0 DEF FactorInv, Sound
<1>3. Carried'
    <2> SUFFICES ASSUME NEW q \in Request
                 PROVE  /\ Sound(work[q].row)'
                        /\ work'[q].kind = "confirm" =>
                              work'[q].row.secret # None /\ work'[q].row.secret \in proven'
        BY DEF Carried
    <2>1. CASE q = r
        <3>1. work'[q] = NoWork
            BY <1>0, <2>1
        <3> QED BY <3>1 DEF Sound, NoWork, NoRow
    <2>2. CASE q # r
        <3>1. work'[q] = work[q]
            BY <1>0, <2>2
        <3> QED BY <3>1, <1>0 DEF FactorInv, Carried, Sound
    <2> QED BY <2>1, <2>2
<1>4. Spent'
    BY <1>0 DEF FactorInv, Spent
<1> QED BY <1>1, <1>2, <1>3, <1>4 DEF FactorInv

LEMMA DisableKeepsFactorInv == ASSUME FactorInv, Disable PROVE FactorInv'
<1>0. /\ UNCHANGED <<step, work, minted, proven, accepted, again, reverted>>
      /\ row' = [row EXCEPT !.secret = None, !.codes = {}, !.confirmed = FALSE]
      /\ row \in Row
    BY DEF Disable, UpdateTwoFactor, FactorInv, TFTypeOK
<1>1. TFTypeOK'
    BY <1>0 DEF FactorInv, TFTypeOK, Row
<1>2. Sound(row)'
    BY <1>0 DEF Sound, Row
<1>3. Carried'
    BY <1>0, SoundStays DEF FactorInv
<1>4. Spent'
    BY <1>0 DEF FactorInv, Spent, Row
<1> QED BY <1>1, <1>2, <1>3, <1>4 DEF FactorInv

\* An accepted step is newer than all that were accepted, so it is not a repetition.
LEMMA VerifyLoginCodeKeepsFactorInv ==
    ASSUME FactorInv, NEW t \in Matching, VerifyLoginCode(t)
    PROVE  FactorInv'
<1> DEFINE code == <<row.secret, t>>
<1>0. /\ UNCHANGED <<step, work, minted, proven, reverted>>
      /\ row' = [row EXCEPT !.lastUsed = t]
      /\ accepted' = [accepted EXCEPT !.totp = @ \cup {code}]
      /\ again' = IF code \in accepted.totp THEN again \cup {"totp"} ELSE again
      /\ row \in Row /\ t \in Nat /\ row.secret \in Secret /\ t > row.lastUsed
      /\ accepted \in [totp: SUBSET (Secret \X Nat), recovery: SUBSET Code]
    BY DEF VerifyLoginCode, MutateLocked, FactorInv, TFTypeOK, TwoFactorEnabled, Matching, Replayed, Row
<1>1. TFTypeOK'
    <2>1. row' \in Row /\ row'.secret = row.secret /\ row'.confirmed = row.confirmed
        BY <1>0 DEF Row
    <2>2. code \in Secret \X Nat
        BY <1>0
    <2>3. accepted' \in [totp: SUBSET (Secret \X Nat), recovery: SUBSET Code]
        BY <1>0, <2>2
    <2> QED BY <1>0, <2>1, <2>3 DEF FactorInv, TFTypeOK
<1>2. Sound(row)'
    BY <1>0 DEF FactorInv, Sound, Row
<1>3. Carried'
    BY <1>0, SoundStays DEF FactorInv
<1>4. Spent'
    <2>1. accepted.recovery = accepted'.recovery /\ row'.codes = row.codes
        BY <1>0 DEF Row
    <2>2. ASSUME ~reverted
          PROVE  /\ again' = {}
                 /\ \A used \in accepted'.totp : used[2] <= row'.lastUsed
        <3>1. \A used \in accepted.totp : used[2] <= row.lastUsed /\ used[2] \in Nat
            BY <1>0, <2>2 DEF FactorInv, Spent
        <3>2. code \notin accepted.totp
            BY <3>1, <1>0 DEF Row
        <3>3. accepted'.totp = accepted.totp \cup {code} /\ row'.lastUsed = t
            BY <1>0 DEF Row
        <3>4. again = {}
            BY <2>2 DEF FactorInv, Spent
        <3> QED BY <1>0, <3>1, <3>2, <3>3, <3>4 DEF Row
    <2> QED BY <1>0, <2>1, <2>2 DEF FactorInv, Spent
<1> QED BY <1>1, <1>2, <1>3, <1>4 DEF FactorInv

\* A code that is consumed leaves the row, and was in it for the first time.
LEMMA ConsumeRecoveryCodeKeepsFactorInv ==
    ASSUME FactorInv, NEW code \in Code, ConsumeRecoveryCode(code)
    PROVE  FactorInv'
<1>0. /\ UNCHANGED <<step, work, minted, proven, reverted>>
      /\ row' = [row EXCEPT !.codes = row.codes \ {code}]
      /\ accepted' = [accepted EXCEPT !.recovery = @ \cup {code}]
      /\ again' = IF code \in accepted.recovery THEN again \cup {"recovery"} ELSE again
      /\ row \in Row /\ code \in row.codes
      /\ accepted \in [totp: SUBSET (Secret \X Nat), recovery: SUBSET Code]
    BY DEF ConsumeRecoveryCode, MutateLocked, UnusedAfter, FactorInv, TFTypeOK
<1>1. TFTypeOK'
    BY <1>0 DEF FactorInv, TFTypeOK, Row
<1>2. Sound(row)'
    BY <1>0 DEF FactorInv, Sound, Row
<1>3. Carried'
    BY <1>0, SoundStays DEF FactorInv
<1>4. Spent'
    BY <1>0 DEF FactorInv, Spent, Sound, Row
<1> QED BY <1>1, <1>2, <1>3, <1>4 DEF FactorInv

LEMMA TickKeepsFactorInv == ASSUME FactorInv, TFTick \/ UNCHANGED tfvars PROVE FactorInv'
<1>0. UNCHANGED <<row, work, minted, proven, accepted, again, reverted>> /\ step' \in Nat
    BY DEF TFTick, tfvars, FactorInv, TFTypeOK
<1>1. TFTypeOK'
    BY <1>0 DEF FactorInv, TFTypeOK
<1>2. Sound(row)'
    BY <1>0 DEF FactorInv, Sound
<1>3. Carried'
    BY <1>0, SoundStays DEF FactorInv
<1>4. Spent'
    BY <1>0 DEF FactorInv, Spent
<1> QED BY <1>1, <1>2, <1>3, <1>4 DEF FactorInv

LEMMA NextKeepsFactorInv == FactorInv /\ [TFNext]_tfvars => FactorInv'
  BY EnableKeepsFactorInv, ConfirmKeepsFactorInv, RegenerateKeepsFactorInv, SaveKeepsFactorInv,
     FailureKeepsFactorInv, DisableKeepsFactorInv, VerifyLoginCodeKeepsFactorInv,
     ConsumeRecoveryCodeKeepsFactorInv, TickKeepsFactorInv
  DEF TFNext

LEMMA FactorInvAlways == TFSpec => []FactorInv
  BY InitFactorInv, NextKeepsFactorInv, PTL DEF TFSpec

-----------------------------------------------------------------------------

\* The state keeps its type: a confirmation is never stored without a secret.
THEOREM TwoFactorTypeOK == TFSpec => []TFTypeOK
<1>1. FactorInv => TFTypeOK
    BY DEF FactorInv
<1> QED BY <1>1, FactorInvAlways, PTL

\* Whichever operations overlap, the active secret is one that Confirm accepted
\* a code of.
THEOREM TwoFactorActiveSecretProven == TFSpec => []ActiveSecretProven
<1>1. FactorInv => ActiveSecretProven
    BY DEF FactorInv, Sound, ActiveSecretProven, TwoFactorEnabled
<1> QED BY <1>1, FactorInvAlways, PTL

\* While no save puts an earlier row back, VerifyLoginCode accepts a code once.
THEOREM TwoFactorLoginCodesOnce == TFSpec => []LoginCodesOnce
<1>1. FactorInv => LoginCodesOnce
    BY DEF FactorInv, Spent, LoginCodesOnce
<1> QED BY <1>1, FactorInvAlways, PTL

\* While no save puts an earlier row back, ConsumeRecoveryCode accepts a code once.
THEOREM TwoFactorRecoveryCodesOnce == TFSpec => []RecoveryCodesOnce
<1>1. FactorInv => RecoveryCodesOnce
    BY DEF FactorInv, Spent, RecoveryCodesOnce
<1> QED BY <1>1, FactorInvAlways, PTL

=============================================================================
