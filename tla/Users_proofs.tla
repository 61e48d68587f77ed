---------------------------- MODULE Users_proofs -----------------------------
(***************************************************************************)
(* What the requests of Users keep, for any users, addresses, roles and    *)
(* management roles, and any number of requests and operations.            *)
(***************************************************************************)
EXTENDS Users, TLAPS

-----------------------------------------------------------------------------
(* The inductive invariant *)

\* Between two operations a request holds nothing; while it creates a user there
\* is no row to hold, and any other operation that has read its row holds it.
Shape(r) ==
    /\ stage[r] \in {"idle"} \cup Answer => op[r] = NoOp
    /\ stage[r] \in {"idle", "role", "read"} \cup Answer =>
          seen[r] = NoUser /\ "rows" \notin stale[r]
    /\ op[r].kind = "create" =>
          /\ stage[r] \in {"role", "email", "write"}
          /\ seen[r] = NoUser
          /\ op[r].role = NoRole => \E x \in Role : x \notin ManagementRole
    /\ op[r].kind # "create" /\ stage[r] \in {"count", "email", "write", "revoke"} =>
          seen[r] \in User
    /\ stage[r] = "email" => op[r].kind \in {"create", "update", "profile"}

\* r has read the row its operation is about.
Deciding(r) == op[r].kind # "create" /\ stage[r] \in {"count", "email", "write"}

\* While nobody has written behind r, the row it read is the row there is, and
\* the others it counted are there.
ReadHolds(r) ==
    Deciding(r) /\ "rows" \notin stale[r] =>
       /\ seen[r] = rows[op[r].id]
       /\ stage[r] # "count" /\ TakesAdmin(op[r], seen[r]) => OthersRemain(op[r])

\* r is past RequireRole.
Acting(r) == op[r].by # NoUser /\ stage[r] \in {"read", "count", "email", "write"}

\* The actor is not about to lock or delete itself, and while nobody has written
\* behind RequireRole, neither has anybody behind the reads that followed it, and
\* the actor is a manager.
ActorHolds(r) ==
    Acting(r) =>
       /\ ~SelfRefused(op[r])
       /\ "actor" \notin stale[r] =>
             /\ "rows" \notin stale[r]
             /\ rows[op[r].by] # NoUser /\ IsManagementRole(rows[op[r].by].role)

\* An id that is being given to a new user is nobody's else.
NewIds ==
    /\ Stored(rows) \subseteq used
    /\ \A r \in Request : seen[r] # NoUser => op[r].id \in used
    /\ \A r \in Request : op[r].kind = "create" =>
          /\ op[r].id \in used /\ rows[op[r].id] = NoUser
          /\ \A q \in Request \ {r} :
                op[q].kind = "create" \/ seen[q] # NoUser => op[q].id # op[r].id

IInv ==
    /\ TypeOK
    /\ NoOp \in Operation
    /\ NewIds
    /\ \A r \in Request : Shape(r) /\ ReadHolds(r) /\ ActorHolds(r)
    /\ KeepsActiveAdminUnlessRaced

-----------------------------------------------------------------------------
(* Operations *)

LEMMA NoOpShape == NoOp.kind = "delete" /\ NoOp.by = NoUser
BY DEF NoOp

\* The operations that are asked for are operations; a created user gets an id
\* that nobody had, and its role can be chosen.
LEMMA RequestedShape ==
    ASSUME TypeOK, NEW o \in Requested
    PROVE  /\ o \in Operation
           /\ o.kind = "create" =>
                /\ o.id \notin used
                /\ o.role = NoRole => \E x \in Role : x \notin ManagementRole
<1>1. 1..minted \subseteq Nat
    BY DEF TypeOK
<1>2. o \in Operation
    BY <1>1 DEF Requested, Operation
<1> QED
    BY <1>2 DEF Requested

-----------------------------------------------------------------------------
(* Steps of one request *)

\* What r does to the variables of the requests.
Moves(r, s, o, row, behind) ==
    /\ stage' = [stage EXCEPT ![r] = s]
    /\ op' = [op EXCEPT ![r] = o]
    /\ seen' = [seen EXCEPT ![r] = row]
    /\ stale' = [stale EXCEPT ![r] = behind]

Keeps(q) == Shape(q) /\ ReadHolds(q) /\ ActorHolds(q)

\* A step of r that writes no row leaves the other requests what they know.
LEMMA OthersKeep ==
    ASSUME IInv, NEW r \in Request, NEW q \in Request, q # r, rows' = rows,
           stage'[q] = stage[q], op'[q] = op[q], seen'[q] = seen[q], stale'[q] = stale[q]
    PROVE  Keeps(q)'
<1>1. Shape(q)'
    BY DEF IInv, Shape
<1>2. ReadHolds(q)'
    BY DEF IInv, ReadHolds, Deciding, OthersRemain, Stored, ActiveByRolesExcluding
<1>3. ActorHolds(q)'
    BY DEF IInv, ActorHolds, Acting
<1> QED
    BY <1>1, <1>2, <1>3 DEF Keeps

\* A write of r leaves the other requests stale.
LEMMA OthersKeepWrite ==
    ASSUME IInv, NEW r \in Request, NEW q \in Request, q # r, Wrote(r),
           stage'[q] = stage[q], op'[q] = op[q], seen'[q] = seen[q]
    PROVE  Keeps(q)'
<1>1. stale'[q] = stale[q] \cup ReadBy(q)
    BY DEF Wrote
<1>2. Shape(q)'
    BY <1>1 DEF IInv, Shape, ReadBy, Answer
<1>3. ReadHolds(q)'
    BY <1>1 DEF ReadHolds, Deciding, ReadBy
<1>4. ActorHolds(q)'
    BY <1>1 DEF IInv, ActorHolds, Acting, ReadBy
<1> QED
    BY <1>2, <1>3, <1>4 DEF Keeps

\* A step that writes nothing, of a request that goes on with its operation or
\* ends it, and holds the row it held or the one it has found.
LEMMA QuietStep ==
    ASSUME IInv, NEW r \in Request,
           NEW s \in {"idle"} \cup Statement \cup Answer, NEW o \in {op[r], NoOp},
           NEW row \in User \cup {NoUser}, NEW behind \in SUBSET {"actor", "rows"},
           UNCHANGED <<rows, used, started, raced>>, tokens' \in SUBSET UserId /\ minted' \in Nat,
           Moves(r, s, o, row, behind),
           row # NoUser =>
              o = op[r] /\ (seen[r] # NoUser \/ (o.kind # "create" /\ rows[o.id] # NoUser)),
           Keeps(r)'
    PROVE  IInv'
<1>1. /\ stage'[r] = s /\ op'[r] = o /\ seen'[r] = row
      /\ \A q \in Request : q # r =>
            stage'[q] = stage[q] /\ op'[q] = op[q] /\ seen'[q] = seen[q] /\ stale'[q] = stale[q]
    BY DEF IInv, TypeOK, Moves
<1>2. \A q \in Request : Keeps(q)'
    BY <1>1, OthersKeep
<1>3. o \in Operation
    BY DEF IInv, TypeOK
<1>4. TypeOK'
    <2>1. \A q \in Request : Shape(q)'
        BY <1>2 DEF Keeps
    <2>2. /\ stage' \in [Request -> {"idle"} \cup Statement \cup Answer]
          /\ op' \in [Request -> Operation]
          /\ seen' \in [Request -> User \cup {NoUser}]
          /\ stale' \in [Request -> SUBSET {"actor", "rows"}]
        BY <1>3 DEF IInv, TypeOK, Moves
    <2> QED
        BY <2>1, <2>2 DEF IInv, TypeOK, Shape
<1>5. NewIds'
    <2>0. NoOp.kind # "create"
        BY NoOpShape
    <2>1. rows[op[r].id] = NoUser \/ op[r].id \in used
        BY DEF IInv, NewIds, Stored, TypeOK, Operation
    <2>2. ASSUME NEW q \in Request, seen'[q] # NoUser PROVE op'[q].id \in used'
        BY <1>1, <2>1, <2>2 DEF IInv, NewIds
    <2>3. ASSUME NEW q \in Request, op'[q].kind = "create"
          PROVE  /\ op'[q].id \in used' /\ rows'[op'[q].id] = NoUser
                 /\ op[q] = op'[q] /\ op[q].kind = "create"
        BY <1>1, <2>0, <2>3 DEF IInv, NewIds
    <2>4. ASSUME NEW q \in Request, NEW p \in Request \ {q}, op'[q].kind = "create",
                 op'[p].kind = "create" \/ seen'[p] # NoUser
          PROVE  op'[p].id # op'[q].id
        <3>1. CASE op'[p].kind = "create"
            BY <2>3, <2>4, <3>1 DEF IInv, NewIds
        <3>2. CASE seen'[p] # NoUser /\ (p # r \/ seen[r] # NoUser)
            BY <1>1, <2>3, <2>4, <3>2 DEF IInv, NewIds
        <3>3. CASE seen'[p] # NoUser /\ p = r /\ rows[o.id] # NoUser
            BY <1>1, <2>3, <2>4, <3>3 DEF IInv, NewIds
        <3> QED
            BY <1>1, <2>4, <3>1, <3>2, <3>3
    <2> QED
        BY <2>2, <2>3, <2>4 DEF IInv, NewIds, Stored
<1>6. KeepsActiveAdminUnlessRaced'
    BY DEF IInv, KeepsActiveAdminUnlessRaced, KeepsActiveAdmin, ActiveAdmins, Stored
<1>7. (NoOp \in Operation)'
    BY DEF IInv
<1> QED
    BY <1>2, <1>4, <1>5, <1>6, <1>7 DEF IInv, Keeps

\* An operation that returns forgets everything.
LEMMA ReturnKeeps ==
    ASSUME IInv, NEW r \in Request, NEW answer \in Answer, Return(r, answer),
           "rows" \notin stale'[r]
    PROVE  /\ Keeps(r)'
           /\ stage'[r] = answer /\ op'[r] = NoOp /\ seen'[r] = NoUser
           /\ started' = started
<1>1. stage'[r] = answer /\ op'[r] = NoOp /\ seen'[r] = NoUser /\ started' = started
    BY DEF Return, IInv, TypeOK
<1>2. answer \notin {"idle"} \cup Statement
    BY DEF Answer, Statement
<1>3. Shape(r)' /\ ReadHolds(r)' /\ ActorHolds(r)'
    BY <1>1, <1>2, NoOpShape
       DEF Shape, ReadHolds, ActorHolds, Deciding, Acting, Statement
<1> QED
    BY <1>1, <1>3 DEF Keeps

\* And changes nothing, if it wrote nothing.
LEMMA ReturnStep ==
    ASSUME IInv, NEW r \in Request, NEW answer \in Answer, Return(r, answer),
           NEW behind \in SUBSET {"actor"}, stale' = [stale EXCEPT ![r] = behind],
           UNCHANGED <<rows, used, raced>>, tokens' \in SUBSET UserId /\ minted' \in Nat
    PROVE  IInv'
<1>1. stale'[r] = behind
    BY DEF IInv, TypeOK
<1>2. Keeps(r)' /\ started' = started
    BY <1>1, ReturnKeeps
<1>3. Moves(r, answer, NoOp, NoUser, behind)
    BY DEF Return, Moves
<1>4. behind \in SUBSET {"actor", "rows"} /\ answer \in {"idle"} \cup Statement \cup Answer
    OBVIOUS
<1> QED
    BY <1>2, <1>3, <1>4, QuietStep

\* A write of the row the operation is about, after which the operation ends or
\* goes on to a statement that decides nothing.
LEMMA WriteStep ==
    ASSUME IInv, NEW r \in Request, stage[r] = "write", Wrote(r),
           \/ \E answer \in Answer : Return(r, answer)
           \/ \E s \in {"revoke", "reread"} : op[r].kind # "create" /\ Goto(r, s, seen[r]),
           NEW row \in User \cup {NoUser}, rows' = [rows EXCEPT ![op[r].id] = row],
           minted' \in Nat, UNCHANGED <<tokens, used>>,
           "rows" \notin stale[r] /\ KeepsActiveAdmin => KeepsActiveAdmin'
    PROVE  IInv'
<1>1. op[r] \in Operation /\ op[r].id \in UserId /\ op[r].id \in used
    <2>1. op[r] \in Operation /\ op[r].id \in UserId
        BY DEF IInv, TypeOK, Operation
    <2>2. op[r].kind = "create" \/ seen[r] # NoUser
        BY UsersAssumption DEF IInv, Shape
    <2> QED
        BY <2>1, <2>2 DEF IInv, NewIds
<1>2. /\ \A q \in Request : q # r =>
            stage'[q] = stage[q] /\ op'[q] = op[q] /\ seen'[q] = seen[q]
      /\ stale' \in [Request -> SUBSET {"actor", "rows"}] /\ stale'[r] = {}
      /\ started' = started
    BY DEF IInv, TypeOK, Return, Goto, Wrote, ReadBy
<1>3. Keeps(r)' /\ op'[r] \in {op[r], NoOp} /\ op'[r].kind # "create"
                /\ seen'[r] \in {seen[r], NoUser} /\ (seen'[r] # NoUser => op'[r] = op[r])
    <2>1. CASE \E answer \in Answer : Return(r, answer)
        BY <1>2, <2>1, ReturnKeeps, NoOpShape
    <2>2. CASE \E s \in {"revoke", "reread"} : op[r].kind # "create" /\ Goto(r, s, seen[r])
        <3>1. PICK s \in {"revoke", "reread"} : op[r].kind # "create" /\ Goto(r, s, seen[r])
            BY <2>2
        <3>2. stage'[r] = s /\ op'[r] = op[r] /\ seen'[r] = seen[r]
            BY <3>1 DEF Goto, IInv, TypeOK
        <3>3. seen[r] \in User
            BY <3>1 DEF IInv, Shape
        <3>4. Shape(r)' /\ ReadHolds(r)' /\ ActorHolds(r)'
            BY <3>1, <3>2, <3>3 DEF Shape, ReadHolds, ActorHolds, Deciding, Acting, Answer
        <3> QED
            BY <3>1, <3>2, <3>4 DEF Keeps
    <2> QED
        BY <2>1, <2>2
<1>4. \A q \in Request : Keeps(q)'
    BY <1>2, <1>3, OthersKeepWrite
<1>5. TypeOK'
    <2>1. \A q \in Request : Shape(q)'
        BY <1>4 DEF Keeps
    <2>2. /\ stage' \in [Request -> {"idle"} \cup Statement \cup Answer]
          /\ op' \in [Request -> Operation]
          /\ seen' \in [Request -> User \cup {NoUser}]
        BY DEF IInv, TypeOK, Return, Goto, Statement
    <2>3. rows' \in [UserId -> User \cup {NoUser}] /\ raced' \in BOOLEAN
        BY <1>1 DEF IInv, TypeOK, Wrote
    <2> QED
        BY <1>2, <2>1, <2>2, <2>3 DEF IInv, TypeOK, Shape
<1>6. NewIds'
    <2>1. \A u \in UserId : u # op[r].id => rows'[u] = rows[u]
        BY <1>1 DEF IInv, TypeOK
    <2>2. Stored(rows') \subseteq used'
        BY <1>1, <2>1 DEF IInv, NewIds, Stored
    <2>3. ASSUME NEW q \in Request, seen'[q] # NoUser PROVE op'[q].id \in used'
        BY <1>2, <1>3, <2>3 DEF IInv, NewIds
    <2>4. ASSUME NEW q \in Request, op'[q].kind = "create"
          PROVE  q # r /\ op'[q] = op[q] /\ op[q].id \in UserId
        BY <1>2, <1>3, <2>4 DEF IInv, TypeOK, Operation
    <2>5. op[r].kind = "create" \/ seen[r] # NoUser
        BY UsersAssumption DEF IInv, Shape
    <2>6. ASSUME NEW q \in Request, op'[q].kind = "create"
          PROVE  op'[q].id \in used' /\ rows'[op'[q].id] = NoUser
        BY <2>1, <2>4, <2>5, <2>6 DEF IInv, NewIds
    <2>7. ASSUME NEW q \in Request, NEW p \in Request \ {q}, op'[q].kind = "create",
                 op'[p].kind = "create" \/ seen'[p] # NoUser
          PROVE  op'[p].id # op'[q].id
        BY <1>2, <1>3, <2>4, <2>7 DEF IInv, NewIds
    <2> QED
        BY <2>2, <2>3, <2>6, <2>7 DEF NewIds
<1>7. KeepsActiveAdminUnlessRaced'
    BY DEF IInv, KeepsActiveAdminUnlessRaced, Wrote
<1>8. (NoOp \in Operation)'
    BY DEF IInv
<1> QED
    BY <1>4, <1>5, <1>6, <1>7, <1>8 DEF IInv, Keeps

-----------------------------------------------------------------------------
(* Administrators *)

\* A row that replaces one, and manages if that one did, takes no administrator.
LEMMA ReplacedKeepsAdmin ==
    ASSUME TypeOK, NEW u \in UserId, NEW row \in User,
           rows[u] # NoUser /\ IsManagementRole(rows[u].role) /\ ~rows[u].disabled =>
              IsManagementRole(row.role) /\ ~row.disabled,
           rows' = [rows EXCEPT ![u] = row], KeepsActiveAdmin
    PROVE  KeepsActiveAdmin'
<1>1. row # NoUser /\ rows'[u] = row /\ \A v \in UserId : v # u => rows'[v] = rows[v]
    BY UsersAssumption DEF TypeOK
<1>2. Stored(rows) \subseteq Stored(rows')
    BY <1>1 DEF Stored
<1>3. ActiveAdmins \subseteq ActiveAdmins'
    BY <1>1 DEF ActiveAdmins, Stored, IsManagementRole
<1> QED
    BY <1>2, <1>3 DEF KeepsActiveAdmin

\* A row may be written or removed while others remain.
LEMMA OthersKeepAdmin ==
    ASSUME TypeOK, NEW o \in Operation, OthersRemain(o), NEW row \in User \cup {NoUser},
           rows' = [rows EXCEPT ![o.id] = row]
    PROVE  KeepsActiveAdmin'
<1>1. o.id \in UserId /\ \A v \in UserId : v # o.id => rows'[v] = rows[v]
    BY DEF TypeOK, Operation
<1>2. CASE ManagementRole = {}
    BY <1>1, <1>2 DEF KeepsActiveAdmin, OthersRemain, Stored
<1>3. CASE ManagementRole # {}
    <2>1. PICK v \in ActiveByRolesExcluding(rows, ManagementRole, o.id) : TRUE
        BY <1>3 DEF OthersRemain
    <2>2. v \in ActiveAdmins'
        BY <1>1, <2>1 DEF ActiveAdmins, ActiveByRolesExcluding, Stored
    <2> QED
        BY <1>3, <2>2 DEF KeepsActiveAdmin
<1> QED
    BY <1>2, <1>3

\* A user who manages nobody may be removed, if somebody manages.
LEMMA RemovedKeepsAdmin ==
    ASSUME TypeOK, NEW u \in UserId, ManagementRole # {},
           rows[u] # NoUser => ~IsManagementRole(rows[u].role),
           rows' = [rows EXCEPT ![u] = NoUser], KeepsActiveAdmin
    PROVE  KeepsActiveAdmin'
<1>1. \A v \in UserId : v # u => rows'[v] = rows[v]
    BY DEF TypeOK
<1>2. ActiveAdmins \subseteq ActiveAdmins'
    BY <1>1 DEF ActiveAdmins, Stored, IsManagementRole
<1> QED
    BY <1>2 DEF KeepsActiveAdmin

-----------------------------------------------------------------------------
(* The actions *)

LEMMA InitEstablishes == Init => IInv
<1> SUFFICES ASSUME Init PROVE IInv
    OBVIOUS
<1> USE UsersAssumption
<1>1. ASSUME NEW u \in UserId PROVE rows[u] \in User \cup {NoUser}
    <2>1. CASE rows[u] = NoUser
        BY <2>1
    <2>2. CASE rows[u] # NoUser
        <3>1. PICK row \in [email: Email, role: Role, disabled: BOOLEAN,
                            verified: {TRUE}, password: {1}] : rows[u] = row
            BY <2>2 DEF Init
        <3>2. PICK e \in Email, x \in Role, d \in BOOLEAN :
                 row = [email |-> e, role |-> x, disabled |-> d,
                        verified |-> TRUE, password |-> 1]
            OBVIOUS
        <3>3. [email |-> e, role |-> x, disabled |-> d, verified |-> TRUE, password |-> 1] \in User
            BY DEF User
        <3> QED
            BY <3>1, <3>2, <3>3
    <2> QED
        BY <2>1, <2>2
<1>2. rows \in [UserId -> User \cup {NoUser}]
    BY <1>1 DEF Init
<1>3. NoOp \in Operation
    <2>1. PICK u \in UserId : rows[u] \in User
        BY <1>1 DEF Init, Stored
    <2>2. u \in UserId /\ rows[u].email \in Email
        BY <2>1 DEF User
    <2>3. AnyOf(UserId) \in UserId /\ AnyOf(Email) \in Email
        BY <2>2 DEF AnyOf
    <2> QED
        BY <2>3 DEF NoOp, Operation, Kind
<1>4. TypeOK
    BY <1>2, <1>3 DEF Init, TypeOK, Stored
<1>5. \A r \in Request : stage[r] = "idle" /\ op[r] = NoOp /\ seen[r] = NoUser /\ stale[r] = {}
    BY DEF Init
<1>6. NewIds
    BY <1>5, NoOpShape DEF Init, NewIds
<1>7. \A r \in Request : Shape(r) /\ ReadHolds(r) /\ ActorHolds(r)
    BY <1>5, NoOpShape DEF Shape, ReadHolds, ActorHolds, Deciding, Acting
<1>8. KeepsActiveAdminUnlessRaced
    BY DEF Init, KeepsActiveAdminUnlessRaced, KeepsActiveAdmin
<1> QED
    BY <1>3, <1>4, <1>6, <1>7, <1>8 DEF IInv

\* A new operation holds nothing, and an id it gives to a user is new.
LEMMA StartKeeps ==
    ASSUME IInv, NEW r \in Request, Start(r)
    PROVE  IInv'
<1>1. PICK o \in Requested :
         /\ used' = used \cup {o.id}
         /\ op' = [op EXCEPT ![r] = o]
         /\ stage' = [stage EXCEPT ![r] = IF o.by # NoUser THEN "role" ELSE FirstStatement(o)]
    BY DEF Start
<1>2. o \in Operation /\ o.id \in UserId
    <2>1. o \in Operation
        BY RequestedShape DEF IInv
    <2> QED
        BY <2>1 DEF Operation
<1>3. o.kind = "create" => o.id \notin used /\ (o.role = NoRole => \E x \in Role : x \notin ManagementRole)
    BY RequestedShape DEF IInv
<1>4. /\ stage[r] = "idle" /\ op[r] = NoOp /\ seen[r] = NoUser /\ "rows" \notin stale[r]
      /\ UNCHANGED <<rows, tokens, minted, seen, stale, raced>>
    BY DEF Start, IInv, Shape
<1>5. stage'[r] \in {"role", "read", "email"} /\ op'[r] = o
      /\ (stage'[r] = "email" <=> o.by = NoUser /\ o.kind = "create")
      /\ (stage'[r] = "role" <=> o.by # NoUser)
    BY <1>1 DEF IInv, TypeOK, FirstStatement
<1>6. \A q \in Request : q # r => stage'[q] = stage[q] /\ op'[q] = op[q]
    BY <1>1 DEF IInv, TypeOK
<1>7. Shape(r)' /\ ReadHolds(r)' /\ ActorHolds(r)'
    BY <1>3, <1>4, <1>5 DEF Shape, ReadHolds, ActorHolds, Deciding, Acting, Answer
<1>8. \A q \in Request : Keeps(q)'
    BY <1>4, <1>6, <1>7, OthersKeep DEF Keeps
<1>9. TypeOK'
    <2>1. \A q \in Request : Shape(q)'
        BY <1>8 DEF Keeps
    <2>2. /\ stage' \in [Request -> {"idle"} \cup Statement \cup Answer]
          /\ op' \in [Request -> Operation]
        BY <1>1, <1>2 DEF IInv, TypeOK, FirstStatement, Statement
    <2>3. used' \in SUBSET UserId /\ started' \in Nat
        BY <1>1, <1>2 DEF IInv, TypeOK, Start
    <2> QED
        BY <1>4, <2>1, <2>2, <2>3 DEF IInv, TypeOK, Shape
<1>10. NewIds'
    <2>0. NoOp.kind # "create"
        BY NoOpShape
    <2>1. ASSUME NEW q \in Request, seen'[q] # NoUser PROVE q # r /\ op'[q].id \in used
        BY <1>4, <1>6, <2>1 DEF IInv, NewIds
    <2>2. ASSUME NEW q \in Request, q # r, op'[q].kind = "create"
          PROVE  op'[q].id \in used /\ rows[op'[q].id] = NoUser
        BY <1>6, <2>2 DEF IInv, NewIds
    <2>3. rows[o.id] = NoUser \/ o.id \in used
        BY <1>2 DEF IInv, NewIds, Stored
    <2>4. ASSUME NEW q \in Request, op'[q].kind = "create"
          PROVE  op'[q].id \in used' /\ rows'[op'[q].id] = NoUser
        BY <1>1, <1>3, <1>4, <1>5, <2>2, <2>3, <2>4
    <2>5. ASSUME NEW q \in Request, NEW p \in Request \ {q}, op'[q].kind = "create",
                 op'[p].kind = "create" \/ seen'[p] # NoUser
          PROVE  op'[p].id # op'[q].id
        <3>1. CASE q = r
            BY <1>3, <1>5, <2>1, <2>2, <2>5, <3>1
        <3>2. CASE p = r
            BY <1>3, <1>5, <2>1, <2>2, <2>5, <3>2
        <3>3. CASE q # r /\ p # r
            BY <1>4, <1>6, <2>5, <3>3 DEF IInv, NewIds
        <3> QED
            BY <3>1, <3>2, <3>3
    <2>6. Stored(rows') \subseteq used'
        BY <1>1, <1>4 DEF IInv, NewIds, Stored
    <2> QED
        BY <1>1, <2>1, <2>4, <2>5, <2>6 DEF NewIds
<1>11. KeepsActiveAdminUnlessRaced'
    BY <1>4 DEF IInv, KeepsActiveAdminUnlessRaced, KeepsActiveAdmin, ActiveAdmins, Stored
<1>12. (NoOp \in Operation)'
    BY DEF IInv
<1> QED
    BY <1>8, <1>9, <1>10, <1>11, <1>12 DEF IInv, Keeps

\* Statements that fail, input that is refused and answers that are taken.
LEMMA EndsKeep ==
    ASSUME IInv, NEW r \in Request, StatementFails(r) \/ Invalid(r) \/ Finish(r)
    PROVE  IInv'
<1>1. CASE StatementFails(r) \/ Invalid(r)
    <2>1. PICK answer \in Answer : Return(r, answer)
        BY <1>1 DEF StatementFails, Invalid, Answer
    <2>2. stale' = [stale EXCEPT ![r] = {}] /\ UNCHANGED dataVars
        BY <1>1 DEF StatementFails, Invalid, Ended
    <2>3. tokens' \in SUBSET UserId /\ minted' \in Nat
        BY <2>2 DEF dataVars, IInv, TypeOK
    <2> QED
        BY <2>1, <2>2, <2>3, ReturnStep DEF dataVars
<1>2. CASE Finish(r)
    <2>1. stage[r] \in Answer /\ UNCHANGED <<dataVars, started, op, seen, stale>>
          /\ stage' = [stage EXCEPT ![r] = "idle"]
        BY <1>2 DEF Finish
    <2>2. op[r] = NoOp /\ seen[r] = NoUser /\ "rows" \notin stale[r] /\ stale[r] \in SUBSET {"actor", "rows"}
        BY <2>1 DEF IInv, Shape, TypeOK
    <2>3. Moves(r, "idle", NoOp, NoUser, stale[r])
        BY <2>1, <2>2 DEF Moves, IInv, TypeOK
    <2>4. stage'[r] = "idle" /\ op'[r] = NoOp /\ seen'[r] = NoUser /\ stale'[r] = stale[r]
        BY <2>1, <2>2 DEF IInv, TypeOK
    <2>5. Shape(r)' /\ ReadHolds(r)' /\ ActorHolds(r)'
        BY <2>2, <2>4, NoOpShape DEF Shape, ReadHolds, ActorHolds, Deciding, Acting
    <2>6. Keeps(r)'
        BY <2>5 DEF Keeps
    <2>7. tokens' \in SUBSET UserId /\ minted' \in Nat /\ UNCHANGED <<rows, used, started, raced>>
        BY <2>1 DEF dataVars, IInv, TypeOK
    <2> QED
        BY <2>2, <2>3, <2>6, <2>7, QuietStep
<1> QED
    BY <1>1, <1>2

LEMMA RequireRoleKeeps ==
    ASSUME IInv, NEW r \in Request, RequireRole(r)
    PROVE  IInv'
<1> DEFINE actor == FindByID(rows, op[r].by)
           allowed == actor # NoUser /\ IsManagementRole(actor.role)
           behind == stale[r] \ {"actor"}
<1>1. stage[r] = "role" /\ seen[r] = NoUser /\ UNCHANGED dataVars
      /\ stale' = [stale EXCEPT ![r] = behind]
    BY DEF RequireRole, Reads, IInv, Shape
<1>2. behind = {} /\ tokens' \in SUBSET UserId /\ minted' \in Nat
    BY <1>1 DEF IInv, Shape, TypeOK, dataVars
<1>3. CASE \E answer \in Answer : Return(r, answer)
    BY <1>1, <1>2, <1>3, ReturnStep DEF dataVars
<1>4. CASE allowed /\ ~SelfRefused(op[r]) /\ Goto(r, FirstStatement(op[r]), NoUser)
    <2>1. FirstStatement(op[r]) \in {"read", "email"}
          /\ (FirstStatement(op[r]) = "email" <=> op[r].kind = "create")
        BY DEF FirstStatement
    <2>2. Moves(r, FirstStatement(op[r]), op[r], NoUser, behind) /\ started' = started
        BY <1>1, <1>4 DEF Goto, Moves, IInv, TypeOK
    <2>3. stage'[r] = FirstStatement(op[r]) /\ op'[r] = op[r] /\ seen'[r] = NoUser /\ stale'[r] = {}
        BY <1>2, <2>2 DEF Moves, IInv, TypeOK
    <2>4. Shape(r)' /\ ReadHolds(r)'
        BY <2>1, <2>3 DEF IInv, Shape, ReadHolds, Deciding, Answer
    <2>5. ActorHolds(r)'
        BY <1>1, <1>4, <2>3 DEF ActorHolds, FindByID, dataVars
    <2>6. Keeps(r)'
        BY <2>4, <2>5 DEF Keeps
    <2>7. FirstStatement(op[r]) \in {"idle"} \cup Statement \cup Answer
        BY <2>1 DEF Statement
    <2>8. UNCHANGED <<rows, used, started, raced>>
        BY <1>1, <2>2 DEF dataVars
    <2> QED
        BY <1>2, <2>2, <2>6, <2>7, <2>8, QuietStep
<1>5. {"unauthorized", "forbidden", "invalid"} \subseteq Answer
    BY DEF Answer
<1> QED
    BY <1>3, <1>4, <1>5 DEF RequireRole

LEMMA ReadKeeps ==
    ASSUME IInv, NEW r \in Request, Read(r)
    PROVE  IInv'
<1> DEFINE row == rows[op[r].id]
           behind == stale[r] \ {"rows"}
<1>1. stage[r] = "read" /\ seen[r] = NoUser /\ UNCHANGED dataVars
      /\ stale' = [stale EXCEPT ![r] = behind] /\ op[r].kind # "create"
    BY DEF Read, Reads, IInv, Shape
<1>2. behind \in SUBSET {"actor"} /\ behind = stale[r]
    BY <1>1 DEF IInv, Shape, TypeOK
<1>3. tokens' \in SUBSET UserId /\ minted' \in Nat /\ row \in User \cup {NoUser}
    BY <1>1 DEF IInv, TypeOK, Operation, dataVars
<1>4. CASE \E answer \in Answer : Return(r, answer)
    BY <1>1, <1>2, <1>3, <1>4, ReturnStep DEF dataVars
<1>5. CASE row # NoUser /\ Goto(r, NextStatement(op[r], row), row)
    <2>1. /\ NextStatement(op[r], row) \in {"count", "email", "write"}
          /\ NextStatement(op[r], row) # "count" => ~TakesAdmin(op[r], row)
          /\ NextStatement(op[r], row) = "email" => op[r].kind \in {"update", "profile"}
        BY DEF NextStatement
    <2>2. Moves(r, NextStatement(op[r], row), op[r], row, behind) /\ started' = started
        BY <1>1, <1>5 DEF Goto, Moves, IInv, TypeOK
    <2>3. /\ stage'[r] = NextStatement(op[r], row) /\ op'[r] = op[r] /\ seen'[r] = row
          /\ stale'[r] = stale[r] /\ rows' = rows
        BY <1>1, <1>2, <2>2 DEF Moves, IInv, TypeOK, dataVars
    <2>4. Shape(r)'
        BY <1>1, <1>3, <1>5, <2>1, <2>3 DEF IInv, Shape, Answer
    <2>5. ReadHolds(r)'
        BY <2>1, <2>3 DEF ReadHolds
    <2>6. ActorHolds(r)'
        BY <1>1, <2>3 DEF IInv, ActorHolds, Acting
    <2>7. Keeps(r)'
        BY <2>4, <2>5, <2>6 DEF Keeps
    <2>8. NextStatement(op[r], row) \in {"idle"} \cup Statement \cup Answer
        BY <2>1 DEF Statement
    <2>9. UNCHANGED <<rows, used, started, raced>>
        BY <1>1, <2>2 DEF dataVars
    <2>10. behind \in SUBSET {"actor", "rows"}
        BY <1>2
    <2> QED
        BY <1>1, <1>3, <1>5, <2>2, <2>7, <2>8, <2>9, <2>10, QuietStep
<1>6. {"notFound", "ok", "invalid", "wrongPassword"} \subseteq Answer
    BY DEF Answer
<1>7. Refusal(op[r], row) \in {"invalid", "wrongPassword", "none"}
    BY DEF Refusal
<1>8. \/ \E answer \in {"notFound", "ok", Refusal(op[r], row)} :
            Return(r, answer) /\ answer # "none"
      \/ row # NoUser /\ Goto(r, NextStatement(op[r], row), row)
    BY DEF Read, FindByID
<1> QED
    BY <1>4, <1>5, <1>6, <1>7, <1>8

LEMMA CountKeeps ==
    ASSUME IInv, NEW r \in Request, Count(r)
    PROVE  IInv'
<1>1. stage[r] = "count" /\ UNCHANGED dataVars /\ op[r].kind # "create"
      /\ seen[r] \in User /\ stale[r] \in SUBSET {"actor", "rows"}
    BY DEF Count, IInv, Shape, TypeOK
<1>2. tokens' \in SUBSET UserId /\ minted' \in Nat
    BY <1>1 DEF IInv, TypeOK, dataVars
<1>3. CASE OthersRemain(op[r])
    <2> DEFINE s == IF op[r].kind = "update" /\ op[r].email # seen[r].email
                    THEN "email" ELSE "write"
    <2>1. Goto(r, s, seen[r]) /\ stale' = stale
        BY <1>3 DEF Count
    <2>2. s \in {"email", "write"} /\ (s = "email" => op[r].kind = "update")
        OBVIOUS
    <2> HIDE DEF s
    <2>3. Moves(r, s, op[r], seen[r], stale[r]) /\ started' = started
        BY <2>1 DEF Goto, Moves, IInv, TypeOK
    <2>4. stage'[r] = s /\ op'[r] = op[r] /\ seen'[r] = seen[r] /\ stale'[r] = stale[r] /\ rows' = rows
        BY <1>1, <2>3 DEF Moves, IInv, TypeOK, dataVars
    <2>5. Shape(r)'
        BY <1>1, <2>2, <2>4 DEF IInv, Shape, Answer
    <2>6. OthersRemain(op[r])'
        BY <1>3, <2>4 DEF OthersRemain, Stored, ActiveByRolesExcluding
    <2>7. ReadHolds(r)'
        BY <1>1, <2>2, <2>4, <2>6 DEF IInv, ReadHolds, Deciding
    <2>8. ActorHolds(r)'
        BY <1>1, <2>4 DEF IInv, ActorHolds, Acting
    <2>9. Keeps(r)'
        BY <2>5, <2>7, <2>8 DEF Keeps
    <2>10. s \in {"idle"} \cup Statement \cup Answer
        BY <2>2 DEF Statement
    <2>11. UNCHANGED <<rows, used, started, raced>>
        BY <1>1, <2>3 DEF dataVars
    <2>12. seen[r] # NoUser
        BY <1>1, UsersAssumption
    <2> QED
        BY <1>1, <1>2, <2>3, <2>9, <2>10, <2>11, <2>12, QuietStep
<1>4. CASE ~OthersRemain(op[r])
    <2>1. Return(r, "lastAdmin") /\ stale' = [stale EXCEPT ![r] = {}]
        BY <1>4 DEF Count, Ended
    <2>2. "lastAdmin" \in Answer
        BY DEF Answer
    <2> QED
        BY <1>1, <1>2, <2>1, <2>2, ReturnStep DEF dataVars
<1> QED
    BY <1>3, <1>4

LEMMA LookUpEmailKeeps ==
    ASSUME IInv, NEW r \in Request, LookUpEmail(r)
    PROVE  IInv'
<1>1. stage[r] = "email" /\ UNCHANGED dataVars /\ stale[r] \in SUBSET {"actor", "rows"}
      /\ seen[r] \in User \cup {NoUser}
    BY DEF LookUpEmail, IInv, TypeOK
<1>2. tokens' \in SUBSET UserId /\ minted' \in Nat
    BY <1>1 DEF IInv, TypeOK, dataVars
<1>3. CASE Goto(r, "write", seen[r])
           /\ IF op[r].kind = "create" THEN Reads(r, "rows") ELSE UNCHANGED stale
    <2> DEFINE behind == IF op[r].kind = "create" THEN stale[r] \ {"rows"} ELSE stale[r]
    <2>1. Moves(r, "write", op[r], seen[r], behind) /\ started' = started
        BY <1>3 DEF Goto, Moves, Reads, IInv, TypeOK
    <2>2. behind \in SUBSET {"actor", "rows"} /\ behind \subseteq stale[r]
          /\ (op[r].kind # "create" => behind = stale[r])
          /\ (op[r].kind = "create" /\ "actor" \in stale[r] => "actor" \in behind)
        BY <1>1
    <2> HIDE DEF behind
    <2>3. stage'[r] = "write" /\ op'[r] = op[r] /\ seen'[r] = seen[r] /\ stale'[r] = behind /\ rows' = rows
        BY <1>1, <2>1 DEF Moves, IInv, TypeOK, dataVars
    <2>4. Shape(r)'
        BY <1>1, <2>3 DEF IInv, Shape, Answer
    <2>5. ReadHolds(r)'
        <3>1. OthersRemain(op[r])' = OthersRemain(op[r])
            BY <2>3 DEF OthersRemain, Stored, ActiveByRolesExcluding
        <3> QED
            BY <1>1, <2>2, <2>3, <3>1 DEF IInv, ReadHolds, Deciding
    <2>6. ActorHolds(r)'
        BY <1>1, <2>2, <2>3 DEF IInv, ActorHolds, Acting
    <2>7. Keeps(r)'
        BY <2>4, <2>5, <2>6 DEF Keeps
    <2>8. "write" \in {"idle"} \cup Statement \cup Answer
        BY DEF Statement
    <2>9. UNCHANGED <<rows, used, started, raced>>
        BY <1>1, <2>1 DEF dataVars
    <2> QED
        BY <1>1, <1>2, <2>1, <2>2, <2>7, <2>8, <2>9, QuietStep
<1>4. CASE Return(r, "conflict") /\ Ended(r)
    <2>1. "conflict" \in Answer
        BY DEF Answer
    <2> QED
        BY <1>1, <1>2, <1>4, <2>1, ReturnStep DEF dataVars, Ended
<1> QED
    BY <1>3, <1>4 DEF LookUpEmail

\* What a request holds that is about to write its row.
LEMMA AboutToWrite ==
    ASSUME IInv, NEW r \in Request, stage[r] = "write", op[r].kind # "create"
    PROVE  /\ seen[r] \in User /\ op[r] \in Operation /\ op[r].id \in UserId
           /\ "rows" \notin stale[r] =>
                 /\ seen[r] = rows[op[r].id]
                 /\ TakesAdmin(op[r], seen[r]) => OthersRemain(op[r])
BY DEF IInv, TypeOK, Shape, ReadHolds, Deciding, Operation

\* An edit leaves a row that manages as it is, unless it takes it away.
LEMMA EditedShape ==
    ASSUME NEW o \in Operation, NEW row \in User
    PROVE  /\ Written(o, row) \in User
           /\ IsManagementRole(row.role) /\ ~row.disabled /\ ~Guarded(o, row) /\ o.kind = "update" =>
                 IsManagementRole(Written(o, row).role) /\ ~Written(o, row).disabled
           /\ o.kind # "update" =>
                 Written(o, row).role = row.role /\ Written(o, row).disabled = row.disabled
<1>1. o.email \in Email /\ o.role \in Role \cup {NoRole} /\ o.disable \in {"keep", "lock", "unlock"}
    BY DEF Operation
<1>2. row.role \in Role /\ row.disabled \in BOOLEAN /\ row.verified \in BOOLEAN
    BY DEF User
<1>3. CASE o.kind = "update"
    <2> DEFINE x == IF o.role = NoRole THEN row.role ELSE o.role
               d == CASE o.disable = "lock" -> TRUE
                      [] o.disable = "unlock" -> FALSE
                      [] o.disable = "keep" -> row.disabled
    <2>1. Written(o, row) = [row EXCEPT !.email = o.email, !.role = x, !.disabled = d]
        BY <1>3 DEF Written, Edited
    <2>2. x \in Role /\ d \in BOOLEAN
        BY <1>1, <1>2
    <2>3. /\ o.disable # "lock" /\ ~row.disabled => ~d
          /\ ~Demoting(o) /\ IsManagementRole(row.role) => IsManagementRole(x)
        BY <1>1 DEF Demoting
    <2> HIDE DEF x, d
    <2>4. [row EXCEPT !.email = o.email, !.role = x, !.disabled = d] \in User
        BY <1>1, <2>2 DEF User
    <2>5. /\ [row EXCEPT !.email = o.email, !.role = x, !.disabled = d].role = x
          /\ [row EXCEPT !.email = o.email, !.role = x, !.disabled = d].disabled = d
        BY DEF User
    <2> QED
        BY <1>3, <2>1, <2>3, <2>4, <2>5 DEF Guarded, Disabling
<1>4. CASE o.kind # "update"
    <2>1. ((o.email = row.email) /\ row.verified) \in BOOLEAN
        OBVIOUS
    <2>2. Written(o, row) \in User
        BY <1>1, <1>4, <2>1 DEF Written, EditedProfile, User
    <2>3. Written(o, row).role = row.role /\ Written(o, row).disabled = row.disabled
        BY <1>4 DEF Written, EditedProfile, User
    <2> QED
        BY <1>4, <2>2, <2>3
<1> QED
    BY <1>3, <1>4

LEMMA SaveRowKeeps ==
    ASSUME IInv, NEW r \in Request, SaveRow(r)
    PROVE  IInv'
<1> DEFINE row == Written(op[r], seen[r])
<1>1. stage[r] = "write" /\ op[r].kind \in {"update", "profile"} /\ UNCHANGED <<tokens, used, minted>>
    BY DEF SaveRow
<1>2. seen[r] \in User /\ op[r] \in Operation /\ op[r].id \in UserId
    BY <1>1, AboutToWrite
<1>3. row \in User
    BY <1>2, EditedShape
<1>4. tokens' \in SUBSET UserId /\ minted' \in Nat
    BY <1>1 DEF IInv, TypeOK
<1>5. CASE Accepts(rows, op[r].id, row)
    <2>1. rows' = [rows EXCEPT ![op[r].id] = row] /\ Wrote(r)
          /\ IF Disabling(op[r]) THEN Goto(r, "revoke", seen[r]) ELSE Return(r, "ok")
        BY <1>5 DEF SaveRow, Save
    <2>2. ASSUME "rows" \notin stale[r], KeepsActiveAdmin PROVE KeepsActiveAdmin'
        <3>0. TypeOK
            BY DEF IInv
        <3>1. seen[r] = rows[op[r].id] /\ (TakesAdmin(op[r], seen[r]) => OthersRemain(op[r]))
            BY <1>1, <2>2, AboutToWrite
        <3>2. CASE TakesAdmin(op[r], seen[r])
            BY <1>2, <1>3, <2>1, <3>0, <3>1, <3>2, OthersKeepAdmin
        <3>3. CASE ~TakesAdmin(op[r], seen[r])
            <4>1. IsManagementRole(rows[op[r].id].role) /\ ~rows[op[r].id].disabled =>
                     IsManagementRole(row.role) /\ ~row.disabled
                BY <1>1, <1>2, <3>1, <3>3, EditedShape DEF TakesAdmin
            <4> HIDE DEF row
            <4> QED
                BY <1>2, <1>3, <2>1, <2>2, <3>0, <4>1, ReplacedKeepsAdmin
        <3> QED
            BY <3>2, <3>3
    <2>3. "ok" \in Answer
        BY DEF Answer
    <2>4. \/ \E answer \in Answer : Return(r, answer)
          \/ \E s \in {"revoke", "reread"} : op[r].kind # "create" /\ Goto(r, s, seen[r])
        BY <1>1, <2>1, <2>3
    <2>5. UNCHANGED <<tokens, used>>
        BY <1>1
    <2> HIDE DEF row
    <2> QED
        BY <1>1, <1>3, <1>4, <2>1, <2>2, <2>4, <2>5, WriteStep
<1>6. CASE ~Accepts(rows, op[r].id, row)
    <2>1. PICK answer \in Answer : Return(r, answer)
        BY <1>6 DEF SaveRow, Answer
    <2>2. stale' = [stale EXCEPT ![r] = {}] /\ UNCHANGED <<rows, used, minted, raced>>
        BY <1>6 DEF SaveRow, Ended
    <2> QED
        BY <1>4, <2>1, <2>2, ReturnStep
<1> QED
    BY <1>5, <1>6

LEMMA InsertRowKeeps ==
    ASSUME IInv, NEW r \in Request, InsertRow(r)
    PROVE  IInv'
<1> DEFINE row == NewUser(op[r], minted + 1)
<1>1. stage[r] = "write" /\ op[r].kind = "create" /\ UNCHANGED <<tokens, used>> /\ minted' = minted + 1
    BY DEF InsertRow
<1>2. op[r] \in Operation /\ op[r].id \in UserId /\ minted' \in Nat /\ rows[op[r].id] = NoUser
    BY <1>1 DEF IInv, TypeOK, Operation, NewIds
<1>3. row \in User
    <2>1. op[r].role = NoRole => DefaultRole \in Role
        BY <1>1 DEF IInv, Shape, DefaultRole, AnyOf
    <2>2. op[r].email \in Email /\ op[r].role \in Role \cup {NoRole} /\ minted + 1 \in Nat
        BY <1>2 DEF Operation, IInv, TypeOK
    <2> QED
        BY <2>1, <2>2 DEF NewUser, User
<1>4. tokens' \in SUBSET UserId
    BY <1>1 DEF IInv, TypeOK
<1>5. CASE Accepts(rows, op[r].id, row)
    <2>1. rows' = [rows EXCEPT ![op[r].id] = row] /\ Wrote(r) /\ Return(r, "ok")
        BY <1>5 DEF InsertRow, Save
    <2>2. ASSUME KeepsActiveAdmin PROVE KeepsActiveAdmin'
        <3>0. TypeOK
            BY DEF IInv
        <3> HIDE DEF row
        <3> QED
            BY <1>2, <1>3, <2>1, <2>2, <3>0, ReplacedKeepsAdmin
    <2>3. "ok" \in Answer
        BY DEF Answer
    <2>4. UNCHANGED <<tokens, used>>
        BY <1>1
    <2> HIDE DEF row
    <2> QED
        BY <1>1, <1>2, <1>3, <2>1, <2>2, <2>3, <2>4, WriteStep
<1>6. CASE ~Accepts(rows, op[r].id, row)
    <2>1. Return(r, "error") /\ stale' = [stale EXCEPT ![r] = {}] /\ UNCHANGED <<rows, raced, used>>
        BY <1>6 DEF InsertRow, Ended
    <2>2. "error" \in Answer
        BY DEF Answer
    <2>3. {} \in SUBSET {"actor"}
        OBVIOUS
    <2> QED
        BY <1>2, <1>4, <2>1, <2>2, <2>3, ReturnStep
<1> QED
    BY <1>5, <1>6

LEMMA WritePasswordKeeps ==
    ASSUME IInv, NEW r \in Request, WritePassword(r)
    PROVE  IInv'
<1> DEFINE old == rows[op[r].id]
           row == IF old = NoUser THEN NoUser ELSE [old EXCEPT !.password = minted + 1]
<1>0. TypeOK
    BY DEF IInv
<1>1. /\ stage[r] = "write" /\ op[r].kind \in {"setPassword", "changePassword"}
      /\ UNCHANGED <<tokens, used>> /\ minted' = minted + 1 /\ Wrote(r)
      /\ rows' = [rows EXCEPT ![op[r].id] = row]
    BY DEF WritePassword, UpdatePassword
<1>2. op[r].id \in UserId /\ minted' \in Nat /\ old \in User \cup {NoUser}
    BY <1>1 DEF IInv, TypeOK, Operation
<1>3. old # NoUser => /\ row \in User
                      /\ row.role = old.role /\ row.disabled = old.disabled
    BY <1>1, <1>2 DEF User
<1>4. ASSUME KeepsActiveAdmin PROVE KeepsActiveAdmin'
    <2>1. CASE old = NoUser
        <3>1. rows' = rows
            BY <1>1, <1>2, <2>1 DEF IInv, TypeOK
        <3> QED
            BY <1>4, <3>1 DEF KeepsActiveAdmin, ActiveAdmins, Stored
    <2>2. CASE old # NoUser
        <3> HIDE DEF row
        <3> QED
            BY <1>0, <1>1, <1>2, <1>3, <1>4, <2>2, ReplacedKeepsAdmin
    <2> QED
        BY <2>1, <2>2
<1>5. row \in User \cup {NoUser}
    BY <1>3
<1>6. AfterPassword(op[r]) \in {"reread", "revoke", "ok"} /\ "ok" \in Answer
    BY DEF AfterPassword, Answer
<1>7. \/ \E answer \in Answer : Return(r, answer)
      \/ \E s \in {"revoke", "reread"} : op[r].kind # "create" /\ Goto(r, s, seen[r])
    BY <1>1, <1>6 DEF WritePassword
<1> HIDE DEF row
<1> QED
    BY <1>1, <1>2, <1>4, <1>5, <1>7, WriteStep

LEMMA RemoveRowKeeps ==
    ASSUME IInv, NEW r \in Request, RemoveRow(r)
    PROVE  IInv'
<1>0. TypeOK
    BY DEF IInv
<1>1. /\ stage[r] = "write" /\ op[r].kind = "delete" /\ UNCHANGED <<tokens, used, minted>>
      /\ Wrote(r) /\ Goto(r, "revoke", seen[r])
      /\ rows' = [rows EXCEPT ![op[r].id] = NoUser]
    BY DEF RemoveRow, DeleteRow
<1>2. op[r] \in Operation /\ op[r].id \in UserId /\ minted' \in Nat
    BY <1>1 DEF IInv, TypeOK, Operation
<1>3. ASSUME "rows" \notin stale[r], KeepsActiveAdmin PROVE KeepsActiveAdmin'
    <2>1. seen[r] = rows[op[r].id] /\ (TakesAdmin(op[r], seen[r]) => OthersRemain(op[r]))
        BY <1>1, <1>3, AboutToWrite
    <2>2. NoUser \in User \cup {NoUser}
        OBVIOUS
    <2>3. CASE TakesAdmin(op[r], seen[r])
        BY <1>0, <1>1, <1>2, <2>1, <2>2, <2>3, OthersKeepAdmin
    <2>4. CASE ~TakesAdmin(op[r], seen[r])
        <3>1. ManagementRole # {} /\ ~IsManagementRole(rows[op[r].id].role)
            BY <1>1, <2>1, <2>4 DEF TakesAdmin
        <3> QED
            BY <1>0, <1>1, <1>2, <1>3, <3>1, RemovedKeepsAdmin
    <2> QED
        BY <2>3, <2>4
<1>4. \E s \in {"revoke", "reread"} : op[r].kind # "create" /\ Goto(r, s, seen[r])
    BY <1>1
<1>5. UNCHANGED <<tokens, used>>
    BY <1>1
<1>6. NoUser \in User \cup {NoUser}
    OBVIOUS
<1> QED
    BY <1>1, <1>2, <1>3, <1>4, <1>5, <1>6, WriteStep

\* The statements that follow a write.
LEMMA AfterWriteKeeps ==
    ASSUME IInv, NEW r \in Request, RevokeTokens(r) \/ Reread(r)
    PROVE  IInv'
<1>1. PICK answer \in Answer : Return(r, answer)
    BY DEF RevokeTokens, Reread, Answer
<1>2. stale' = [stale EXCEPT ![r] = {}] /\ UNCHANGED <<rows, used, raced>>
    BY DEF RevokeTokens, Reread, Ended, dataVars
<1>3. tokens' \in SUBSET UserId /\ minted' \in Nat
    BY DEF RevokeTokens, Reread, dataVars, IInv, TypeOK
<1> QED
    BY <1>1, <1>2, <1>3, ReturnStep

LEMMA StutterKeeps ==
    ASSUME IInv, UNCHANGED vars
    PROVE  IInv'
<1>1. /\ rows' = rows /\ tokens' = tokens /\ used' = used /\ minted' = minted
      /\ started' = started /\ stage' = stage /\ op' = op /\ seen' = seen
      /\ stale' = stale /\ raced' = raced
    BY DEF vars
<1>2. TypeOK' /\ NewIds' /\ KeepsActiveAdminUnlessRaced' /\ (NoOp \in Operation)'
    BY <1>1 DEF IInv, TypeOK, NewIds, Stored, KeepsActiveAdminUnlessRaced,
                KeepsActiveAdmin, ActiveAdmins
<1>3. \A r \in Request : Shape(r)' /\ ActorHolds(r)'
    BY <1>1 DEF IInv, Shape, ActorHolds, Acting
<1>4. \A r \in Request : ReadHolds(r)'
    BY <1>1 DEF IInv, ReadHolds, Deciding, OthersRemain, Stored, ActiveByRolesExcluding
<1> QED
    BY <1>2, <1>3, <1>4 DEF IInv

LEMMA NextKeeps == IInv /\ [Next]_vars => IInv'
<1> SUFFICES ASSUME IInv, [Next]_vars PROVE IInv'
    OBVIOUS
<1>1. CASE \E r \in Request : Start(r) \/ Step(r)
    <2>1. PICK r \in Request : Start(r) \/ Step(r)
        BY <1>1
    <2> QED
        BY <2>1, StartKeeps, RequireRoleKeeps, ReadKeeps, CountKeeps, LookUpEmailKeeps,
           SaveRowKeeps, InsertRowKeeps, WritePasswordKeeps, RemoveRowKeeps,
           AfterWriteKeeps, EndsKeep DEF Step
<1>2. CASE UNCHANGED vars
    BY <1>2, StutterKeeps
<1> QED
    BY <1>1, <1>2 DEF Next, Done

\* The inductive invariant holds of every state the code reaches.
THEOREM InvariantHolds == Spec => []IInv
BY InitEstablishes, NextKeeps, PTL DEF Spec

-----------------------------------------------------------------------------
(* Theorems *)

\* Every variable has its type: an operation past its read holds a row, and what
\* it writes is a row.
THEOREM UsersTyped == Spec => []TypeOK
<1>1. IInv => TypeOK
    BY DEF IInv
<1> QED
    BY <1>1, InvariantHolds, PTL

\* However many operations run, and however they interleave, the installation
\* can still be managed, unless a request wrote after another one had changed
\* the table behind its back.
THEOREM UsersKeepAnAdmin == Spec => []KeepsActiveAdminUnlessRaced
<1>1. IInv => KeepsActiveAdminUnlessRaced
    BY DEF IInv
<1> QED
    BY <1>1, InvariantHolds, PTL

\* Only a write ends or leaves the stage of one.
LEMMA WriterWrites ==
    ASSUME IInv, Next, NEW r \in Request, Writes(r)
    PROVE  SaveRow(r) \/ InsertRow(r) \/ WritePassword(r) \/ RemoveRow(r)
<1>1. stage[r] = "write" /\ stage'[r] # "write" /\ stage'[r] # "error"
    BY DEF Writes
<1>2. stage \in [Request -> {"idle"} \cup Statement \cup Answer]
    BY DEF IInv, TypeOK
<1>3. PICK q \in Request : Start(q) \/ Step(q)
    BY <1>1 DEF Next, Done, vars
<1>4. \E s : stage' = [stage EXCEPT ![q] = s]
    <2>1. CASE Start(q)
        BY <2>1 DEF Start
    <2>2. CASE RequireRole(q) \/ Read(q) \/ Count(q) \/ LookUpEmail(q)
        BY <2>2 DEF RequireRole, Read, Count, LookUpEmail, Return, Goto
    <2>3. CASE SaveRow(q) \/ InsertRow(q) \/ WritePassword(q) \/ RemoveRow(q)
        BY <2>3 DEF SaveRow, InsertRow, WritePassword, RemoveRow, Return, Goto
    <2>4. CASE RevokeTokens(q) \/ Reread(q) \/ StatementFails(q) \/ Invalid(q) \/ Finish(q)
        BY <2>4 DEF RevokeTokens, Reread, StatementFails, Invalid, Finish, Return
    <2> QED
        BY <1>3, <2>1, <2>2, <2>3, <2>4 DEF Step
<1>5. q = r
    BY <1>1, <1>2, <1>4
<1>6. ~StatementFails(r)
    BY <1>1, <1>2 DEF StatementFails, Return
<1> QED
    BY <1>1, <1>3, <1>5, <1>6
       DEF Step, Start, RequireRole, Read, Count, LookUpEmail, RevokeTokens, Reread,
           Invalid, Finish, Answer

\* What a write makes of the rows: the row of its operation, and no other.
LEMMA WrittenRow ==
    ASSUME IInv, Next, NEW r \in Request, Writes(r)
    PROVE  /\ op[r].id \in UserId /\ stage[r] = "write"
           /\ \A u \in UserId : u # op[r].id => rows'[u] = rows[u]
           /\ \/ rows' = rows
              \/ op[r].kind \in {"update", "profile"} /\ rows'[op[r].id] = Written(op[r], seen[r])
              \/ op[r].kind = "create" /\ rows'[op[r].id] \in User
              \/ op[r].kind = "delete" /\ rows'[op[r].id] = NoUser
              \/ /\ op[r].kind \in {"setPassword", "changePassword"}
                 /\ IF rows[op[r].id] = NoUser THEN rows'[op[r].id] = NoUser
                    ELSE \E p \in Nat : rows'[op[r].id] = [rows[op[r].id] EXCEPT !.password = p]
<1>1. op[r].id \in UserId /\ stage[r] = "write" /\ rows \in [UserId -> User \cup {NoUser}]
      /\ minted + 1 \in Nat
    BY DEF IInv, TypeOK, Operation, Writes
<1>2. CASE SaveRow(r)
    BY <1>1, <1>2 DEF SaveRow, Save
<1>3. CASE InsertRow(r)
    <2>1. IInv'
        BY <1>3, InsertRowKeeps
    <2>2. rows' \in [UserId -> User \cup {NoUser}]
        BY <2>1 DEF IInv, TypeOK
    <2>3. NewUser(op[r], minted + 1) # NoUser
        <3>1. NewUser(op[r], minted + 1).disabled = FALSE
            BY DEF NewUser
        <3>2. op[r].role = NoRole => DefaultRole \in Role
            BY <1>3 DEF IInv, Shape, DefaultRole, AnyOf, InsertRow
        <3>3. op[r].email \in Email /\ op[r].role \in Role \cup {NoRole}
            BY DEF Operation, IInv, TypeOK
        <3>4. NewUser(op[r], minted + 1) \in User
            BY <1>1, <3>2, <3>3 DEF NewUser, User
        <3> QED
            BY <3>4, UsersAssumption
    <2> QED
        BY <1>1, <1>3, <2>2, <2>3 DEF InsertRow, Save
<1>4. CASE WritePassword(r)
    <2>1. rows' = [rows EXCEPT ![op[r].id] =
                     IF @ = NoUser THEN NoUser ELSE [@ EXCEPT !.password = minted + 1]]
        BY <1>4 DEF WritePassword, UpdatePassword
    <2>2. rows'[op[r].id] = IF rows[op[r].id] = NoUser THEN NoUser
                            ELSE [rows[op[r].id] EXCEPT !.password = minted + 1]
        BY <1>1, <2>1
    <2>3. \A u \in UserId : u # op[r].id => rows'[u] = rows[u]
        BY <1>1, <2>1
    <2> QED
        BY <1>1, <1>4, <2>2, <2>3 DEF WritePassword
<1>5. CASE RemoveRow(r)
    BY <1>1, <1>5 DEF RemoveRow, DeleteRow
<1> QED
    BY <1>2, <1>3, <1>4, <1>5, WriterWrites

\* A request that wrote on fresh reads changed its own columns of its own row.
THEOREM UsersKeepToTheirColumns == Spec => FreshWritesKeepToTheirColumns
<1>1. IInv /\ [Next]_vars =>
        [\A r \in Request : Writes(r) /\ "rows" \notin stale[r] =>
            \A u \in Stored(rows) : rows'[u] # NoUser =>
               \/ rows'[u] = rows[u]
               \/ op[r].id = u /\ SameColumns(op[r].kind, rows[u], rows'[u])]_vars
    <2> SUFFICES ASSUME IInv, Next, NEW r \in Request, Writes(r), "rows" \notin stale[r],
                        NEW u \in Stored(rows), rows'[u] # NoUser, op[r].id = u, rows' # rows
                 PROVE  SameColumns(op[r].kind, rows[u], rows'[u])
        BY WrittenRow DEF Stored
    <2>1. stage[r] = "write" /\ rows[u] \in User /\ rows[u] # NoUser
        BY DEF Writes, IInv, TypeOK, Stored
    <2>2. op[r].kind \in Kind /\ op[r].kind # "create"
        BY <2>1 DEF IInv, TypeOK, Operation, NewIds
    <2>3. seen[r] = rows[u]
        BY <2>1, <2>2, AboutToWrite
    <2>4. CASE op[r].kind = "update" /\ rows'[u] = Written(op[r], seen[r])
        BY <2>1, <2>2, <2>3, <2>4 DEF SameColumns, Written, Edited, User
    <2>5. CASE op[r].kind = "profile" /\ rows'[u] = Written(op[r], seen[r])
        <3>1. rows'[u] = [rows[u] EXCEPT !.email = op[r].email,
                            !.verified = (op[r].email = rows[u].email) /\ rows[u].verified]
            BY <2>3, <2>5 DEF Written, EditedProfile
        <3>2. /\ rows'[u].role = rows[u].role /\ rows'[u].disabled = rows[u].disabled
              /\ rows'[u].password = rows[u].password
              /\ rows'[u].email = op[r].email
              /\ rows'[u].verified = ((op[r].email = rows[u].email) /\ rows[u].verified)
            BY <2>1, <3>1 DEF User
        <3>3. rows'[u].verified => rows[u].verified /\ rows'[u].email = rows[u].email
            BY <3>2
        <3> QED
            BY <2>5, <3>2, <3>3 DEF SameColumns
    <2>6. CASE /\ op[r].kind \in {"setPassword", "changePassword"}
               /\ \E p \in Nat : rows'[u] = [rows[u] EXCEPT !.password = p]
        <3>1. PICK p \in Nat : rows'[u] = [rows[u] EXCEPT !.password = p]
            BY <2>6
        <3>2. [rows'[u] EXCEPT !.password = rows[u].password] = rows[u]
            BY <2>1, <3>1 DEF User
        <3> QED
            BY <2>2, <2>6, <3>2 DEF SameColumns
    <2> QED
        BY <2>1, <2>2, <2>4, <2>5, <2>6, WrittenRow
<1> QED
    BY <1>1, InvariantHolds, PTL DEF Spec, FreshWritesKeepToTheirColumns

\* A request of an actor whose row nobody wrote behind it is a manager's, and
\* leaves the actor an account that is not locked.
THEOREM UsersManagersKeepTheirAccount == Spec => ManagersKeepTheirAccount
<1>1. IInv /\ [Next]_vars =>
        [\A r \in Request :
            LET actor == op[r].by IN
            Writes(r) /\ actor # NoUser /\ "actor" \notin stale[r] =>
                /\ rows[actor] # NoUser /\ IsManagementRole(rows[actor].role)
                /\ rows'[actor] # NoUser
                /\ rows'[actor].disabled => rows[actor].disabled]_vars
    <2> SUFFICES ASSUME IInv, Next, NEW r \in Request, Writes(r), op[r].by # NoUser,
                        "actor" \notin stale[r]
                 PROVE  LET actor == op[r].by IN
                        /\ rows[actor] # NoUser /\ IsManagementRole(rows[actor].role)
                        /\ rows'[actor] # NoUser
                        /\ rows'[actor].disabled => rows[actor].disabled
        OBVIOUS
    <2> DEFINE actor == op[r].by
    <2>1. stage[r] = "write" /\ actor \in UserId /\ op[r] \in Operation
        BY DEF Writes, IInv, TypeOK, Operation
    <2>2. /\ ~SelfRefused(op[r]) /\ "rows" \notin stale[r]
          /\ rows[actor] # NoUser /\ IsManagementRole(rows[actor].role)
        BY <2>1 DEF IInv, ActorHolds, Acting
    <2>3. CASE op[r].id # actor \/ rows' = rows
        BY <2>1, <2>2, <2>3, WrittenRow
    <2>4. CASE op[r].id = actor /\ rows' # rows
        <3>1. op[r].kind \notin {"create", "delete"} /\ (op[r].kind = "update" => op[r].disable # "lock")
            BY <2>2, <2>4 DEF SelfRefused, IInv, NewIds
        <3>2. seen[r] = rows[actor] /\ seen[r] \in User
            BY <2>1, <2>2, <2>4, <3>1, AboutToWrite
        <3>3. CASE rows'[actor] = Written(op[r], seen[r])
            <4>1. rows'[actor] \in User
                BY <2>1, <3>2, <3>3, EditedShape
            <4>2. rows'[actor].disabled => rows[actor].disabled
                <5>1. CASE op[r].kind = "update"
                    <6>1. op[r].disable \in {"keep", "unlock"}
                        BY <2>1, <3>1, <5>1 DEF Operation
                    <6> QED
                        BY <3>2, <3>3, <5>1, <6>1 DEF Written, Edited, User
                <5>2. CASE op[r].kind # "update"
                    BY <2>1, <3>2, <3>3, <5>2, EditedShape
                <5> QED
                    BY <5>1, <5>2
            <4> QED
                BY <2>2, <4>1, <4>2, UsersAssumption
        <3>4. CASE \E p \in Nat : rows'[actor] = [rows[actor] EXCEPT !.password = p]
            <4>1. PICK p \in Nat : rows'[actor] = [rows[actor] EXCEPT !.password = p]
                BY <3>4
            <4>2. rows'[actor] \in User /\ rows'[actor].disabled = rows[actor].disabled
                BY <3>2, <4>1 DEF User
            <4> QED
                BY <2>2, <4>2, UsersAssumption
        <3>5. \/ rows'[actor] = Written(op[r], seen[r])
              \/ \E p \in Nat : rows'[actor] = [rows[actor] EXCEPT !.password = p]
            <4> HIDE DEF actor
            <4> QED
                BY <2>2, <2>4, <3>1, WrittenRow
        <3> QED
            BY <3>3, <3>4, <3>5
    <2> QED
        BY <2>3, <2>4
<1> QED
    BY <1>1, InvariantHolds, PTL DEF Spec, ManagersKeepTheirAccount

=============================================================================
