------------------------ MODULE Impersonation_proofs ------------------------
(***************************************************************************)
(* What the switches of Impersonation never do, for any guards, users,     *)
(* roles and rules, and any number of changes of users.                    *)
(***************************************************************************)
EXTENDS Impersonation, TLAPS

-----------------------------------------------------------------------------
(* The inductive invariant *)

\* A request knows its guard, its route's stage and what the stages it has passed
\* have read; while it is served the session holds the user that Authenticated
\* injected.
InFlight ==
    /\ req.stage = "idle" => req.route = "none"
    /\ req.stage = "target" => req.route = "start"
    /\ req.stage \in {"owner", "create"} => req.route = "issue"
    /\ req.stage # "idle" => req.guard \in Guard /\ req.answer = "none"
    /\ req.stage = "remember" => jar[req.guard] \in User
    /\ req.stage = "serve" => req.user \in User /\ sess[req.guard].user = req.user
    /\ req.stage \in {"target", "owner", "create"} =>
          req.actor \in User /\ req.target \in User

\* A switch that is under way leaves a login that is the actor's own.
FromOwnLogin ==
    req.stage = "target" =>
        /\ acting[req.guard] = Nobody
        /\ req.actor \in entered[req.guard]
        /\ Home[req.actor] = req.guard

\* What the request knows of its actor is true, unless the row has changed since
\* the request began.
KnowsActor ==
    /\ req.stage = "serve" => Active(req.user) \/ req.user \in changed
    /\ req.stage \in {"target", "owner", "create"} =>
          \/ Active(req.actor) /\ rows[req.actor].role = req.role
          \/ req.actor \in changed

\* A token about to be created was authorized, under the same condition.
KnowsTarget ==
    req.stage = "create" =>
        \/ MayImpersonate(req.actor, req.target)
        \/ {req.actor, req.target} \cap changed # {}

\* Whoever a guard's login is for entered it there, or was switched into it by
\* somebody; an actor of the same guard had entered it.
Entered ==
    \A g \in Guard :
        /\ sess[g].user # Nobody /\ acting[g] = Nobody => sess[g].user \in entered[g]
        /\ acting[g] # Nobody /\ Home[acting[g]] = g => acting[g] \in entered[g]

IInv ==
    /\ TypeOK
    /\ ImpersonatedIsMarked
    /\ InFlight
    /\ FromOwnLogin
    /\ KnowsActor
    /\ KnowsTarget
    /\ Entered

-----------------------------------------------------------------------------

\* The initial states satisfy the inductive invariant.
THEOREM InitEstablishes == Init => IInv
<1> SUFFICES ASSUME Init PROVE IInv
    OBVIOUS
<1> USE ImpersonationAssumption
<1>1. TypeOK
    <2>0. ASSUME NEW u \in User PROVE rows[u] \in Row
        <3>1. rows[u] \in [role: Role, disabled: {FALSE}, password: {1}]
            BY DEF Init
        <3>2. PICK r \in Role : rows[u] = [role |-> r, disabled |-> FALSE, password |-> 1]
            BY <3>1
        <3>3. [role |-> r, disabled |-> FALSE, password |-> 1] \in Row
            BY DEF Row
        <3> QED
            BY <3>2, <3>3
    <2>1. rows \in [User -> Row \cup {Nobody}]
        BY <2>0 DEF Init
    <2>2. sess \in [Guard -> Slot] /\ \A g \in Guard : sess[g].user = Nobody
        BY DEF Init, Slot, EmptySlot
    <2>3. req \in Request
        BY DEF Init, Request, Idle, Stage, Route
    <2> QED
        BY <2>1, <2>2, <2>3 DEF Init, TypeOK
<1>2. ImpersonatedIsMarked /\ Entered
    BY DEF Init, ImpersonatedIsMarked, Entered, EmptySlot
<1>3. InFlight /\ FromOwnLogin /\ KnowsActor /\ KnowsTarget
    BY DEF Init, InFlight, FromOwnLogin, KnowsActor, KnowsTarget, Idle
<1> QED
    BY <1>1, <1>2, <1>3 DEF IInv

(* What steps have in common *)

\* A request that is over knows nothing.
LEMMA NothingInFlight ==
    ASSUME req'.stage = "idle", req'.route = "none"
    PROVE  InFlight' /\ FromOwnLogin' /\ KnowsActor' /\ KnowsTarget'
BY DEF InFlight, FromOwnLogin, KnowsActor, KnowsTarget

LEMMA AnswerEnds ==
    ASSUME NEW answer \in {"ok", "refused"}, Answer(answer)
    PROVE  /\ req' \in Request /\ req'.stage = "idle" /\ req'.route = "none"
           /\ req'.answer = answer
BY DEF Answer, Idle, Request, Stage, Route

\* What is said of the logins holds when no login is touched.
LEMMA LoginsUntouched ==
    ASSUME IInv, req' \in Request, UNCHANGED <<rows, sess, jar, edits, acting, entered, changed>>
    PROVE  TypeOK' /\ ImpersonatedIsMarked' /\ Entered'
BY DEF IInv, TypeOK, ImpersonatedIsMarked, Entered

\* It holds when one login is replaced by a slot of its guard's users, with the
\* marker of who switched into it.
LEMMA OneLoginReplaced ==
    ASSUME IInv, NEW g \in Guard, NEW slot \in Slot, NEW actor \in User \cup {Nobody},
           SetSlot(g, slot),
           ActsFor(g, actor),
           slot.user \in UsersOf(g) \cup {Nobody},
           actor # Nobody => slot.marker = actor,
           entered' \in [Guard -> SUBSET User],
           \A h \in Guard \ {g} : entered'[h] = entered[h],
           slot.user # Nobody /\ actor = Nobody => slot.user \in entered'[g],
           actor # Nobody /\ Home[actor] = g => actor \in entered'[g]
    PROVE  /\ sess' \in [Guard -> Slot] /\ acting' \in [Guard -> User \cup {Nobody}]
           /\ \A h \in Guard : sess'[h].user \in UsersOf(h) \cup {Nobody}
           /\ ImpersonatedIsMarked'
           /\ Entered'
<1>1. /\ sess' = [sess EXCEPT ![g] = slot]
      /\ acting' = [acting EXCEPT ![g] = actor]
    BY DEF SetSlot, ActsFor
<1>2. /\ sess \in [Guard -> Slot] /\ acting \in [Guard -> User \cup {Nobody}]
      /\ \A h \in Guard : sess[h].user \in UsersOf(h) \cup {Nobody}
    BY DEF IInv, TypeOK
<1>3. /\ sess' \in [Guard -> Slot] /\ acting' \in [Guard -> User \cup {Nobody}]
      /\ \A h \in Guard : sess'[h].user \in UsersOf(h) \cup {Nobody}
    BY <1>1, <1>2
<1>4. ImpersonatedIsMarked'
    BY <1>1, <1>2 DEF IInv, ImpersonatedIsMarked
<1>5. Entered'
    BY <1>1, <1>2 DEF IInv, Entered
<1> QED
    BY <1>3, <1>4, <1>5

(* Steps, one lemma each *)

LEMMA LoginStep ==
    ASSUME IInv, NEW u \in User, NEW remember \in BOOLEAN, Login(u, remember)
    PROVE  IInv'
<1> USE ImpersonationAssumption
<1> DEFINE g == Home[u]
           slot == [sess[g] EXCEPT !.user = u, !.stamp = rows[u].password, !.tracked = TRUE]
<1>1. /\ g \in Guard
      /\ rows[u] \in Row
      /\ sess[g] \in Slot
      /\ u # Nobody
    BY DEF Login, IInv, TypeOK, Active, Exists
<1>2. slot \in Slot /\ slot.user = u
    BY <1>1 DEF Slot, Row
<1>3. /\ SetSlot(g, slot)
      /\ ActsFor(g, Nobody)
      /\ entered' = [entered EXCEPT ![g] = @ \cup {u}]
      /\ jar' = [jar EXCEPT ![g] = IF remember THEN u ELSE @]
      /\ req.stage = "idle"
      /\ UNCHANGED <<rows, req, edits, changed>>
    BY DEF Login
<1> HIDE DEF slot
<1>4. u \in UsersOf(g)
    BY DEF UsersOf
<1>5. entered' \in [Guard -> SUBSET User] /\ jar' \in [Guard -> User \cup {Nobody}]
      /\ \A h \in Guard : jar'[h] \in UsersOf(h) \cup {Nobody}
    BY <1>1, <1>3, <1>4 DEF IInv, TypeOK
<1>6. /\ sess' \in [Guard -> Slot] /\ acting' \in [Guard -> User \cup {Nobody}]
      /\ \A h \in Guard : sess'[h].user \in UsersOf(h) \cup {Nobody}
      /\ ImpersonatedIsMarked'
      /\ Entered'
    <2>1. \A h \in Guard \ {g} : entered'[h] = entered[h]
        BY <1>3 DEF IInv, TypeOK
    <2>2. u \in entered'[g]
        BY <1>1, <1>3 DEF IInv, TypeOK
    <2> QED
        BY <1>1, <1>2, <1>3, <1>4, <1>5, <2>1, <2>2, OneLoginReplaced
<1>7. TypeOK'
    BY <1>3, <1>5, <1>6 DEF IInv, TypeOK
<1>8. InFlight' /\ FromOwnLogin' /\ KnowsActor' /\ KnowsTarget'
    BY <1>3, NothingInFlight DEF IInv, InFlight
<1> QED
    BY <1>6, <1>7, <1>8 DEF IInv

LEMMA ReceiveStep ==
    ASSUME IInv, NEW g \in Guard, NEW route \in Route, Receive(g, route)
    PROVE  IInv'
<1>1. /\ req' \in Request /\ req'.guard = g /\ req'.answer = "none"
      /\ req'.stage = "authenticate" \/ (req'.stage = "remember" /\ jar[g] # Nobody)
    BY DEF Receive, Idle, Request, Stage, Route
<1>2. changed' = {} /\ UNCHANGED <<rows, sess, jar, edits, acting, entered>>
    BY DEF Receive
<1>3. TypeOK' /\ ImpersonatedIsMarked' /\ Entered'
    BY <1>1, <1>2 DEF IInv, TypeOK, ImpersonatedIsMarked, Entered
<1>4. InFlight'
    BY <1>1, <1>2 DEF IInv, TypeOK, UsersOf, InFlight
<1>5. FromOwnLogin' /\ KnowsActor' /\ KnowsTarget'
    BY <1>1 DEF FromOwnLogin, KnowsActor, KnowsTarget
<1> QED
    BY <1>3, <1>4, <1>5 DEF IInv

LEMMA RememberLoginStep ==
    ASSUME IInv, RememberLogin
    PROVE  IInv'
<1> USE ImpersonationAssumption
<1> DEFINE g == req.guard
           u == jar[g]
           slot == [sess[g] EXCEPT !.user = u, !.stamp = rows[u].password, !.tracked = TRUE]
<1>1. /\ g \in Guard /\ req.answer = "none" /\ u \in User /\ u \in UsersOf(g)
      /\ u # Nobody /\ sess[g] \in Slot
    BY DEF RememberLogin, IInv, InFlight, TypeOK, UsersOf
<1>2. req' \in Request /\ req'.stage = "authenticate" /\ req'.guard = g
      /\ req'.answer = "none"
    BY <1>1 DEF RememberLogin, IInv, TypeOK, Goto, Request, Stage
<1>3. InFlight' /\ FromOwnLogin' /\ KnowsActor' /\ KnowsTarget'
    BY <1>1, <1>2 DEF InFlight, FromOwnLogin, KnowsActor, KnowsTarget
<1>4. UNCHANGED <<rows, edits, changed>>
    BY DEF RememberLogin
<1>5. CASE /\ Active(u)
           /\ SetSlot(g, slot)
           /\ ActsFor(g, Nobody)
           /\ entered' = [entered EXCEPT ![g] = @ \cup {u}]
           /\ UNCHANGED jar
    <2>1. rows[u] \in Row
        BY <1>1, <1>5 DEF IInv, TypeOK, Active, Exists
    <2>2. slot \in Slot /\ slot.user = u
        BY <1>1, <2>1 DEF Slot, Row
    <2> HIDE DEF slot
    <2>3. entered' \in [Guard -> SUBSET User]
          /\ (\A h \in Guard \ {g} : entered'[h] = entered[h]) /\ u \in entered'[g]
        BY <1>1, <1>5 DEF IInv, TypeOK
    <2>4. /\ sess' \in [Guard -> Slot] /\ acting' \in [Guard -> User \cup {Nobody}]
          /\ \A h \in Guard : sess'[h].user \in UsersOf(h) \cup {Nobody}
          /\ ImpersonatedIsMarked'
          /\ Entered'
        BY <1>1, <1>5, <2>2, <2>3, OneLoginReplaced
    <2>5. TypeOK'
        BY <1>2, <1>4, <1>5, <2>3, <2>4 DEF IInv, TypeOK
    <2> QED
        BY <1>3, <2>4, <2>5 DEF IInv
<1>6. CASE jar' = [jar EXCEPT ![g] = Nobody] /\ UNCHANGED <<sess, acting, entered>>
    <2>1. TypeOK'
        BY <1>1, <1>2, <1>4, <1>6 DEF IInv, TypeOK
    <2>2. ImpersonatedIsMarked' /\ Entered'
        BY <1>6 DEF IInv, ImpersonatedIsMarked, Entered
    <2> QED
        BY <1>3, <2>1, <2>2 DEF IInv
<1> QED
    BY <1>5, <1>6 DEF RememberLogin

LEMMA AuthenticateStep ==
    ASSUME IInv, Authenticate
    PROVE  IInv'
<1> USE ImpersonationAssumption
<1> DEFINE g == req.guard
           slot == sess[g]
           loggedOut == IF rows[slot.user].disabled THEN LoggedOut(slot)
                        ELSE [LoggedOut(slot) EXCEPT !.stamp = 0]
<1>1. /\ g \in Guard /\ req \in Request /\ req.answer = "none" /\ slot \in Slot
      /\ slot.user \in UsersOf(g) \cup {Nobody}
    BY DEF Authenticate, IInv, InFlight, TypeOK
<1>2. UNCHANGED <<rows, jar, edits, entered, changed>>
    BY DEF Authenticate
<1>3. LoggedOut(slot) \in Slot /\ LoggedOut(slot).user = Nobody
    BY <1>1 DEF LoggedOut, Slot
<1>4. loggedOut \in Slot /\ loggedOut.user = Nobody
    BY <1>1 DEF LoggedOut, Slot
<1> HIDE DEF loggedOut
<1>5. ASSUME NEW ended \in Slot, ended.user = Nobody, SetSlot(g, ended), ActsFor(g, Nobody),
             Answer("refused")
      PROVE  IInv'
    <2>1. req' \in Request /\ InFlight' /\ FromOwnLogin' /\ KnowsActor' /\ KnowsTarget'
        BY <1>5, AnswerEnds, NothingInFlight
    <2>2. entered' \in [Guard -> SUBSET User] /\ \A h \in Guard : entered'[h] = entered[h]
        BY <1>2 DEF IInv, TypeOK
    <2>3. /\ sess' \in [Guard -> Slot] /\ acting' \in [Guard -> User \cup {Nobody}]
          /\ \A h \in Guard : sess'[h].user \in UsersOf(h) \cup {Nobody}
          /\ ImpersonatedIsMarked'
          /\ Entered'
        BY <1>1, <1>5, <2>2, OneLoginReplaced
    <2>4. TypeOK'
        BY <1>2, <2>1, <2>3 DEF IInv, TypeOK
    <2> QED
        BY <2>1, <2>3, <2>4 DEF IInv
<1>6. CASE /\ Admitted(g)
           /\ req' = [req EXCEPT !.stage = "serve", !.user = slot.user]
           /\ UNCHANGED <<sess, acting>>
    <2>1. slot.user \in User /\ Active(slot.user)
        BY <1>1, <1>6 DEF Admitted, UsersOf
    <2>2. req' \in Request /\ req'.stage = "serve" /\ req'.guard = g
          /\ req'.answer = "none" /\ req'.user = slot.user
        BY <1>1, <1>6, <2>1 DEF Request, Stage
    <2>3. TypeOK' /\ ImpersonatedIsMarked' /\ Entered'
        BY <1>2, <1>6, <2>2, LoginsUntouched
    <2>4. InFlight' /\ FromOwnLogin' /\ KnowsActor' /\ KnowsTarget'
        BY <1>1, <1>2, <1>6, <2>1, <2>2
           DEF InFlight, FromOwnLogin, KnowsActor, KnowsTarget, Active, Exists
    <2> QED
        BY <2>3, <2>4 DEF IInv
<1>7. CASE /\ SetSlot(g, loggedOut)
           /\ ActsFor(g, Nobody)
           /\ Answer("refused")
    BY <1>4, <1>5, <1>7
<1>8. CASE /\ SetSlot(g, LoggedOut(slot))
           /\ ActsFor(g, Nobody)
           /\ Answer("refused")
    BY <1>3, <1>5, <1>8
<1> QED
    BY <1>6, <1>7, <1>8 DEF Authenticate, loggedOut

LEMMA LogoutStep ==
    ASSUME IInv, Logout
    PROVE  IInv'
<1> USE ImpersonationAssumption
<1> DEFINE g == req.guard
           slot == [LoggedOut(sess[g]) EXCEPT !.stamp = 0, !.tracked = FALSE]
<1>1. g \in Guard /\ sess[g] \in Slot
    BY DEF Logout, IInv, InFlight, TypeOK
<1>2. slot \in Slot /\ slot.user = Nobody
    BY <1>1 DEF LoggedOut, Slot
<1>3. /\ SetSlot(g, slot) /\ ActsFor(g, Nobody) /\ Answer("ok")
      /\ jar' = [jar EXCEPT ![g] = Nobody]
      /\ entered' = [entered EXCEPT ![g] = {}]
      /\ UNCHANGED <<rows, edits, changed>>
    BY DEF Logout
<1> HIDE DEF slot
<1>4. req' \in Request /\ InFlight' /\ FromOwnLogin' /\ KnowsActor' /\ KnowsTarget'
    BY <1>3, AnswerEnds, NothingInFlight
<1>5. entered' \in [Guard -> SUBSET User] /\ \A h \in Guard \ {g} : entered'[h] = entered[h]
    BY <1>1, <1>3 DEF IInv, TypeOK
<1>6. /\ sess' \in [Guard -> Slot] /\ acting' \in [Guard -> User \cup {Nobody}]
      /\ \A h \in Guard : sess'[h].user \in UsersOf(h) \cup {Nobody}
      /\ ImpersonatedIsMarked'
      /\ Entered'
    BY <1>1, <1>2, <1>3, <1>5, OneLoginReplaced
<1>7. TypeOK'
    BY <1>1, <1>3, <1>4, <1>5, <1>6 DEF IInv, TypeOK
<1> QED
    BY <1>4, <1>6, <1>7 DEF IInv

LEMMA ServeSensitiveStep ==
    ASSUME IInv, ServeSensitive
    PROVE  IInv'
<1> USE ImpersonationAssumption
<1> DEFINE g == req.guard
           u == req.user
           slot == [sess[g] EXCEPT !.stamp = rows[u].password + 1]
<1>1. g \in Guard /\ sess[g] \in Slot /\ u \in User
    BY DEF ServeSensitive, IInv, InFlight, TypeOK
<1>2. req' \in Request /\ InFlight' /\ FromOwnLogin' /\ KnowsActor' /\ KnowsTarget'
    BY AnswerEnds, NothingInFlight DEF ServeSensitive
<1>3. UNCHANGED <<acting, entered>>
    BY DEF ServeSensitive
<1>4. CASE UNCHANGED <<rows, sess, jar, edits, changed>>
    BY <1>2, <1>3, <1>4, LoginsUntouched DEF IInv
<1>5. CASE /\ Exists(u)
           /\ edits' = edits + 1
           /\ rows' = [rows EXCEPT ![u].password = @ + 1]
           /\ changed' = changed \cup {u}
           /\ SetSlot(g, slot)
           /\ jar' = [jar EXCEPT ![g] = Nobody]
    <2>1. rows[u] \in Row
        BY <1>1, <1>5 DEF IInv, TypeOK, Exists
    <2>2. /\ slot \in Slot /\ slot.user = sess[g].user /\ slot.marker = sess[g].marker
          /\ [rows[u] EXCEPT !.password = @ + 1] \in Row
        BY <1>1, <2>1 DEF Slot, Row
    <2>3. sess' = [sess EXCEPT ![g] = slot] /\ rows' = [rows EXCEPT ![u] = [rows[u] EXCEPT !.password = @ + 1]]
        BY <1>1, <1>5 DEF SetSlot, IInv, TypeOK
    <2> HIDE DEF slot
    <2>4. rows' \in [User -> Row \cup {Nobody}] /\ sess' \in [Guard -> Slot]
          /\ \A h \in Guard : sess'[h].user = sess[h].user /\ sess'[h].marker = sess[h].marker
        BY <1>1, <2>2, <2>3 DEF IInv, TypeOK
    <2>5. TypeOK'
        <3>1. jar' \in [Guard -> User \cup {Nobody}]
              /\ \A h \in Guard : jar'[h] \in UsersOf(h) \cup {Nobody}
            BY <1>1, <1>5 DEF IInv, TypeOK
        <3>2. edits' \in Nat /\ changed' \in SUBSET User
            BY <1>1, <1>5 DEF IInv, TypeOK
        <3> QED
            BY <1>2, <1>3, <2>4, <3>1, <3>2 DEF IInv, TypeOK
    <2>6. ImpersonatedIsMarked' /\ Entered'
        BY <1>3, <2>4 DEF IInv, ImpersonatedIsMarked, Entered
    <2> QED
        BY <1>2, <2>5, <2>6 DEF IInv
<1> QED
    BY <1>4, <1>5 DEF ServeSensitive

LEMMA StartReadsActorStep ==
    ASSUME IInv, StartReadsActor
    PROVE  IInv'
<1> USE ImpersonationAssumption
<1>1. PICK t \in User \ {req.user} :
         req' = [req EXCEPT !.stage = "target", !.actor = req.user, !.target = t,
                            !.role = rows[req.user].role]
    BY DEF StartReadsActor
<1>2. /\ req.stage = "serve" /\ req.guard \in Guard /\ req.user \in User
      /\ sess[req.guard].user = req.user /\ req.answer = "none" /\ req \in Request
      /\ rows[req.user] \in Row
      /\ sess[req.guard].marker = Nobody
    BY DEF StartReadsActor, IInv, InFlight, TypeOK, Exists, Rejected, IsImpersonating
<1>3. UNCHANGED <<rows, sess, jar, edits, acting, entered, changed>>
    BY DEF StartReadsActor
<1>4. /\ req' \in Request /\ req'.stage = "target" /\ req'.guard = req.guard
      /\ req'.actor = req.user /\ req'.target = t /\ req'.answer = "none"
      /\ req'.route = "start"
      /\ req'.role = rows[req.user].role
    <2>1. rows[req.user].role \in Role
        BY <1>2 DEF Row
    <2> QED
        BY <1>1, <1>2, <2>1 DEF Request, Stage, StartReadsActor
<1>5. TypeOK' /\ ImpersonatedIsMarked' /\ Entered'
    BY <1>3, <1>4, LoginsUntouched
<1>6. InFlight'
    BY <1>2, <1>4 DEF InFlight
<1>7. FromOwnLogin'
    <2>1. acting[req.guard] = Nobody
        BY <1>2 DEF IInv, ImpersonatedIsMarked
    <2>2. req.user \in entered[req.guard] /\ Home[req.user] = req.guard
        BY <1>2, <2>1 DEF IInv, Entered, TypeOK, UsersOf
    <2> QED
        BY <1>3, <1>4, <2>1, <2>2 DEF FromOwnLogin
<1>8. KnowsActor' /\ KnowsTarget'
    BY <1>2, <1>3, <1>4 DEF IInv, KnowsActor, KnowsTarget, Active, Exists
<1> QED
    BY <1>5, <1>6, <1>7, <1>8 DEF IInv

LEMMA StartSwitchesStep ==
    ASSUME IInv, StartSwitches
    PROVE  IInv'
<1> USE ImpersonationAssumption
<1> DEFINE t == req.target
           h == Home[t]
           a == req.actor
           slot == [sess[h] EXCEPT !.user = t, !.stamp = rows[t].password, !.marker = a]
<1>1. /\ req.stage = "target" /\ t \in User /\ a \in User /\ h \in Guard
      /\ sess \in [Guard -> Slot] /\ sess[h] \in Slot /\ rows[t] \in Row /\ t # Nobody
      /\ a \in entered[req.guard] /\ Home[a] = req.guard
    BY DEF StartSwitches, IInv, InFlight, FromOwnLogin, TypeOK, Active, Exists
<1>2. /\ ActsFor(h, a) /\ Answer("ok")
      /\ UNCHANGED <<rows, jar, edits, entered, changed>>
    BY DEF StartSwitches
<1>3. SetSlot(h, slot)
    BY <1>1 DEF StartSwitches, MarkedGuard, SetSlot
<1>4. slot \in Slot /\ slot.user = t /\ slot.marker = a
    BY <1>1 DEF Slot, Row
<1> HIDE DEF slot
<1>5. req' \in Request /\ InFlight' /\ FromOwnLogin' /\ KnowsActor' /\ KnowsTarget'
    BY <1>2, AnswerEnds, NothingInFlight
<1>6. /\ entered' \in [Guard -> SUBSET User]
      /\ \A k \in Guard : entered'[k] = entered[k]
      /\ t \in UsersOf(h)
      /\ Home[a] = h => a \in entered'[h]
    BY <1>1, <1>2 DEF IInv, TypeOK, UsersOf
<1>7. /\ sess' \in [Guard -> Slot] /\ acting' \in [Guard -> User \cup {Nobody}]
      /\ \A k \in Guard : sess'[k].user \in UsersOf(k) \cup {Nobody}
      /\ ImpersonatedIsMarked'
      /\ Entered'
    BY <1>1, <1>2, <1>3, <1>4, <1>6, OneLoginReplaced
<1>8. TypeOK'
    BY <1>2, <1>5, <1>7 DEF IInv, TypeOK
<1> QED
    BY <1>5, <1>7, <1>8 DEF IInv

LEMMA StopStep ==
    ASSUME IInv, Stop
    PROVE  IInv'
<1> USE ImpersonationAssumption
<1> DEFINE g == req.guard
           a == sess[g].marker
<1>1. /\ g \in Guard /\ sess[g] \in Slot /\ a \in User
    BY DEF Stop, IsImpersonating, IInv, InFlight, TypeOK, Slot
<1>2. /\ ActsFor(g, Nobody) /\ Answer("ok")
      /\ entered' = [entered EXCEPT ![g] = @ \cup ({sess'[g].user} \ {Nobody})]
      /\ UNCHANGED <<rows, jar, edits, changed>>
    BY DEF Stop
<1>3. req' \in Request /\ InFlight' /\ FromOwnLogin' /\ KnowsActor' /\ KnowsTarget'
    BY <1>2, AnswerEnds, NothingInFlight
<1>4. ASSUME NEW slot \in Slot, SetSlot(g, slot), slot.user \in UsersOf(g) \cup {Nobody}
      PROVE  IInv'
    <2>1. sess'[g] = slot
        BY <1>1, <1>4 DEF SetSlot, IInv, TypeOK
    <2>2. /\ entered' \in [Guard -> SUBSET User]
          /\ \A h \in Guard \ {g} : entered'[h] = entered[h]
          /\ slot.user # Nobody => slot.user \in entered'[g]
        BY <1>1, <1>2, <1>4, <2>1 DEF IInv, TypeOK, UsersOf
    <2>3. /\ sess' \in [Guard -> Slot] /\ acting' \in [Guard -> User \cup {Nobody}]
          /\ \A h \in Guard : sess'[h].user \in UsersOf(h) \cup {Nobody}
          /\ ImpersonatedIsMarked'
          /\ Entered'
        BY <1>1, <1>2, <1>4, <2>2, OneLoginReplaced
    <2>4. TypeOK'
        BY <1>2, <1>3, <2>2, <2>3 DEF IInv, TypeOK
    <2> QED
        BY <1>3, <2>3, <2>4 DEF IInv
<1>5. CASE SameGuard(g) /\ Exists(a) /\ SetSlot(g, Restored(g))
    <2>1. rows[a] \in Row /\ a \in UsersOf(g)
        BY <1>1, <1>5 DEF IInv, TypeOK, Exists, SameGuard, UsersOf
    <2>2. Restored(g) \in Slot /\ Restored(g).user = a
        BY <1>1, <2>1 DEF Restored, Slot, Row
    <2> QED
        BY <1>4, <1>5, <2>1, <2>2
<1>6. CASE SetSlot(g, Dropped(g))
    <2>1. Dropped(g) \in Slot /\ Dropped(g).user = Nobody
        BY <1>1 DEF Dropped, LoggedOut, Slot
    <2> QED
        BY <1>4, <1>6, <2>1
<1> QED
    BY <1>5, <1>6 DEF Stop

LEMMA IssueReadsActorStep ==
    ASSUME IInv, IssueReadsActor
    PROVE  IInv'
<1> USE ImpersonationAssumption
<1> DEFINE m == sess[req.guard].marker
<1>1. /\ req.stage = "serve" /\ req.guard \in Guard /\ req.user \in User
      /\ req.answer = "none" /\ req \in Request
      /\ m \in User /\ rows[m] \in Row /\ Active(m)
    BY DEF IssueReadsActor, IInv, InFlight, TypeOK, Slot, Active, Exists, IsImpersonating
<1>2. req' = [req EXCEPT !.stage = "owner", !.actor = m, !.target = req.user,
                         !.role = rows[m].role]
      /\ UNCHANGED <<rows, sess, jar, edits, acting, entered, changed>>
    BY DEF IssueReadsActor
<1>3. /\ req' \in Request /\ req'.stage = "owner" /\ req'.guard = req.guard
      /\ req'.actor = m /\ req'.target = req.user /\ req'.answer = "none"
      /\ req'.route = "issue"
      /\ req'.role = rows[m].role
    <2>1. rows[m].role \in Role
        BY <1>1 DEF Row
    <2> QED
        BY <1>1, <1>2, <2>1 DEF Request, Stage, IssueReadsActor
<1>4. TypeOK' /\ ImpersonatedIsMarked' /\ Entered'
    BY <1>2, <1>3, LoginsUntouched
<1>5. InFlight' /\ FromOwnLogin' /\ KnowsTarget'
    BY <1>1, <1>3 DEF InFlight, FromOwnLogin, KnowsTarget
<1>6. KnowsActor'
    BY <1>1, <1>2, <1>3 DEF KnowsActor, Active, Exists
<1> QED
    BY <1>4, <1>5, <1>6 DEF IInv

LEMMA IssueReadsOwnerStep ==
    ASSUME IInv, IssueReadsOwner
    PROVE  IInv'
<1>1. /\ req.stage = "owner" /\ req \in Request /\ req.guard \in Guard
      /\ req.answer = "none" /\ req.actor \in User /\ req.target \in User
      /\ req.route = "issue"
    BY DEF IssueReadsOwner, IInv, InFlight, TypeOK
<1>2. /\ req' \in Request /\ req'.stage = "create" /\ req'.guard = req.guard
      /\ req'.answer = "none" /\ req'.actor = req.actor /\ req'.target = req.target
      /\ req'.role = req.role /\ req'.route = "issue"
    BY <1>1 DEF IssueReadsOwner, Goto, Request, Stage
<1>3. UNCHANGED <<rows, sess, jar, edits, acting, entered, changed>>
    BY DEF IssueReadsOwner
<1>4. TypeOK' /\ ImpersonatedIsMarked' /\ Entered'
    BY <1>2, <1>3, LoginsUntouched
<1>5. InFlight' /\ FromOwnLogin'
    BY <1>1, <1>2 DEF InFlight, FromOwnLogin
<1>6. \/ Active(req.actor) /\ rows[req.actor].role = req.role
      \/ req.actor \in changed
    BY <1>1 DEF IInv, KnowsActor
<1>7. KnowsActor'
    BY <1>2, <1>3, <1>6 DEF KnowsActor, Active, Exists
<1>8. MayImpersonate(req.actor, req.target) \/ req.actor \in changed
    BY <1>6 DEF IssueReadsOwner, Authorized, MayImpersonate
<1>9. KnowsTarget'
    BY <1>2, <1>3, <1>8 DEF KnowsTarget, MayImpersonate, Active, Exists
<1> QED
    BY <1>4, <1>5, <1>7, <1>9 DEF IInv

\* A request that ends without a change: a refusal, or a token created.
LEMMA QuietEnd ==
    ASSUME IInv, NEW answer \in {"ok", "refused"}, Answer(answer),
           UNCHANGED <<rows, sess, jar, edits, acting, entered, changed>>
    PROVE  IInv'
BY AnswerEnds, NothingInFlight, LoginsUntouched DEF IInv

\* Another session changes a user.
LEMMA EditStep ==
    ASSUME IInv, NEW u \in User, NEW row \in Row \cup {Nobody}, Edit(u, row)
    PROVE  IInv'
<1>1. /\ rows' = [rows EXCEPT ![u] = row] /\ changed' = changed \cup {u} /\ edits' = edits + 1
      /\ UNCHANGED <<sess, jar, req, acting, entered>>
    BY DEF Edit
<1>2. TypeOK'
    BY <1>1 DEF IInv, TypeOK
<1>3. ImpersonatedIsMarked' /\ Entered' /\ InFlight' /\ FromOwnLogin'
    BY <1>1 DEF IInv, ImpersonatedIsMarked, Entered, InFlight, FromOwnLogin
<1>4. \A v \in User : v # u => rows'[v] = rows[v]
    BY <1>1 DEF IInv, TypeOK
<1>5. KnowsActor'
    BY <1>1, <1>4 DEF IInv, InFlight, KnowsActor, Active, Exists
<1>6. KnowsTarget'
    BY <1>1, <1>4 DEF IInv, InFlight, KnowsTarget, MayImpersonate, Active, Exists
<1> QED
    BY <1>2, <1>3, <1>5, <1>6 DEF IInv

LEMMA UpdateStep ==
    ASSUME IInv, NEW u \in User, Update(u)
    PROVE  IInv'
<1>1. PICK role \in Role, disabled \in BOOLEAN :
         Edit(u, [rows[u] EXCEPT !.role = role, !.disabled = disabled])
    BY DEF Update
<1>2. rows[u] \in Row
    BY DEF Update, Exists, IInv, TypeOK
<1>3. [rows[u] EXCEPT !.role = role, !.disabled = disabled] \in Row
    BY <1>2 DEF Row
<1> QED
    BY <1>1, <1>3, EditStep

LEMMA SetPasswordStep ==
    ASSUME IInv, NEW u \in User, SetPassword(u)
    PROVE  IInv'
<1>1. rows[u] \in Row
    BY DEF SetPassword, Exists, IInv, TypeOK
<1>2. [rows[u] EXCEPT !.password = @ + 1] \in Row
    BY <1>1 DEF Row
<1> QED
    BY <1>2, EditStep DEF SetPassword

LEMMA ExpireStep ==
    ASSUME IInv, Expire
    PROVE  IInv'
<1>1. EmptySlot \in Slot /\ EmptySlot.user = Nobody
    BY DEF EmptySlot, Slot
<1>2. /\ sess' = [g \in Guard |-> EmptySlot] /\ acting' = [g \in Guard |-> Nobody]
      /\ req.stage = "idle" /\ UNCHANGED <<rows, jar, req, edits, entered, changed>>
    BY DEF Expire
<1>3. TypeOK'
    BY <1>1, <1>2 DEF IInv, TypeOK
<1>4. ImpersonatedIsMarked' /\ Entered'
    BY <1>1, <1>2 DEF ImpersonatedIsMarked, Entered
<1>5. InFlight' /\ FromOwnLogin' /\ KnowsActor' /\ KnowsTarget'
    BY <1>2, NothingInFlight DEF IInv, InFlight
<1> QED
    BY <1>3, <1>4, <1>5 DEF IInv

\* Every step keeps the inductive invariant.
THEOREM NextPreserves == IInv /\ [Next]_vars => IInv'
<1> SUFFICES ASSUME IInv, [Next]_vars PROVE IInv'
    OBVIOUS
<1>1. ASSUME NEW u \in User, NEW remember \in BOOLEAN, Login(u, remember) PROVE IInv'
    BY <1>1, LoginStep
<1>2. ASSUME NEW g \in Guard, NEW route \in Route, Receive(g, route) PROVE IInv'
    BY <1>2, ReceiveStep
<1>3. CASE RememberLogin
    BY <1>3, RememberLoginStep
<1>4. CASE Authenticate
    BY <1>4, AuthenticateStep
<1>5. CASE Refuse
    BY <1>5, QuietEnd DEF Refuse
<1>6. CASE Logout
    BY <1>6, LogoutStep
<1>7. CASE ServeSensitive
    BY <1>7, ServeSensitiveStep
<1>8. CASE StartReadsActor
    BY <1>8, StartReadsActorStep
<1>9. CASE StartSwitches
    BY <1>9, StartSwitchesStep
<1>10. CASE Stop
    BY <1>10, StopStep
<1>11. CASE IssueReadsActor
    BY <1>11, IssueReadsActorStep
<1>12. CASE IssueReadsOwner
    BY <1>12, IssueReadsOwnerStep
<1>13. CASE Issue
    BY <1>13, QuietEnd DEF Issue
<1>14. ASSUME NEW u \in User, Update(u) \/ SetPassword(u) \/ Delete(u) PROVE IInv'
    BY <1>14, UpdateStep, SetPasswordStep, EditStep DEF Delete
<1>15. CASE Expire
    BY <1>15, ExpireStep
<1>16. CASE UNCHANGED vars
    BY <1>16 DEF vars, IInv, TypeOK, ImpersonatedIsMarked, InFlight, FromOwnLogin,
                 KnowsActor, KnowsTarget, Entered, MayImpersonate, Active, Exists
<1> QED
    BY <1>1, <1>2, <1>3, <1>4, <1>5, <1>6, <1>7, <1>8, <1>9, <1>10, <1>11, <1>12,
       <1>13, <1>14, <1>15, <1>16 DEF Next

\* The inductive invariant holds of every state the code reaches.
THEOREM InvariantHolds == Spec => []IInv
BY InitEstablishes, NextPreserves, PTL DEF Spec

-----------------------------------------------------------------------------
(* The properties *)

\* The session, the request and the users keep their types, and a guard's login
\* and cookie name users of its own table.
THEOREM ImpersonationTypeOK == Spec => []TypeOK
<1>1. IInv => TypeOK
    BY DEF IInv
<1> QED
    BY <1>1, InvariantHolds, PTL

\* A login that somebody switched into carries the marker that says who.
THEOREM ImpersonationMarked == Spec => []ImpersonatedIsMarked
<1>1. IInv => ImpersonatedIsMarked
    BY DEF IInv
<1> QED
    BY <1>1, InvariantHolds, PTL

\* Other sessions' requests are not this session's request.
LEMMA EditKeepsRequest ==
    ASSUME NEW u \in User, Update(u) \/ SetPassword(u) \/ Delete(u)
    PROVE  req' = req
BY DEF Update, SetPassword, Delete, Edit

\* The four ways in which a request is answered with success.
LEMMA Succeeds ==
    ASSUME IInv, Next, req.stage # "idle", req'.answer = "ok"
    PROVE  Logout \/ ServeSensitive \/ StartSwitches \/ Stop \/ Issue
<1>1. req.answer = "none"
    BY DEF IInv, InFlight
<1>2. \A u \in User : Update(u) \/ SetPassword(u) \/ Delete(u) => FALSE
    BY <1>1, EditKeepsRequest
<1>3. ~RememberLogin /\ ~StartReadsActor /\ ~IssueReadsActor /\ ~IssueReadsOwner
    BY <1>1 DEF RememberLogin, StartReadsActor, IssueReadsActor, IssueReadsOwner, Goto,
                IInv, TypeOK, Request
<1>4. ~Authenticate /\ ~Refuse
    BY <1>1 DEF Authenticate, Refuse, Answer, Idle, IInv, TypeOK, Request
<1>5. ~Expire /\ (\A u \in User, remember \in BOOLEAN : ~Login(u, remember))
      /\ (\A g \in Guard, route \in Route : ~Receive(g, route))
    BY DEF Expire, Login, Receive
<1> QED
    BY <1>2, <1>3, <1>4, <1>5 DEF Next

\* In somebody else's login nobody switches further, and nobody reaches the
\* closed routes unless the guard opens them.
THEOREM ImpersonationNothingSensitive == Spec => NothingSensitiveAsAnother
<1>1. IInv /\ [Next]_vars =>
         [/\ Switches => acting[req.guard] = Nobody
          /\ ServesSensitive /\ req.guard \notin Sensitive => acting[req.guard] = Nobody]_vars
    <2> SUFFICES ASSUME IInv, Next
                 PROVE  /\ Switches => acting[req.guard] = Nobody
                        /\ ServesSensitive /\ req.guard \notin Sensitive =>
                              acting[req.guard] = Nobody
        OBVIOUS
    <2>1. Switches => acting[req.guard] = Nobody
        BY DEF Switches, IInv, FromOwnLogin
    <2>2. ASSUME ServesSensitive, req.guard \notin Sensitive
          PROVE  acting[req.guard] = Nobody
        <3>1. ServeSensitive
            BY <2>2, Succeeds
               DEF ServesSensitive, Logout, StartSwitches, Stop, Issue
        <3>2. req.guard \in Guard /\ sess[req.guard].marker = Nobody
            BY <2>2, <3>1 DEF ServeSensitive, Rejected, IsImpersonating, IInv, InFlight
        <3> QED
            BY <3>2 DEF IInv, ImpersonatedIsMarked
    <2> QED
        BY <2>1, <2>2
<1> QED
    BY <1>1, InvariantHolds, PTL DEF Spec, NothingSensitiveAsAnother

\* A switch is made, and a token issued in the actor's name, on authority that
\* holds at that moment, unless one of the two rows changed during the request.
THEOREM ImpersonationAuthorityIsFresh == Spec => AuthorityIsFresh
<1>1. IInv /\ [Next]_vars =>
         [Switches \/ Delegates =>
             \/ MayImpersonate(req.actor, req.target)
             \/ {req.actor, req.target} \cap changed # {}]_vars
    <2> SUFFICES ASSUME IInv, Next, Switches \/ Delegates
                 PROVE  \/ MayImpersonate(req.actor, req.target)
                        \/ {req.actor, req.target} \cap changed # {}
        OBVIOUS
    <2>1. CASE Delegates
        BY <2>1 DEF Delegates, IInv, KnowsTarget
    <2>2. CASE Switches
        <3>1. StartSwitches /\ req.stage = "target"
            BY <2>2, Succeeds DEF Switches, Logout, ServeSensitive, Stop, Issue
        <3>2. \/ Active(req.actor) /\ rows[req.actor].role = req.role
              \/ req.actor \in changed
            BY <3>1 DEF IInv, KnowsActor
        <3> QED
            BY <3>1, <3>2 DEF StartSwitches, Authorized, MayImpersonate
    <2> QED
        BY <2>1, <2>2
<1> QED
    BY <1>1, InvariantHolds, PTL DEF Spec, AuthorityIsFresh

\* Stop puts back nobody but a user who logged in on this guard and has not
\* logged out since.
THEOREM ImpersonationRestores == Spec => RestoresOnlyWhoWasThere
<1>1. IInv /\ [Next]_vars =>
         [req.route = "stop" /\ req'.answer = "ok" =>
             \/ sess'[req.guard].user \in entered[req.guard] \cup {Nobody}
             \/ sess[req.guard].marker # acting[req.guard]]_vars
    <2> SUFFICES ASSUME IInv, Next, req.route = "stop", req'.answer = "ok",
                        sess[req.guard].marker = acting[req.guard]
                 PROVE  sess'[req.guard].user \in entered[req.guard] \cup {Nobody}
        OBVIOUS
    <2>1. req.stage # "idle"
        BY DEF IInv, InFlight
    <2>2. Stop
        BY <2>1, Succeeds
           DEF Logout, ServeSensitive, StartSwitches, Issue, IInv, InFlight
    <2>3. req.guard \in Guard /\ sess \in [Guard -> Slot]
        BY <2>1 DEF IInv, InFlight, TypeOK
    <2>4. CASE SameGuard(req.guard) /\ SetSlot(req.guard, Restored(req.guard))
        <3>1. sess'[req.guard].user = sess[req.guard].marker
            BY <2>3, <2>4 DEF SetSlot, Restored, Slot
        <3>2. sess[req.guard].marker \in entered[req.guard]
            BY <2>2, <2>3, <2>4 DEF Stop, IsImpersonating, SameGuard, IInv, Entered
        <3> QED
            BY <3>1, <3>2
    <2>5. CASE SetSlot(req.guard, Dropped(req.guard))
        BY <2>3, <2>5 DEF SetSlot, Dropped, LoggedOut, Slot
    <2> QED
        BY <2>2, <2>4, <2>5 DEF Stop
<1> QED
    BY <1>1, InvariantHolds, PTL DEF Spec, RestoresOnlyWhoWasThere

=============================================================================
