------------------------- MODULE AuthSessions_proofs -------------------------
(***************************************************************************)
(* What the browsers of AuthSessions keep, for any browsers, tokens,       *)
(* families and configurations, and any bounds.                            *)
(***************************************************************************)
EXTENDS AuthSessions, TLAPS

-----------------------------------------------------------------------------
(* The inductive invariant *)

\* A remember login is of a session that is not logged in, and without
\* remember-me there are no families.
Phases ==
    /\ \A b \in Browser :
          /\ pc[b] \in {"remember", "rotate", "load"} => ~sess[b].authed
          /\ pc[b] = "issue" => RememberMe
    /\ ~RememberMe => live = {}

\* No two sessions carry the same token, and no session carries a lost one.
TokensCarried ==
    /\ \A b, c \in Browser : b # c /\ sess[b].track = sess[c].track => sess[b].track = None
    /\ \A b \in Browser : sess[b].track \notin lost
    /\ NoGhostSession

\* No stamp is from the future: a password that is written makes all of them old.
Stamps == \A b \in Browser : sess[b].stamp <= password /\ call[b].read <= password

BeganWith(x) == origin[x] = password \/ x \in excused

\* A session with a current stamp began with the current password, and so did a
\* remember login on its way to one, and every family that no password change is
\* about to revoke.
Origins ==
    /\ \A b \in Browser :
          /\ sess[b].authed /\ sess[b].stamp = password => BeganWith(b)
          /\ pc[b] \in {"rotate", "load"} => BeganWith(b)
    /\ (\A b \in Browser : pc[b] \notin {"reread", "revoke"}) =>
          \A f \in live : BeganWith(f)

\* A browser that logged out has neither a login nor a cookie, and nothing under
\* way that would give it one.
LeftForGood ==
    \A b \in left : /\ ~sess[b].authed
                    /\ jar[b] = None /\ pc[b] \in {"idle", "verify", "authenticate"}

IInv ==
    /\ TypeOK
    /\ Phases
    /\ TokensCarried
    /\ Stamps
    /\ Origins
    /\ LeftForGood

Call == [route: Route \cup {"login"}, read: Nat, want: BOOLEAN]

-----------------------------------------------------------------------------
(* Steps of one browser *)

LEMMA NoCallShape == NoCall \in Call /\ NoCall.read = 0
BY DEF NoCall, Call, Route

\* A login that ends, is refused or completes keeps the token of its session.
LEMMA SessionShapes ==
    ASSUME NEW data \in Session
    PROVE  /\ LoggedOut(data) \in Session /\ Refused(data) \in Session
           /\ ~LoggedOut(data).authed /\ ~Refused(data).authed
           /\ LoggedOut(data).track = data.track /\ Refused(data).track = data.track
           /\ LoggedOut(data).stamp = data.stamp /\ Refused(data).stamp \in {data.stamp, 0}
BY DEF LoggedOut, Refused, Session

\* A step that changes no table, and of b's session not the token. A login it
\* begins or stamps began with the current password or is excused.
LEMMA SessionStep ==
    ASSUME IInv, NEW b \in Browser, NEW data \in Session, NEW stage \in Stage, NEW c \in Call,
           SetSession(b, data), Goto(b, stage), call' = [call EXCEPT ![b] = c],
           UNCHANGED <<option, serverVars, jar, lost>>,
           data.track = sess[b].track, data.stamp <= password, c.read <= password,
           origin' \in [Browser \cup Family -> Nat],
           excused' \in SUBSET (Browser \cup Family), left' \in SUBSET left,
           \A x \in (Browser \cup Family) \ {b} : BeganWith(x) => BeganWith(x)',
           stage \in {"remember", "rotate", "load"} => ~data.authed,
           stage = "issue" => RememberMe,
           stage \in {"rotate", "load"} => jar[b] # None /\ BeganWith(b)',
           data.authed /\ data.stamp = password => BeganWith(b)',
           b \in left' => ~data.authed /\ stage \in {"idle", "verify", "authenticate"},
           pc[b] \in {"reread", "revoke"} /\ stage \notin {"reread", "revoke"} =>
              \A f \in live : BeganWith(f)'
    PROVE  IInv'
<1>1. /\ sess'[b] = data /\ pc'[b] = stage /\ call'[b] = c
      /\ \A a \in Browser : a # b => sess'[a] = sess[a] /\ pc'[a] = pc[a] /\ call'[a] = call[a]
      /\ UNCHANGED <<option, password, locked, live, tracks, jar, lost>>
    BY DEF IInv, TypeOK, SetSession, Goto, serverVars
<1>2. TypeOK'
    <2>1. sess' \in [Browser -> Session] /\ pc' \in [Browser -> Stage] /\ call' \in [Browser -> Call]
        BY DEF IInv, TypeOK, SetSession, Goto, Call
    <2>2. \A a \in Browser : pc'[a] \in {"rotate", "load"} => jar'[a] # None
        BY <1>1 DEF IInv, TypeOK
    <2>3. left' \in SUBSET Browser
        BY DEF IInv, TypeOK
    <2> QED
        BY <1>1, <2>1, <2>2, <2>3 DEF IInv, TypeOK, Call
<1>3. Phases'
    BY <1>1 DEF IInv, Phases, RememberMe
<1>4. TokensCarried'
    <2>1. \A a \in Browser : sess'[a].track = sess[a].track
        BY <1>1
    <2> QED
        BY <1>1, <2>1 DEF IInv, TokensCarried, NoGhostSession
<1>5. Stamps'
    BY <1>1 DEF IInv, Stamps
<1>6. Origins'
    <2>1. \A f \in live : f \in (Browser \cup Family) \ {b}
        BY AuthSessionsAssumption DEF IInv, TypeOK
    <2>2. ASSUME \A a \in Browser : pc'[a] \notin {"reread", "revoke"}, NEW f \in live
          PROVE  BeganWith(f)'
        <3>1. CASE pc[b] \in {"reread", "revoke"}
            BY <1>1, <2>2, <3>1
        <3>2. CASE pc[b] \notin {"reread", "revoke"}
            <4>1. \A a \in Browser : pc[a] \notin {"reread", "revoke"}
                BY <1>1, <2>2, <3>2
            <4> QED
                BY <2>1, <4>1 DEF IInv, Origins
        <3> QED
            BY <3>1, <3>2
    <2>3. ASSUME NEW a \in Browser
          PROVE  /\ sess'[a].authed /\ sess'[a].stamp = password' => BeganWith(a)'
                 /\ pc'[a] \in {"rotate", "load"} => BeganWith(a)'
        <3>1. CASE a = b
            BY <1>1, <3>1
        <3>2. CASE a # b
            <4>1. a \in (Browser \cup Family) \ {b}
                BY <3>2
            <4>2. BeganWith(a) => BeganWith(a)'
                BY <4>1
            <4> QED
                BY <1>1, <3>2, <4>2 DEF IInv, Origins
        <3> QED
            BY <3>1, <3>2
    <2> QED
        BY <1>1, <2>2, <2>3 DEF Origins
<1>7. LeftForGood'
    <2>1. ASSUME NEW a \in left'
          PROVE  /\ ~sess'[a].authed /\ jar'[a] = None
                 /\ pc'[a] \in {"idle", "verify", "authenticate"}
        <3>1. a \in left /\ a \in Browser
            BY DEF IInv, TypeOK
        <3>2. jar[a] = None /\ ~sess[a].authed /\ pc[a] \in {"idle", "verify", "authenticate"}
            BY <3>1 DEF IInv, LeftForGood
        <3> QED
            BY <1>1, <2>1, <3>1, <3>2
    <2> QED
        BY <2>1 DEF LeftForGood
<1> QED
    BY <1>2, <1>3, <1>4, <1>5, <1>6, <1>7 DEF IInv

LEMMA CompleteLoginKeeps ==
    ASSUME IInv, NEW b \in Browser, NEW stamp \in Nat, NEW typed \in Nat, NEW want \in BOOLEAN,
           stamp <= password, CompleteLogin(b, stamp, typed, want),
           pc[b] \notin {"reread", "revoke"}, UNCHANGED <<option, serverVars, jar, lost>>
    PROVE  IInv'
<1> DEFINE data == Stamped(b, stamp)
           stage == AfterLogin(want)
<1>1. /\ SetSession(b, data) /\ Goto(b, stage) /\ call' = [call EXCEPT ![b] = NoCall]
      /\ origin' = [origin EXCEPT ![b] = typed]
      /\ excused' = IF typed = password THEN excused \ {b} ELSE excused \cup {b}
      /\ left' = left \ {b}
    BY DEF CompleteLogin
<1>2. data \in Session /\ data.track = sess[b].track /\ data.stamp = stamp
    <2>1. sess[b] \in Session
        BY DEF IInv, TypeOK
    <2> QED
        BY <2>1 DEF Stamped, Session
<1>3. stage \in {"issue", "track", "idle"} /\ (stage = "issue" => RememberMe)
    BY DEF AfterLogin
<1>4. BeganWith(b)'
    BY <1>1 DEF BeganWith, IInv, TypeOK, serverVars
<1>5. \A x \in (Browser \cup Family) \ {b} : BeganWith(x) => BeganWith(x)'
    BY <1>1 DEF BeganWith, IInv, TypeOK, serverVars
<1>6. /\ origin' \in [Browser \cup Family -> Nat] /\ excused' \in SUBSET (Browser \cup Family)
      /\ left' \in SUBSET left /\ b \notin left'
    BY <1>1 DEF IInv, TypeOK
<1>7. NoCall \in Call /\ NoCall.read <= password
    BY NoCallShape DEF IInv, TypeOK
<1>8. stage \in Stage
    BY <1>3 DEF Stage
<1>9. stage \notin {"remember", "rotate", "load"}
    BY <1>3
<1> HIDE DEF data, stage
<1> QED
    BY <1>1, <1>2, <1>3, <1>4, <1>5, <1>6, <1>7, <1>8, <1>9, SessionStep

\* A step that ends no login and begins none: it changes no history.
LEMMA QuietStep ==
    ASSUME IInv, NEW b \in Browser, NEW data \in Session, NEW stage \in Stage, NEW c \in Call,
           SetSession(b, data), Goto(b, stage), call' = [call EXCEPT ![b] = c],
           UNCHANGED <<option, serverVars, jar, historyVars>>,
           data.track = sess[b].track, data.authed = sess[b].authed,
           data.stamp = sess[b].stamp, c.read <= password,
           stage \in {"remember", "rotate", "load"} => ~data.authed,
           stage = "issue" => RememberMe, stage \notin {"rotate", "load"},
           b \in left => stage \in {"idle", "verify", "authenticate"},
           pc[b] \notin {"reread", "revoke"}
    PROVE  IInv'
<1>1. /\ \A x : BeganWith(x) => BeganWith(x)'
      /\ UNCHANGED <<option, serverVars, jar, lost>>
    BY DEF BeganWith, serverVars, historyVars
<1>2. data.authed /\ data.stamp = password => BeganWith(b)'
    BY <1>1 DEF IInv, Origins
<1>3. b \in left' => ~data.authed
    BY DEF IInv, LeftForGood, historyVars
<1>4. data.stamp <= password
    BY DEF IInv, Stamps
<1>5. /\ origin' \in [Browser \cup Family -> Nat] /\ excused' \in SUBSET (Browser \cup Family)
      /\ left' \in SUBSET left /\ left' = left
    BY DEF historyVars, IInv, TypeOK
<1> QED
    BY <1>1, <1>2, <1>3, <1>4, <1>5, SessionStep

\* The session that is not written is the session there was.
LEMMA SameSession ==
    ASSUME IInv, NEW b \in Browser
    PROVE  /\ sess[b] \in Session /\ call[b] \in Call
           /\ call[b].read <= password
           /\ sess' = sess => SetSession(b, sess[b])
           /\ call' = call => call' = [call EXCEPT ![b] = call[b]]
           /\ pc' = pc => Goto(b, pc[b])
BY DEF IInv, TypeOK, Stamps, SetSession, Goto, Call

LEMMA LoginKeeps ==
    ASSUME IInv, NEW b \in Browser, NEW typed \in 1..MaxPassword, NEW want \in BOOLEAN,
           Login(b, typed, want), UNCHANGED option
    PROVE  IInv'
<1>0. typed \in Nat /\ password \in Nat
    BY DEF IInv, TypeOK, Option, MaxPassword
<1>1. pc[b] = "idle" /\ UNCHANGED <<serverVars, jar, lost>> /\ typed = password
    BY DEF Login, PasswordAccepted
<1>2. CASE CompleteLogin(b, password, typed, want)
    BY <1>0, <1>1, <1>2, CompleteLoginKeeps
<1>3. CASE /\ SetSession(b, [sess[b] EXCEPT !.pending = typed, !.intent = @ \/ want])
           /\ UNCHANGED <<pc, call, origin, excused, left>>
    <2> DEFINE data == [sess[b] EXCEPT !.pending = typed, !.intent = @ \/ want]
    <2>0. sess[b] \in Session /\ (sess[b].intent \/ want) \in BOOLEAN
        BY SameSession
    <2>1. /\ data \in Session /\ data.track = sess[b].track /\ data.authed = sess[b].authed
          /\ data.stamp = sess[b].stamp
        BY <1>0, <2>0 DEF Session
    <2>2. SetSession(b, data) /\ Goto(b, "idle") /\ call' = [call EXCEPT ![b] = call[b]]
        BY <1>1, <1>3, SameSession
    <2>3. call[b] \in Call /\ call[b].read <= password /\ "idle" \in Stage
        BY SameSession DEF Stage
    <2>4. UNCHANGED <<option, serverVars, jar, historyVars>>
        BY <1>1, <1>3 DEF historyVars
    <2> HIDE DEF data
    <2> QED
        BY <1>1, <2>1, <2>2, <2>3, <2>4, QuietStep
<1> QED
    BY <1>2, <1>3 DEF Login

LEMMA ChallengeKeeps ==
    ASSUME IInv, NEW b \in Browser, Challenge(b), UNCHANGED option
    PROVE  IInv'
<1> DEFINE c == [NoCall EXCEPT !.read = password]
<1>1. /\ pc[b] = "idle" /\ Goto(b, "verify") /\ call' = [call EXCEPT ![b] = c]
      /\ UNCHANGED <<option, serverVars, jar, historyVars>> /\ SetSession(b, sess[b])
    BY SameSession DEF Challenge
<1>2. c \in Call /\ c.read <= password
    BY NoCallShape DEF IInv, TypeOK, Call
<1>3. sess[b] \in Session /\ "verify" \in Stage
    BY SameSession DEF Stage
<1> HIDE DEF c
<1> QED
    BY <1>1, <1>2, <1>3, QuietStep

LEMMA RequestKeeps ==
    ASSUME IInv, NEW b \in Browser, NEW route \in Route, Request(b, route), UNCHANGED option
    PROVE  IInv'
<1> DEFINE c == [NoCall EXCEPT !.route = route]
           stage == IF RememberMe /\ ~LoggedIn(b) /\ jar[b] # None
                    THEN "remember" ELSE "authenticate"
<1>1. /\ pc[b] = "idle" /\ Goto(b, stage) /\ call' = [call EXCEPT ![b] = c]
      /\ UNCHANGED <<option, serverVars, jar, historyVars>> /\ SetSession(b, sess[b])
    BY SameSession DEF Request
<1>2. c \in Call /\ c.read <= password
    BY NoCallShape DEF IInv, TypeOK, Call
<1>3. sess[b] \in Session /\ stage \in Stage /\ stage \in {"remember", "authenticate"}
    BY SameSession DEF Stage
<1>4. stage = "remember" => ~sess[b].authed /\ b \notin left
    BY DEF LoggedIn, IInv, LeftForGood
<1> HIDE DEF c, stage
<1> QED
    BY <1>1, <1>2, <1>3, <1>4, QuietStep

LEMMA VerifyKeeps ==
    ASSUME IInv, NEW b \in Browser, Verify(b), UNCHANGED option
    PROVE  IInv'
<1>1. pc[b] = "verify" /\ UNCHANGED <<serverVars, jar, lost>>
    BY DEF Verify
<1>2. CASE CompleteLogin(b, call[b].read, sess[b].pending, sess[b].intent)
    <2>1. sess[b].pending \in Nat /\ sess[b].intent \in BOOLEAN
        BY SameSession DEF Session
    <2>2. call[b].read \in Nat /\ call[b].read <= password
        BY SameSession DEF Call
    <2> QED
        BY <1>1, <1>2, <2>1, <2>2, CompleteLoginKeeps
<1>3. CASE Answer(b) /\ UNCHANGED <<sess, origin, excused, left>>
    <2>1. /\ Goto(b, "idle") /\ call' = [call EXCEPT ![b] = NoCall] /\ SetSession(b, sess[b])
          /\ UNCHANGED <<option, serverVars, jar, historyVars>>
        BY <1>1, <1>3, SameSession DEF Answer, historyVars
    <2>2. NoCall \in Call /\ NoCall.read <= password /\ "idle" \in Stage /\ sess[b] \in Session
        BY NoCallShape, SameSession DEF IInv, TypeOK, Stage
    <2> QED
        BY <1>1, <2>1, <2>2, QuietStep
<1> QED
    BY <1>2, <1>3 DEF Verify

\* A request that ends, changing nothing.
LEMMA AnswerKeeps ==
    ASSUME IInv, NEW b \in Browser, Answer(b), pc[b] \notin {"reread", "revoke"},
           UNCHANGED <<option, serverVars, sess, jar, historyVars>>
    PROVE  IInv'
<1>1. Goto(b, "idle") /\ call' = [call EXCEPT ![b] = NoCall] /\ SetSession(b, sess[b])
    BY SameSession DEF Answer
<1>2. NoCall \in Call /\ NoCall.read <= password /\ "idle" \in Stage /\ sess[b] \in Session
    BY NoCallShape, SameSession DEF IInv, TypeOK, Stage
<1> QED
    BY <1>1, <1>2, QuietStep

\* A request that is refused, and its session with it.
LEMMA RefusalKeeps ==
    ASSUME IInv, NEW b \in Browser, NEW data \in Session, SetSession(b, data), Answer(b),
           Forget({b}), data.track = sess[b].track, data.stamp <= password, ~data.authed,
           pc[b] \notin {"reread", "revoke"}, UNCHANGED <<option, serverVars, jar, left, lost>>
    PROVE  IInv'
<1>1. Goto(b, "idle") /\ call' = [call EXCEPT ![b] = NoCall]
    BY DEF Answer
<1>2. NoCall \in Call /\ NoCall.read <= password /\ "idle" \in Stage
    BY NoCallShape DEF IInv, TypeOK, Stage
<1>3. \A x \in (Browser \cup Family) \ {b} : BeganWith(x) => BeganWith(x)'
    BY DEF BeganWith, Forget, serverVars
<1>4. /\ origin' \in [Browser \cup Family -> Nat] /\ excused' \in SUBSET (Browser \cup Family)
      /\ left' \in SUBSET left
    BY DEF IInv, TypeOK, Forget
<1>5. UNCHANGED <<option, serverVars, jar, lost>>
    OBVIOUS
<1> QED
    BY <1>1, <1>2, <1>3, <1>4, <1>5, SessionStep

LEMMA AuthenticateKeeps ==
    ASSUME IInv, NEW b \in Browser, Authenticate(b), UNCHANGED option
    PROVE  IInv'
<1>1. pc[b] = "authenticate" /\ UNCHANGED <<serverVars, jar, left, lost>>
    BY DEF Authenticate
<1>2. CASE /\ Admitted(b) /\ Goto(b, IF Tracking THEN "touch" ELSE "serve")
           /\ UNCHANGED <<sess, call, origin, excused>>
    <2> DEFINE stage == IF Tracking THEN "touch" ELSE "serve"
    <2>1. stage \in {"touch", "serve"} /\ stage \in Stage /\ b \notin left
        BY <1>2 DEF Stage, Admitted, LoggedIn, IInv, LeftForGood
    <2>2. /\ SetSession(b, sess[b]) /\ call' = [call EXCEPT ![b] = call[b]]
          /\ UNCHANGED <<option, serverVars, jar, historyVars>>
        BY <1>1, <1>2, SameSession DEF historyVars
    <2>3. sess[b] \in Session /\ call[b] \in Call /\ call[b].read <= password
        BY SameSession
    <2>4. Goto(b, stage)
        BY <1>2
    <2> HIDE DEF stage
    <2> QED
        BY <1>1, <2>1, <2>2, <2>3, <2>4, QuietStep
<1>3. CASE SetSession(b, Refused(sess[b])) /\ Answer(b) /\ Forget({b})
    <2>1. /\ Refused(sess[b]) \in Session /\ ~Refused(sess[b]).authed
          /\ Refused(sess[b]).track = sess[b].track
          /\ Refused(sess[b]).stamp \in {sess[b].stamp, 0}
        BY SessionShapes, SameSession
    <2>2. Refused(sess[b]).stamp <= password
        BY <2>1 DEF IInv, Stamps, TypeOK
    <2> QED
        BY <1>1, <1>3, <2>1, <2>2, RefusalKeeps
<1>4. CASE Answer(b) /\ UNCHANGED <<sess, origin, excused>>
    BY <1>1, <1>4, AnswerKeeps DEF historyVars
<1> QED
    BY <1>2, <1>3, <1>4 DEF Authenticate

LEMMA TouchKeeps ==
    ASSUME IInv, NEW b \in Browser, Touch(b), UNCHANGED option
    PROVE  IInv'
<1>1. pc[b] = "touch" /\ UNCHANGED <<serverVars, jar, left, lost>>
    BY DEF Touch, Touched, serverVars
<1>2. CASE Goto(b, "serve") /\ UNCHANGED <<sess, call, origin, excused>>
    <2>1. "serve" \in Stage /\ b \notin left
        BY <1>1 DEF Stage, IInv, LeftForGood
    <2>2. /\ SetSession(b, sess[b]) /\ call' = [call EXCEPT ![b] = call[b]]
          /\ UNCHANGED <<option, serverVars, jar, historyVars>>
        BY <1>1, <1>2, SameSession DEF historyVars
    <2>3. sess[b] \in Session /\ call[b] \in Call /\ call[b].read <= password
        BY SameSession
    <2> QED
        BY <1>1, <1>2, <2>1, <2>2, <2>3, QuietStep
<1>3. CASE SetSession(b, LoggedOut(sess[b])) /\ Answer(b) /\ Forget({b})
    <2>1. /\ LoggedOut(sess[b]) \in Session /\ ~LoggedOut(sess[b]).authed
          /\ LoggedOut(sess[b]).track = sess[b].track
          /\ LoggedOut(sess[b]).stamp = sess[b].stamp
        BY SessionShapes, SameSession
    <2>2. LoggedOut(sess[b]).stamp <= password
        BY <2>1 DEF IInv, Stamps
    <2> QED
        BY <1>1, <1>3, <2>1, <2>2, RefusalKeeps
<1> QED
    BY <1>2, <1>3 DEF Touch

LEMMA CheckPasswordKeeps ==
    ASSUME IInv, NEW b \in Browser, CheckPassword(b) \/ ServeOther(b), UNCHANGED option
    PROVE  IInv'
<1>1. pc[b] = "serve" /\ UNCHANGED <<option, serverVars, sess, jar, historyVars>>
    BY DEF CheckPassword, ServeOther
<1>2. CASE Goto(b, "write") /\ UNCHANGED call
    <2>1. "write" \in Stage /\ b \notin left
        BY <1>1 DEF Stage, IInv, LeftForGood
    <2>2. SetSession(b, sess[b]) /\ call' = [call EXCEPT ![b] = call[b]]
        BY <1>1, <1>2, SameSession
    <2>3. sess[b] \in Session /\ call[b] \in Call /\ call[b].read <= password
        BY SameSession
    <2> QED
        BY <1>1, <1>2, <2>1, <2>2, <2>3, QuietStep
<1>3. CASE Answer(b)
    BY <1>1, <1>3, AnswerKeeps
<1> QED
    BY <1>2, <1>3 DEF CheckPassword, ServeOther

\* The session is stamped again; a family that the revocation does not reach is
\* excused, and without remember-me there is none.
LEMMA RereadKeeps ==
    ASSUME IInv, NEW b \in Browser, Reread(b), UNCHANGED option
    PROVE  IInv'
<1>1. pc[b] = "reread" /\ UNCHANGED <<option, serverVars, jar, lost>> /\ left' = left
    BY DEF Reread
<1>2. /\ NoCall \in Call /\ NoCall.read <= password /\ sess[b] \in Session
      /\ call[b].read \in Nat /\ password \in Nat
    BY NoCallShape, SameSession DEF IInv, TypeOK, Call
<1>3. b \notin left
    BY <1>1 DEF IInv, LeftForGood
<1>4. CASE /\ SetSession(b, [sess[b] EXCEPT !.stamp = password])
           /\ origin' = [origin EXCEPT ![b] = call[b].read]
           /\ excused' = IF call[b].read = password THEN excused \ {b} ELSE excused \cup {b}
           /\ Goto(b, AfterPassword)
           /\ call' = [call EXCEPT ![b] = NoCall]
    <2> DEFINE data == [sess[b] EXCEPT !.stamp = password]
    <2>1. data \in Session /\ data.track = sess[b].track /\ data.stamp = password
        BY <1>2 DEF Session
    <2>2. AfterPassword \in {"revoke", "drop", "idle"} /\ AfterPassword \in Stage
          /\ (AfterPassword # "revoke" => ~RememberMe)
        BY DEF AfterPassword, Stage
    <2>3. /\ origin' \in [Browser \cup Family -> Nat] /\ excused' \in SUBSET (Browser \cup Family)
          /\ left' \in SUBSET left
        BY <1>1, <1>2, <1>4 DEF IInv, TypeOK
    <2>4. \A x \in (Browser \cup Family) \ {b} : BeganWith(x) => BeganWith(x)'
        BY <1>1, <1>4 DEF BeganWith, IInv, TypeOK, serverVars
    <2>5. BeganWith(b)'
        BY <1>1, <1>4 DEF BeganWith, IInv, TypeOK, serverVars
    <2>6. AfterPassword \notin {"reread", "revoke"} => \A f \in live : BeganWith(f)'
        BY <2>2 DEF IInv, Phases
    <2>7. data.stamp <= password /\ SetSession(b, data)
        BY <1>2, <1>4, <2>1
    <2>8. AfterPassword \notin {"remember", "rotate", "load", "issue"}
        BY <2>2
    <2> HIDE DEF data
    <2> QED
        BY <1>1, <1>2, <1>3, <1>4, <2>1, <2>2, <2>3, <2>4, <2>5, <2>6, <2>7, <2>8, SessionStep
<1>5. CASE excused' = excused \cup live /\ Answer(b) /\ UNCHANGED <<sess, origin>>
    <2>1. Goto(b, "idle") /\ call' = [call EXCEPT ![b] = NoCall] /\ SetSession(b, sess[b])
        BY <1>5, SameSession DEF Answer
    <2>2. /\ origin' \in [Browser \cup Family -> Nat] /\ excused' \in SUBSET (Browser \cup Family)
          /\ left' \in SUBSET left
        BY <1>1, <1>5 DEF IInv, TypeOK
    <2>3. \A x \in Browser \cup Family : BeganWith(x) => BeganWith(x)'
        BY <1>1, <1>5 DEF BeganWith, serverVars
    <2>4. \A f \in live : BeganWith(f)'
        BY <1>5 DEF BeganWith
    <2>5. "idle" \in Stage /\ sess[b].stamp <= password
        BY DEF Stage, IInv, Stamps
    <2>6. sess[b].authed /\ sess[b].stamp = password => BeganWith(b)'
        BY <2>3 DEF IInv, Origins
    <2> QED
        BY <1>1, <1>2, <1>3, <2>1, <2>2, <2>3, <2>4, <2>5, <2>6, SessionStep
<1> QED
    BY <1>4, <1>5 DEF Reread

\* A session that expires leaves the row of its token to the prune.
LEMMA ExpireKeeps ==
    ASSUME IInv, NEW b \in Browser, Expire(b), UNCHANGED option
    PROVE  IInv'
<1> USE AuthSessionsAssumption DEF IInv, Expire, Forget, SetSession, NoSession,
        serverVars, clientVars, historyVars
<1>1. TypeOK'
    BY DEF TypeOK, Session, Stage, Route
<1>2. Phases'
    BY DEF TypeOK, Phases, Session, RememberMe
<1>3. TokensCarried'
    BY DEF TypeOK, TokensCarried, NoGhostSession, Session
<1>4. Stamps'
    BY DEF TypeOK, Stamps, Session
<1>5. Origins'
    BY DEF TypeOK, Origins, BeganWith, Phases, Stamps, Session
<1>6. LeftForGood'
    BY DEF TypeOK, LeftForGood, Session
<1> QED
    BY <1>1, <1>2, <1>3, <1>4, <1>5, <1>6

\* A remember login begins with the password its family began with.
LEMMA ResolveKeeps ==
    ASSUME IInv, NEW b \in Browser, Resolve(b), UNCHANGED option
    PROVE  IInv'
<1> USE AuthSessionsAssumption DEF IInv, Resolve, Cleared, Changing, Goto,
        serverVars, clientVars, historyVars
<1>1. TypeOK'
    BY DEF TypeOK, Session, Stage, Route
<1>2. Phases'
    BY DEF TypeOK, Phases, Session, RememberMe
<1>3. TokensCarried'
    BY DEF TypeOK, TokensCarried, NoGhostSession, Session
<1>4. Stamps'
    BY DEF TypeOK, Stamps, Session
<1>5. Origins'
    BY DEF TypeOK, Origins, BeganWith, Phases, Stamps, Session
<1>6. LeftForGood'
    BY DEF TypeOK, LeftForGood, Session
<1> QED
    BY <1>1, <1>2, <1>3, <1>4, <1>5, <1>6

LEMMA RotateKeeps ==
    ASSUME IInv, NEW b \in Browser, Rotate(b), UNCHANGED option
    PROVE  IInv'
<1> USE AuthSessionsAssumption DEF IInv, Rotate, RefuseCookie, Cleared, Forget, Goto,
        serverVars, clientVars, historyVars
<1>1. TypeOK'
    BY DEF TypeOK, Session, Stage, Route
<1>2. Phases'
    BY DEF TypeOK, Phases, Session, RememberMe
<1>3. TokensCarried'
    BY DEF TypeOK, TokensCarried, NoGhostSession, Session
<1>4. Stamps'
    BY DEF TypeOK, Stamps, Session
<1>5. Origins'
    BY DEF TypeOK, Origins, BeganWith, Phases, Stamps, Session
<1>6. LeftForGood'
    BY DEF TypeOK, LeftForGood, Session
<1> QED
    BY <1>1, <1>2, <1>3, <1>4, <1>5, <1>6

LEMMA TerminateKeeps ==
    ASSUME IInv, NEW b \in Browser, Terminate(b) \/ TerminateOthers(b), UNCHANGED option
    PROVE  IInv'
<1> USE AuthSessionsAssumption DEF IInv, Terminate, TerminateOthers, Others, Answer, Goto,
        serverVars, clientVars, historyVars
<1>1. TypeOK'
    <2>1. call' \in [Browser -> Call]
        BY NoCallShape DEF TypeOK, Call
    <2> QED
        BY <2>1 DEF TypeOK, Stage, Call
<1>2. Phases'
    BY DEF TypeOK, Phases, Session, RememberMe
<1>3. TokensCarried'
    BY DEF TypeOK, TokensCarried, NoGhostSession, Session
<1>4. Stamps'
    BY NoCallShape DEF TypeOK, Stamps, Session
<1>5. Origins'
    BY DEF TypeOK, Origins, BeganWith, Phases, Stamps, Session
<1>6. LeftForGood'
    BY DEF TypeOK, LeftForGood, Session
<1> QED
    BY <1>1, <1>2, <1>3, <1>4, <1>5, <1>6

\* Every stamp is old once the password is written.
LEMMA WritePasswordKeeps ==
    ASSUME IInv, NEW b \in Browser, WritePassword(b), UNCHANGED option
    PROVE  IInv'
<1> USE AuthSessionsAssumption DEF IInv, WritePassword, Overtaken, Answer, Goto,
        serverVars, clientVars, historyVars
<1>1. TypeOK'
    <2>1. call' \in [Browser -> Call]
        <3> DEFINE c == [call[b] EXCEPT !.read = password + 1]
        <3>1. call \in [Browser -> Call] /\ password + 1 \in Nat
            BY DEF TypeOK, Call
        <3>2. c \in Call
            BY <3>1 DEF Call
        <3>3. call' = [call EXCEPT ![b] = c] \/ call' = [call EXCEPT ![b] = NoCall]
            BY <3>1 DEF Call
        <3> HIDE DEF c, WritePassword
        <3> QED
            BY <3>1, <3>2, <3>3, NoCallShape
    <2>2. password' \in Nat /\ pc' \in [Browser -> Stage]
        BY DEF TypeOK, Stage
    <2> QED
        BY <2>1, <2>2 DEF TypeOK, Call
<1>2. Phases'
    BY DEF TypeOK, Phases, Session, RememberMe
<1>3. TokensCarried'
    BY DEF TypeOK, TokensCarried, NoGhostSession, Session
<1>4. Stamps'
    <2>1. /\ password' \in {password, password + 1} /\ password \in Nat
          /\ call'[b].read \in {0, password'}
          /\ \A a \in Browser : a # b => call'[a] = call[a]
        BY NoCallShape DEF TypeOK
    <2>2. \A a \in Browser : sess'[a] = sess[a] /\ sess[a].stamp \in Nat /\ call[a].read \in Nat
        BY DEF TypeOK, Session
    <2> HIDE DEF WritePassword
    <2> QED
        BY <2>1, <2>2 DEF Stamps
<1>5. Origins'
    <2>1. CASE password' = password + 1 /\ excused' = excused \cup Overtaken(b) /\ Goto(b, "reread")
        <3>1. \A a \in Browser : sess'[a] = sess[a] /\ sess[a].stamp \in Nat
            BY DEF TypeOK, Session
        <3>2. password \in Nat /\ \A a \in Browser : sess'[a].stamp # password'
            BY <2>1, <3>1 DEF TypeOK, Stamps
        <3>3. pc'[b] = "reread" /\ \A a \in Browser : a # b => pc'[a] = pc[a]
            BY <2>1 DEF TypeOK
        <3>4. \A a \in Browser : pc'[a] \in {"rotate", "load"} => a \in excused'
            BY <2>1, <3>3
        <3> HIDE DEF WritePassword
        <3> QED
            BY <3>2, <3>3, <3>4 DEF Origins, BeganWith
    <2>2. CASE Answer(b) /\ UNCHANGED <<password, excused>>
        <3>1. pc[b] = "write" /\ UNCHANGED <<password, live, sess, origin, excused>>
            BY <2>2
        <3>2. pc'[b] = "idle" /\ \A a \in Browser : a # b => pc'[a] = pc[a]
            BY <2>2 DEF TypeOK
        <3> HIDE DEF WritePassword
        <3> QED
            BY <3>1, <3>2 DEF Origins, BeganWith
    <2> QED
        BY <2>1, <2>2
<1>6. LeftForGood'
    BY DEF TypeOK, LeftForGood, Session
<1> QED
    BY <1>1, <1>2, <1>3, <1>4, <1>5, <1>6

LEMMA RevokeKeeps ==
    ASSUME IInv, NEW b \in Browser, RevokeAllForUser(b), UNCHANGED option
    PROVE  IInv'
<1> USE AuthSessionsAssumption DEF IInv, RevokeAllForUser, AllFamilies, Forget, Cleared, Goto,
        serverVars, clientVars, historyVars
<1>1. TypeOK'
    BY DEF TypeOK, Session, Stage, Route
<1>2. Phases'
    BY DEF TypeOK, Phases, Session, RememberMe
<1>3. TokensCarried'
    BY DEF TypeOK, TokensCarried, NoGhostSession, Session
<1>4. Stamps'
    BY DEF TypeOK, Stamps, Session
<1>5. Origins'
    BY DEF TypeOK, Origins, BeganWith, Phases, Stamps, Session
<1>6. LeftForGood'
    BY DEF TypeOK, LeftForGood, Session
<1> QED
    BY <1>1, <1>2, <1>3, <1>4, <1>5, <1>6

LEMMA LogoutKeeps ==
    ASSUME IInv, NEW b \in Browser, Logout(b), UNCHANGED option
    PROVE  IInv'
<1> USE AuthSessionsAssumption DEF IInv, Logout, LoggedOut, WithoutRow, Forget, Cleared, Answer, Goto, SetSession,
        serverVars, clientVars, historyVars
<1>1. TypeOK'
    <2>1. call' \in [Browser -> Call]
        <3>1. call \in [Browser -> Call] /\ call' = [call EXCEPT ![b] = NoCall]
            BY DEF TypeOK, Call
        <3> HIDE DEF Logout, IInv
        <3> QED
            BY <3>1, NoCallShape
    <2>2. [LoggedOut(sess[b]) EXCEPT !.stamp = 0, !.track = None] \in Session
        <3>1. LoggedOut(sess[b]) \in Session
            BY SameSession, SessionShapes
        <3> HIDE DEF Logout, LoggedOut, IInv
        <3> QED
            BY <3>1 DEF Session
    <2>3. sess' \in [Browser -> Session] /\ pc' \in [Browser -> Stage]
        BY <2>2 DEF TypeOK, Stage
    <2>4. origin' \in [Browser \cup Family -> Nat] /\ excused' \in SUBSET (Browser \cup Family)
        BY DEF TypeOK
    <2>5. tracks' \in SUBSET Token /\ lost' \in SUBSET tracks'
        BY DEF TypeOK, TokensCarried
    <2> QED
        BY <2>1, <2>3, <2>4, <2>5 DEF TypeOK, Call
<1>2. Phases'
    BY DEF TypeOK, Phases, Session, RememberMe
<1>3. TokensCarried'
    BY DEF TypeOK, TokensCarried, NoGhostSession, Session
<1>4. Stamps'
    BY NoCallShape DEF TypeOK, Stamps, Session
<1>5. Origins'
    <2>1. /\ ~sess'[b].authed /\ pc'[b] = "idle"
          /\ \A a \in Browser : a # b => sess'[a] = sess[a] /\ pc'[a] = pc[a]
        BY DEF TypeOK, Session
    <2>2. live' \subseteq live /\ pc[b] = "serve" /\ password' = password
        OBVIOUS
    <2>3. jar[b] \in Family \cup {None}
        BY DEF TypeOK
    <2>4. ASSUME NEW x \in Browser \cup Family, x # b, x \in Browser \/ x \in live', BeganWith(x)
          PROVE  BeganWith(x)'
        <3>1. CASE live' = live \ {jar[b]} /\ Forget({jar[b], b})
            <4>1. x # jar[b]
                BY <2>3, <2>4, <3>1
            <4>2. /\ origin' = [y \in Browser \cup Family |->
                                  IF y \in {jar[b], b} THEN 0 ELSE origin[y]]
                  /\ excused' = excused \ {jar[b], b}
                BY <3>1
            <4>3. origin'[x] = origin[x] /\ (x \in excused => x \in excused')
                BY <2>4, <4>1, <4>2
            <4> QED
                BY <2>2, <2>4, <4>3 DEF BeganWith
        <3>2. CASE Forget({b})
            BY <2>2, <2>4, <3>2 DEF BeganWith
        <3> QED
            BY <3>1, <3>2
    <2>5. ASSUME NEW a \in Browser
          PROVE  /\ sess'[a].authed /\ sess'[a].stamp = password' => BeganWith(a)'
                 /\ pc'[a] \in {"rotate", "load"} => BeganWith(a)'
        BY <2>1, <2>2, <2>4 DEF Origins
    <2>6. ASSUME \A a \in Browser : pc'[a] \notin {"reread", "revoke"}, NEW f \in live'
          PROVE  BeganWith(f)'
        <3>1. \A a \in Browser : pc[a] \notin {"reread", "revoke"}
            BY <2>1, <2>2, <2>6
        <3>2. f \in live /\ f \in Family /\ f # b
            BY <2>2 DEF TypeOK
        <3> QED
            BY <2>4, <3>1, <3>2 DEF Origins
    <2> HIDE DEF Logout
    <2> QED
        BY <2>5, <2>6 DEF Origins
<1>6. LeftForGood'
    BY DEF TypeOK, LeftForGood, Session
<1> QED
    BY <1>1, <1>2, <1>3, <1>4, <1>5, <1>6

\* A new family begins with the password its session began with.
LEMMA IssueKeeps ==
    ASSUME IInv, NEW b \in Browser, Issue(b), UNCHANGED option
    PROVE  IInv'
<1> USE AuthSessionsAssumption DEF IInv
<1>1. pc[b] = "issue" /\ RememberMe /\ UNCHANGED <<option, password, locked, tracks, sess, call, left, lost>>
    BY DEF Issue, Phases
<1>2. pc'[b] \in {"track", "idle"} /\ (\A a \in Browser : a # b => pc'[a] = pc[a])
      /\ pc' \in [Browser -> Stage]
    BY DEF Issue, Goto, AfterLogin, TypeOK, Stage
<1>3. CASE \E f \in FreshFamilies :
             /\ live' = live \cup {f}
             /\ jar' = Handed(b, f)
             /\ origin' = [origin EXCEPT ![f] = origin[b]]
             /\ excused' = IF origin[b] = password THEN excused \ {f} ELSE excused \cup {f}
    <2>1. PICK f \in FreshFamilies :
             /\ live' = live \cup {f}
             /\ jar' = Handed(b, f)
             /\ origin' = [origin EXCEPT ![f] = origin[b]]
             /\ excused' = IF origin[b] = password THEN excused \ {f} ELSE excused \cup {f}
        BY <1>3
    <2>2. f \in Family /\ f \notin live /\ f \notin Browser /\ f # None
        BY DEF FreshFamilies
    <2>3. TypeOK'
        <3>1. jar' \in [Browser -> Family \cup {None}] /\ jar'[b] # None
              /\ \A a \in Browser : a # b => jar'[a] = jar[a]
            BY <2>1, <2>2 DEF Handed, TypeOK
        <3>2. origin' \in [Browser \cup Family -> Nat] /\ excused' \in SUBSET (Browser \cup Family)
            BY <2>1, <2>2 DEF TypeOK
        <3> QED
            BY <1>1, <1>2, <2>1, <2>2, <3>1, <3>2 DEF TypeOK
    <2>4. BeganWith(f)' /\ \A x \in Browser \cup Family : x # f /\ BeganWith(x) => BeganWith(x)'
        BY <1>1, <2>1, <2>2 DEF BeganWith, TypeOK
    <2>5. Origins'
        BY <1>1, <1>2, <2>1, <2>2, <2>4 DEF Origins, TypeOK
    <2>6. b \notin left
        BY <1>1 DEF LeftForGood
    <2>7. LeftForGood'
        <3>1. \A a \in Browser : a # b => jar'[a] = jar[a]
            BY <2>1 DEF Handed, TypeOK
        <3> QED
            BY <1>1, <1>2, <2>6, <3>1 DEF LeftForGood, TypeOK
    <2> QED
        BY <1>1, <1>2, <2>3, <2>5, <2>7
           DEF Phases, RememberMe, TokensCarried, NoGhostSession, Stamps
<1>4. CASE UNCHANGED <<live, jar, origin, excused>>
    <2>1. TypeOK'
        BY <1>1, <1>2, <1>4 DEF TypeOK
    <2>2. Origins' /\ LeftForGood'
        BY <1>1, <1>2, <1>4 DEF Origins, BeganWith, LeftForGood, TypeOK
    <2> QED
        BY <1>1, <1>2, <1>4, <2>1, <2>2
           DEF Phases, RememberMe, TokensCarried, NoGhostSession, Stamps
<1> QED
    BY <1>3, <1>4 DEF Issue

\* A token is given to one session, and the one it replaces is deleted or lost.
LEMMA TrackKeeps ==
    ASSUME IInv, NEW b \in Browser, Track(b), UNCHANGED option
    PROVE  IInv'
<1> USE AuthSessionsAssumption DEF IInv
<1> DEFINE old == sess[b].track
<1>1. pc[b] = "track" /\ UNCHANGED <<option, password, locked, live, jar, origin, excused, left>>
    BY DEF Track
<1>2. PICK new \in FreshTokens :
          /\ SetSession(b, [sess[b] EXCEPT !.track = new])
          /\ \/ tracks' = (tracks \ {old}) \cup {new} /\ lost' = lost
             \/ tracks' = tracks \ {old} /\ lost' = lost
             \/ tracks' = tracks \cup {new} /\ lost' = lost \cup (tracks \cap {old})
             \/ tracks' = tracks /\ lost' = lost \cup (tracks \cap {old})
    BY DEF Track, TracksAfter, WithoutRow
<1> DEFINE data == [sess[b] EXCEPT !.track = new]
<1>3. /\ new \in Token /\ new \notin tracks /\ new # None
      /\ \A a \in Browser : sess[a].track # new
    BY DEF FreshTokens, Held
<1>4. /\ data \in Session /\ data.track = new
      /\ data.authed = sess[b].authed /\ data.stamp = sess[b].stamp
    BY <1>3, SameSession DEF Session
<1>5. sess'[b] = data /\ (\A a \in Browser : a # b => sess'[a] = sess[a])
      /\ sess' \in [Browser -> Session]
    BY <1>2, <1>4 DEF SetSession, TypeOK
<1> HIDE DEF data
<1>6. /\ pc'[b] \in {"idle", "authenticate"} /\ \A a \in Browser : a # b => pc'[a] = pc[a]
      /\ pc' \in [Browser -> Stage]
      /\ call' \in [Browser -> Call] /\ \A a \in Browser : call'[a] \in {call[a], NoCall}
    <2>1. call \in [Browser -> Call] /\ pc \in [Browser -> Stage]
        BY DEF TypeOK, Call
    <2>2. \E stage \in {"idle", "authenticate"} : pc' = [pc EXCEPT ![b] = stage]
        BY DEF Track, Answer, Goto
    <2>3. call' = call \/ call' = [call EXCEPT ![b] = NoCall]
        BY DEF Track, Answer
    <2> HIDE DEF IInv
    <2> QED
        BY <2>1, <2>2, <2>3, NoCallShape DEF Stage
<1>7. \A a \in Browser : sess'[a].authed = sess[a].authed /\ sess'[a].stamp = sess[a].stamp
    BY <1>4, <1>5
<1>8. TypeOK'
    <2>1. tracks' \in SUBSET Token /\ lost' \in SUBSET tracks'
        BY <1>2, <1>3 DEF TypeOK, TokensCarried
    <2> QED
        BY <1>1, <1>5, <1>6, <2>1 DEF TypeOK, Call
<1>9. Phases'
    BY <1>1, <1>6, <1>7 DEF Phases, RememberMe
<1>10. TokensCarried'
    <2>1. \A a, c \in Browser : a # c /\ sess'[a].track = sess'[c].track => sess'[a].track = None
        BY <1>3, <1>4, <1>5 DEF TokensCarried
    <2>2. ASSUME NEW a \in Browser PROVE sess'[a].track \notin lost'
        <3>1. new \notin lost'
            BY <1>2, <1>3 DEF TypeOK
        <3>2. CASE a = b
            BY <1>4, <1>5, <3>1, <3>2
        <3>3. CASE a # b
            BY <1>2, <1>5, <3>3 DEF TokensCarried, TypeOK
        <3> QED
            BY <3>2, <3>3
    <2>3. NoGhostSession'
        <3>1. ASSUME NEW t \in tracks' PROVE t \in {sess'[a].track : a \in Browser} \cup lost'
            <4>1. CASE t = new
                BY <1>4, <1>5, <4>1
            <4>2. CASE t # new /\ t \notin lost'
                <5>1. t \in tracks /\ t \notin lost /\ t # old
                    BY <1>2, <3>1, <4>2
                <5>2. PICK a \in Browser : t = sess[a].track
                    BY <5>1 DEF TokensCarried, NoGhostSession
                <5> QED
                    BY <1>5, <5>1, <5>2
            <4> QED
                BY <4>1, <4>2
        <3> QED
            BY <3>1 DEF NoGhostSession
    <2> QED
        BY <2>1, <2>2, <2>3 DEF TokensCarried
<1>11. Stamps'
    <2>1. password \in Nat
        BY DEF TypeOK
    <2> QED
        BY <1>1, <1>6, <1>7, <2>1, NoCallShape DEF Stamps
<1>12. Origins' /\ LeftForGood'
    BY <1>1, <1>6, <1>7 DEF Origins, BeganWith, LeftForGood, TypeOK
<1> QED
    BY <1>8, <1>9, <1>10, <1>11, <1>12

LEMMA LoadKeeps ==
    ASSUME IInv, NEW b \in Browser, Load(b), UNCHANGED option
    PROVE  IInv'
<1> USE AuthSessionsAssumption
<1>1. pc[b] = "load" /\ UNCHANGED <<option, password, locked, tracks, call, left, lost>>
    BY DEF Load
<1>2. CASE /\ SetSession(b, [sess[b] EXCEPT !.authed = TRUE, !.stamp = password])
           /\ Goto(b, IF Tracking THEN "track" ELSE "authenticate")
           /\ UNCHANGED <<live, jar, origin, excused>>
    <2> DEFINE data == [sess[b] EXCEPT !.authed = TRUE, !.stamp = password]
               stage == IF Tracking THEN "track" ELSE "authenticate"
    <2>1. data \in Session /\ data.track = sess[b].track /\ data.stamp = password /\ password <= password
        <3>1. sess[b] \in Session /\ password \in Nat
            BY DEF IInv, TypeOK
        <3>2. data \in Session
            BY <3>1 DEF Session
        <3>3. data.track = sess[b].track /\ data.stamp = password
            BY <3>1 DEF Session
        <3> QED
            BY <3>1, <3>2, <3>3
    <2>2. stage \in {"track", "authenticate"} /\ stage \in Stage
        BY DEF Stage
    <2>3. BeganWith(b)' /\ \A x : BeganWith(x) => BeganWith(x)'
        BY <1>1, <1>2 DEF IInv, Origins, BeganWith
    <2>4. b \notin left
        BY <1>1 DEF IInv, LeftForGood
    <2>5. call[b] \in Call /\ call[b].read <= password /\ call' = [call EXCEPT ![b] = call[b]]
        BY <1>1, SameSession
    <2>6. /\ origin' \in [Browser \cup Family -> Nat] /\ excused' \in SUBSET (Browser \cup Family)
          /\ left' \in SUBSET left /\ b \notin left'
          /\ UNCHANGED <<option, serverVars, jar, lost>>
        BY <1>1, <1>2, <2>4 DEF IInv, TypeOK, serverVars
    <2>7. SetSession(b, data) /\ Goto(b, stage)
        BY <1>2
    <2> HIDE DEF data, stage
    <2> QED
        BY <1>1, <2>1, <2>2, <2>3, <2>5, <2>6, <2>7, SessionStep
<1>3. CASE RefuseCookie(b, live) /\ UNCHANGED sess
    <2> USE <1>1, <1>3 DEF IInv, RefuseCookie, Cleared, Forget, Goto
    <2>1. TypeOK'
        BY DEF TypeOK, Stage
    <2>2. Phases' /\ TokensCarried' /\ Stamps'
        BY DEF TypeOK, Phases, RememberMe, TokensCarried, NoGhostSession, Stamps
    <2>3. Origins'
        BY DEF TypeOK, Origins, BeganWith, Phases
    <2>4. LeftForGood'
        BY DEF TypeOK, LeftForGood
    <2> QED
        BY <2>1, <2>2, <2>3, <2>4
<1> QED
    BY <1>2, <1>3 DEF Load

-----------------------------------------------------------------------------
(* The administrator and the schedule *)

LEMMA SetPasswordKeeps ==
    ASSUME IInv, SetPassword, UNCHANGED option
    PROVE  IInv'
<1> USE AuthSessionsAssumption
<1>1. /\ password' = password + 1 /\ password \in Nat
      /\ excused' = excused \cup Overtaken(None) \cup live
      /\ UNCHANGED <<option, locked, live, tracks, sess, jar, pc, call, origin, left, lost>>
    BY DEF SetPassword, clientVars, IInv, TypeOK
<1>2. Overtaken(None) = {c \in Browser : pc[c] \in {"rotate", "load", "reread"}}
    BY DEF Overtaken
<1>3. TypeOK'
    <2>1. excused' \in SUBSET (Browser \cup Family)
        BY <1>1, <1>2 DEF IInv, TypeOK
    <2> QED
        BY <1>1, <2>1 DEF IInv, TypeOK
<1>4. Stamps' /\ \A a \in Browser : sess'[a].stamp # password'
    <2>1. \A a \in Browser : sess[a].stamp \in Nat /\ call[a].read \in Nat
        BY DEF IInv, TypeOK, Session
    <2> QED
        BY <1>1, <2>1 DEF IInv, Stamps
<1>5. Origins'
    BY <1>1, <1>2, <1>4 DEF Origins, BeganWith
<1>6. Phases' /\ TokensCarried' /\ LeftForGood'
    BY <1>1 DEF IInv, Phases, RememberMe, TokensCarried, NoGhostSession, LeftForGood
<1> QED
    BY <1>3, <1>4, <1>5, <1>6 DEF IInv

LEMMA OtherStepsKeep ==
    ASSUME IInv, Lock \/ Unlock \/ PruneStale \/ UNCHANGED vars, UNCHANGED option
    PROVE  IInv'
<1>1. /\ UNCHANGED <<option, password, live, sess, jar, pc, call, origin, excused, left>>
      /\ locked' \in BOOLEAN
      /\ \/ UNCHANGED <<tracks, lost>>
         \/ tracks' = tracks \ lost /\ lost' = {}
    BY DEF Lock, Unlock, PruneStale, vars, serverVars, clientVars, historyVars, IInv, TypeOK
<1>2. TypeOK'
    BY <1>1 DEF IInv, TypeOK
<1>3. Phases' /\ Stamps' /\ LeftForGood'
    BY <1>1 DEF IInv, Phases, RememberMe, Stamps, LeftForGood
<1>4. Origins'
    BY <1>1 DEF IInv, Origins, BeganWith
<1>5. TokensCarried'
    BY <1>1 DEF IInv, TokensCarried, NoGhostSession
<1> QED
    BY <1>2, <1>3, <1>4, <1>5 DEF IInv

-----------------------------------------------------------------------------

LEMMA InitEstablishes == Init => IInv
<1> SUFFICES ASSUME Init PROVE IInv
    OBVIOUS
<1> USE AuthSessionsAssumption
<1>1. NoSession \in Session /\ ~NoSession.authed /\ NoSession.track = None /\ NoSession.stamp = 0
    BY DEF NoSession, Session
<1>2. \A b \in Browser :
         sess[b] = NoSession /\ pc[b] = "idle" /\ call[b] = NoCall /\ jar[b] = None
    BY DEF Init
<1>3. TypeOK
    <2>1. sess \in [Browser -> Session] /\ call \in [Browser -> Call]
        BY <1>1, NoCallShape DEF Init
    <2>2. pc \in [Browser -> Stage] /\ option \in Option
        BY DEF Init, Stage
    <2> QED
        BY <1>2, <2>1, <2>2 DEF Init, TypeOK, Call
<1>4. Phases /\ TokensCarried /\ LeftForGood
    BY <1>1, <1>2 DEF Init, Phases, TokensCarried, NoGhostSession, LeftForGood
<1>5. Stamps
    BY <1>1, <1>2, NoCallShape DEF Init, Stamps
<1>6. Origins
    BY <1>1, <1>2 DEF Init, Origins
<1> QED
    BY <1>3, <1>4, <1>5, <1>6 DEF IInv

LEMMA NextKeeps == IInv /\ [Next]_vars => IInv'
<1> SUFFICES ASSUME IInv, [Next]_vars PROVE IInv'
    OBVIOUS
<1>1. UNCHANGED option
    BY DEF Next, vars
<1>2. CASE \E b \in Browser :
             \/ \E typed \in 1..MaxPassword, want \in BOOLEAN : Login(b, typed, want)
             \/ \E route \in Route : Request(b, route)
             \/ Challenge(b) \/ Expire(b) \/ Step(b)
    <2>1. PICK b \in Browser :
             \/ \E typed \in 1..MaxPassword, want \in BOOLEAN : Login(b, typed, want)
             \/ \E route \in Route : Request(b, route)
             \/ Challenge(b) \/ Expire(b) \/ Step(b)
        BY <1>2
    <2>2. CASE \E typed \in 1..MaxPassword, want \in BOOLEAN : Login(b, typed, want)
        BY <1>1, <2>2, LoginKeeps
    <2>3. CASE \E route \in Route : Request(b, route)
        BY <1>1, <2>3, RequestKeeps
    <2>4. CASE Challenge(b) \/ Expire(b)
        BY <1>1, <2>4, ChallengeKeeps, ExpireKeeps
    <2>5. CASE Step(b)
        BY <1>1, <2>5, VerifyKeeps, IssueKeeps, TrackKeeps, ResolveKeeps, RotateKeeps,
           LoadKeeps, AuthenticateKeeps, TouchKeeps, CheckPasswordKeeps, LogoutKeeps,
           TerminateKeeps, WritePasswordKeeps, RereadKeeps, RevokeKeeps DEF Step
    <2> QED
        BY <2>1, <2>2, <2>3, <2>4, <2>5
<1>3. CASE SetPassword \/ Lock \/ Unlock \/ PruneStale \/ UNCHANGED vars
    BY <1>1, <1>3, SetPasswordKeeps, OtherStepsKeep
<1> QED
    BY <1>2, <1>3 DEF Next

\* The inductive invariant holds of every state the code reaches.
THEOREM InvariantHolds == Spec => []IInv
BY InitEstablishes, NextKeeps, PTL DEF Spec

-----------------------------------------------------------------------------
(* Theorems *)

\* Every variable has its type, and every lost token is in the table.
THEOREM SessionsTyped == Spec => []TypeOK
<1>1. IInv => TypeOK
    BY DEF IInv
<1> QED
    BY <1>1, InvariantHolds, PTL

\* Every row of the list of active sessions belongs to a session that carries its
\* token, or to one whose token was lost to expiry or to a failed statement.
THEOREM SessionsWithoutGhosts == Spec => []NoGhostSession
<1>1. IInv => NoGhostSession
    BY DEF IInv, TokensCarried
<1> QED
    BY <1>1, InvariantHolds, PTL

\* Only Authenticate lets a request through.
LEMMA OnlyAuthenticatePasses ==
    ASSUME IInv, Next, NEW b \in Browser, Passes(b)
    PROVE  Admitted(b)
<1>1. pc[b] = "authenticate" /\ pc'[b] \in {"touch", "serve"} /\ pc \in [Browser -> Stage]
    BY DEF Passes, IInv, TypeOK
<1>2. PICK a \in Browser :
             \/ \E typed \in 1..MaxPassword, want \in BOOLEAN : Login(a, typed, want)
             \/ \E route \in Route : Request(a, route)
             \/ Challenge(a) \/ Expire(a) \/ Step(a)
    BY <1>1 DEF Next, SetPassword, Lock, Unlock, PruneStale, clientVars
<1>3. \/ UNCHANGED pc
      \/ \E s : pc' = [pc EXCEPT ![a] = s]
    <2>1. CASE \E typed \in 1..MaxPassword, want \in BOOLEAN : Login(a, typed, want)
        BY <2>1 DEF Login, CompleteLogin, Goto
    <2>2. CASE \/ \E route \in Route : Request(a, route)
               \/ Challenge(a) \/ Expire(a)
        BY <2>2 DEF Request, Challenge, Expire, Goto
    <2>3. CASE \/ Verify(a) \/ Issue(a) \/ Track(a) \/ Resolve(a) \/ Rotate(a) \/ Load(a)
               \/ Authenticate(a) \/ Touch(a)
        BY <2>3 DEF Verify, CompleteLogin, Issue, Track, Resolve, Rotate, RefuseCookie,
                    Load, Authenticate, Touch, Answer, Goto
    <2>4. CASE \/ ServeOther(a) \/ Logout(a) \/ Terminate(a) \/ TerminateOthers(a)
               \/ CheckPassword(a) \/ WritePassword(a) \/ Reread(a) \/ RevokeAllForUser(a)
        BY <2>4 DEF ServeOther, Logout, Terminate, TerminateOthers, CheckPassword,
                    WritePassword, Reread, RevokeAllForUser, Answer, Goto
    <2> QED
        BY <1>2, <2>1, <2>2, <2>3, <2>4 DEF Step
<1>4. a = b
    BY <1>1, <1>3
<1>5. Authenticate(b)
    BY <1>1, <1>2, <1>4
       DEF Login, Request, Challenge, Expire, Step, Verify, Issue, Track, Resolve, Rotate,
           Load, Touch, ServeOther, Logout, Terminate, TerminateOthers, CheckPassword,
           WritePassword, Reread, RevokeAllForUser
<1>6. ~Answer(b)
    BY <1>1 DEF Answer, Goto
<1> QED
    BY <1>5, <1>6 DEF Authenticate

\* A session that began with an earlier password is served only through one of
\* the windows that history excuses.
THEOREM SessionsEndWithTheirPassword == Spec => OutlivesPasswordOnlyIfExcused
<1>1. IInv /\ [Next]_vars =>
         [\A b \in Browser : Passes(b) => origin[b] = password \/ b \in excused]_vars
    <2> SUFFICES ASSUME IInv, Next, NEW b \in Browser, Passes(b)
                 PROVE  BeganWith(b)
        BY DEF BeganWith
    <2> QED
        BY OnlyAuthenticatePasses DEF Admitted, LoggedIn, StampValid, IInv, Origins
<1> QED
    BY <1>1, InvariantHolds, PTL DEF Spec, OutlivesPasswordOnlyIfExcused

\* A browser that logged out is served again only after a login with the
\* password.
THEOREM SessionsLogoutNeedsLogin == Spec => LogoutNeedsLogin
<1>1. IInv /\ [Next]_vars => [\A b \in Browser : Passes(b) => b \notin left]_vars
    <2> SUFFICES ASSUME IInv, Next, NEW b \in Browser, Passes(b)
                 PROVE  b \notin left
        OBVIOUS
    <2> QED
        BY OnlyAuthenticatePasses DEF Admitted, LoggedIn, IInv, LeftForGood
<1> QED
    BY <1>1, InvariantHolds, PTL DEF Spec, LogoutNeedsLogin

\* A row appears in the list of active sessions only with a token that no session
\* carries yet.
LEMMA TokensAreFresh ==
    ASSUME IInv, Next, NEW b \in Browser, NEW t, t = sess[b].track, t \notin tracks,
           t \in tracks'
    PROVE  sess'[b].track # t
<1>1. tracks' \subseteq tracks \/ \E a \in Browser : Track(a)
    <2>1. CASE \E a \in Browser :
             \/ \E typed \in 1..MaxPassword, want \in BOOLEAN : Login(a, typed, want)
             \/ \E route \in Route : Request(a, route)
             \/ Challenge(a) \/ Expire(a) \/ Verify(a) \/ Issue(a) \/ Resolve(a) \/ Rotate(a)
             \/ Load(a) \/ Authenticate(a) \/ Touch(a)
        BY <2>1 DEF Login, Request, Challenge, Expire, Verify, Issue, Resolve, Rotate, Load,
                    Authenticate, Touch, Touched, serverVars
    <2>2. CASE \E a \in Browser :
             \/ ServeOther(a) \/ Logout(a) \/ Terminate(a) \/ TerminateOthers(a)
             \/ CheckPassword(a) \/ WritePassword(a) \/ Reread(a) \/ RevokeAllForUser(a)
        BY <2>2 DEF ServeOther, Logout, WithoutRow, Terminate, TerminateOthers, CheckPassword,
                    WritePassword, Reread, RevokeAllForUser, serverVars
    <2>3. CASE SetPassword \/ Lock \/ Unlock \/ PruneStale
        BY <2>3 DEF SetPassword, Lock, Unlock, PruneStale
    <2> QED
        BY <2>1, <2>2, <2>3 DEF Next, Step
<1>2. PICK a \in Browser : Track(a)
    BY <1>1
<1>3. PICK new \in FreshTokens :
          /\ sess' = [sess EXCEPT ![a] = [sess[a] EXCEPT !.track = new]]
          /\ tracks' \subseteq tracks \cup {new}
    BY <1>2 DEF Track, SetSession, TracksAfter, WithoutRow
<1>4. t # new
    BY <1>3 DEF FreshTokens, Held
<1> QED
    BY <1>3, <1>4

\* A session that another device terminated stays terminated.
THEOREM SessionsTerminatedForGood == Spec => TerminatedForGood
<1>1. IInv /\ [Next]_vars =>
         [\A b \in Browser :
            LET t == sess[b].track IN
            t # None /\ t \notin tracks /\ sess'[b].track = t => t \notin tracks']_vars
    <2> SUFFICES ASSUME IInv, Next, NEW b \in Browser, sess[b].track \notin tracks,
                        sess'[b].track = sess[b].track
                 PROVE  sess[b].track \notin tracks'
        OBVIOUS
    <2> QED
        BY TokensAreFresh
<1> QED
    BY <1>1, InvariantHolds, PTL DEF Spec, TerminatedForGood

=============================================================================
