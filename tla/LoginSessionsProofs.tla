------------------------ MODULE LoginSessionsProofs ------------------------
(***************************************************************************)
(* Theorems about LoginSessions, for any subjects, groups, logins, tokens   *)
(* and requests in progress.                                                *)
(***************************************************************************)
EXTENDS LoginSessions, FiniteSetTheorems, TLAPS

-----------------------------------------------------------------------------
(* Types, and what a handler knows at each of its steps.                    *)

(* A handler has the subject once the claims are there, and the row it read is
   that subject's; a request that presents a token is part of no login. *)
KnownAt(h) ==
    /\ h.step = "exchange" => h.code \in Code /\ h.login \in Logins
    /\ h.step \in {"upsert", "select", "issue"} => h.subject \in Subjects
    /\ h.step = "issue" => h.user = h.subject
    /\ h.step \in {"drop", "touch", "act"} => h.token \in Tokens /\ h.login = None
    /\ h.step = "touch" => h.user \in Subjects

StepInv == \A q \in Requests : req[q] # None => KnownAt(req[q])

LoginInv == LoginTypeOK /\ StepInv

LEMMA InitLogin == LoginInit => LoginInv
  BY DEF LoginInit, LoginInv, LoginTypeOK, StepInv

(* A handler's new state is what its type and KnownAt ask for. *)
LEMMA HandlerMoves ==
  ASSUME LoginInv, NEW q \in Requests, NEW h \in Handler, KnownAt(h),
         req' = [req EXCEPT ![q] = h]
  PROVE  req' \in [Requests -> Handler \cup {None}] /\ StepInv'
  <1>1. req \in [Requests -> Handler \cup {None}] /\ StepInv
    BY DEF LoginInv, LoginTypeOK
  <1>2. \A p \in Requests : req'[p] = IF p = q THEN h ELSE req[p]
    BY <1>1
  <1>3. QED
    BY <1>1, <1>2 DEF StepInv

LEMMA HandlerEnds ==
  ASSUME LoginInv, NEW q \in Requests, End(q)
  PROVE  req' \in [Requests -> Handler \cup {None}] /\ StepInv'
  <1>1. req \in [Requests -> Handler \cup {None}] /\ StepInv
    BY DEF LoginInv, LoginTypeOK
  <1>2. \A p \in Requests : req'[p] = IF p = q THEN None ELSE req[p]
    BY <1>1 DEF End
  <1>3. req' \in [Requests -> Handler \cup {None}]
    BY <1>1 DEF End
  <1>4. QED
    BY <1>1, <1>2, <1>3 DEF StepInv

(* The state a handler leaves the exchange with. *)
LEMMA AuthenticatedMoves ==
  ASSUME NEW q \in Requests, NEW h \in Handler, NEW u \in Subjects, Authenticated(q, h, u)
  PROVE  \E g \in SeenGroups(u) :
            LET k == [h EXCEPT !.step = "upsert", !.code = None, !.subject = u, !.role = UserRole(u, g)]
            IN k \in Handler /\ KnownAt(k) /\ req' = [req EXCEPT ![q] = k]
  <1> DEFINE k(g) == [h EXCEPT !.step = "upsert", !.code = None, !.subject = u, !.role = UserRole(u, g)]
  <1>1. PICK g \in SeenGroups(u) : req' = [req EXCEPT ![q] = k(g)]
    BY DEF Authenticated
  <1>2. UserRole(u, g) \in Role
    BY DEF UserRole, Role
  <1>3. k(g) \in Handler /\ k(g).step = "upsert" /\ k(g).subject = u
    BY <1>2 DEF Handler
  <1>4. KnownAt(k(g))
    BY <1>3 DEF KnownAt
  <1>5. QED
    BY <1>1, <1>3, <1>4

LEMMA NextLogin == LoginInv /\ [LoginNext]_loginVars => LoginInv'
  <1> SUFFICES ASSUME LoginInv, [LoginNext]_loginVars PROVE LoginInv'
    OBVIOUS
  <1> USE LoginAssumption
  <1> DEFINE ReqOK == req \in [Requests -> Handler \cup {None}] /\ StepInv
             RestOK == /\ claims \in [Subjects -> SUBSET Groups]
                       /\ codes \subseteq Code
                       /\ states \in [Logins -> {"unused", "open", "expired", "deleted"}]
                       /\ users \in [Subjects -> Role \cup {None}]
                       /\ sessions \in [Tokens -> Session \cup {None}]
                       /\ issued \in [Tokens -> Issued \cup {None}]
                       /\ granted \subseteq Subjects
  <1>1. ReqOK /\ RestOK
    BY DEF LoginInv, LoginTypeOK
  <1>2. ReqOK' /\ RestOK' => LoginInv'
    BY DEF LoginInv, LoginTypeOK
  <1>3. UNCHANGED req => ReqOK'
    BY <1>1 DEF StepInv
  <1>4. ASSUME NEW q \in Requests, req[q] # None PROVE req[q] \in Handler /\ KnownAt(req[q])
    BY <1>1, <1>4 DEF StepInv
  <1> HIDE DEF ReqOK
  <1>5. CASE Environment
    <2>1. UNCHANGED req
      BY <1>5 DEF Environment, SetClaims, AuthenticateAt, ExpireCode, Login, ExpireLogin,
                  ExpireSession, Logout, tables
    <2>2. RestOK'
      <3>1. ASSUME NEW u \in Subjects, NEW g \in SUBSET Groups, SetClaims(u, g) PROVE RestOK'
        BY <1>1, <3>1 DEF SetClaims, tables
      <3>2. ASSUME NEW s \in Logins, NEW u \in Subjects, AuthenticateAt(s, u) PROVE RestOK'
        BY <1>1, <3>2 DEF AuthenticateAt, tables, Code
      <3>3. ASSUME NEW c \in codes, ExpireCode(c) PROVE RestOK'
        BY <1>1, <3>3 DEF ExpireCode, tables
      <3>4. ASSUME NEW s \in Logins, Login(s) \/ ExpireLogin(s) PROVE RestOK'
        BY <1>1, <3>4 DEF Login, ExpireLogin, provider
      <3>5. ASSUME NEW t \in Tokens, ExpireSession(t) PROVE RestOK'
        <4>1. sessions[t] \in Session
          BY <1>1, <3>5 DEF ExpireSession
        <4>2. [sessions[t] EXCEPT !.expired = TRUE] \in Session
          BY <4>1 DEF Session
        <4>3. sessions' = [sessions EXCEPT ![t] = [sessions[t] EXCEPT !.expired = TRUE]]
          BY <3>5 DEF ExpireSession
        <4>4. sessions' \in [Tokens -> Session \cup {None}]
          BY <1>1, <4>2, <4>3
        <4>5. QED
          BY <1>1, <3>5, <4>4 DEF ExpireSession, provider
      <3>6. ASSUME NEW t \in Tokens, Logout(t) PROVE RestOK'
        BY <1>1, <3>6 DEF Logout, provider
      <3>7. QED
        BY <1>5, <3>1, <3>2, <3>3, <3>4, <3>5, <3>6 DEF Environment
    <2>3. QED
      BY <1>2, <1>3, <2>1, <2>2
  <1>6. ASSUME NEW q \in Requests, NEW s \in Logins, NEW c \in codes, Callback(q, s, c) PROVE LoginInv'
    <2>1. RestOK'
      BY <1>1, <1>6 DEF Callback, provider
    <2>2. [Fresh EXCEPT !.step = "exchange", !.login = s, !.code = c] \in Handler
          /\ KnownAt([Fresh EXCEPT !.step = "exchange", !.login = s, !.code = c])
      BY <1>1 DEF Fresh, Handler, KnownAt
    <2>3. ReqOK'
      BY <1>3, <1>6, <2>2, HandlerMoves DEF Callback, Consumed, Begin, ReqOK
    <2>4. QED
      BY <1>2, <2>1, <2>3
  <1>7. ASSUME NEW q \in Requests, NEW h \in Handler, NEW u \in Subjects, Authenticated(q, h, u)
        PROVE  ReqOK' /\ granted' \subseteq Subjects
    <2>1. granted' \subseteq Subjects
      BY <1>1, <1>7 DEF Authenticated
    <2>2. QED
      BY <1>7, <2>1, AuthenticatedMoves, HandlerMoves DEF ReqOK
  <1>8. ASSUME NEW q \in Requests, NEW u \in Subjects, DevicePoll(q, u) PROVE LoginInv'
    <2>1. Fresh \in Handler
      BY DEF Fresh, Handler
    <2>2. ReqOK' /\ granted' \subseteq Subjects
      BY <1>7, <1>8, <2>1 DEF DevicePoll
    <2>3. RestOK'
      BY <1>1, <1>8, <2>2 DEF DevicePoll, provider, tables
    <2>4. QED
      BY <1>2, <2>2, <2>3
  <1>9. ASSUME NEW q \in Requests, Exchange(q) PROVE LoginInv'
    <2>1. req[q] \in Handler /\ req[q].code \in Code
      BY <1>4, <1>9 DEF Exchange, At, KnownAt
    <2>2. req[q].code.subject \in Subjects
      BY <2>1 DEF Code
    <2>3. ReqOK' /\ granted' \subseteq Subjects /\ codes' \subseteq codes
      BY <1>1, <1>7, <1>9, <2>1, <2>2, HandlerEnds DEF Exchange, ReqOK
    <2>4. RestOK'
      BY <1>1, <1>9, <2>3 DEF Exchange, tables
    <2>5. QED
      BY <1>2, <2>3, <2>4
  <1>10. ASSUME NEW q \in Requests, Upsert(q) PROVE LoginInv'
    <2>1. req[q] \in Handler /\ req[q].subject \in Subjects
      BY <1>4, <1>10 DEF Upsert, At, KnownAt
    <2>2. /\ [req[q] EXCEPT !.step = "select"] \in Handler
          /\ KnownAt([req[q] EXCEPT !.step = "select"])
          /\ req[q].role \in Role \cup {None}
      BY <2>1 DEF Handler, KnownAt
    <2>3. ReqOK'
      BY <1>10, <2>2, HandlerMoves DEF Upsert, Goto, ReqOK
    <2>4. users' \in [Subjects -> Role \cup {None}]
      BY <1>1, <1>10, <2>1, <2>2 DEF Upsert
    <2>5. RestOK'
      BY <1>1, <1>10, <2>4 DEF Upsert, provider
    <2>6. QED
      BY <1>2, <2>3, <2>5
  <1>11. ASSUME NEW q \in Requests, Select(q) PROVE LoginInv'
    <2>1. req[q] \in Handler /\ req[q].subject \in Subjects
      BY <1>4, <1>11 DEF Select, At, KnownAt
    <2> DEFINE h == [req[q] EXCEPT !.step = "issue", !.role = None, !.user = req[q].subject]
    <2>2. h \in Handler /\ KnownAt(h)
      BY <2>1 DEF Handler, KnownAt
    <2>3. req' = [req EXCEPT ![q] = h]
      BY <1>11 DEF Select
    <2>4. ReqOK'
      BY <2>2, <2>3, HandlerMoves DEF ReqOK
    <2>5. RestOK'
      BY <1>1, <1>11 DEF Select, provider, tables
    <2>6. QED
      BY <1>2, <2>4, <2>5
  <1>12. ASSUME NEW q \in Requests, NEW t \in Tokens, Issue(q, t) PROVE LoginInv'
    <2>1. req[q] \in Handler /\ req[q].subject \in Subjects /\ req[q].user \in Subjects
      BY <1>4, <1>12 DEF Issue, At, KnownAt
    <2>2. /\ [user |-> req[q].user, expired |-> FALSE] \in Session
          /\ [login |-> req[q].login, subject |-> req[q].subject] \in Issued
      BY <2>1 DEF Session, Handler, Issued
    <2>3. /\ sessions' \in [Tokens -> Session \cup {None}]
          /\ issued' \in [Tokens -> Issued \cup {None}]
      BY <1>1, <1>12, <2>2 DEF Issue
    <2>4. RestOK'
      BY <1>1, <1>12, <2>3 DEF Issue, provider
    <2>5. ReqOK'
      BY <1>12, HandlerEnds DEF Issue, ReqOK
    <2>6. QED
      BY <1>2, <2>4, <2>5
  <1>13. ASSUME NEW q \in Requests, NEW t \in Tokens, Present(q, t) PROVE LoginInv'
    <2>1. sessions[t] \in Session /\ sessions[t].user \in Subjects
          /\ users[sessions[t].user] \in Role \cup {None}
      BY <1>1, <1>13 DEF Present, Session
    <2>2. /\ [Fresh EXCEPT !.step = "drop", !.token = t] \in Handler
          /\ KnownAt([Fresh EXCEPT !.step = "drop", !.token = t])
      BY DEF Fresh, Handler, KnownAt
    <2>3. /\ [Fresh EXCEPT !.step = "touch", !.token = t, !.user = sessions[t].user,
                           !.role = users[sessions[t].user]] \in Handler
          /\ KnownAt([Fresh EXCEPT !.step = "touch", !.token = t, !.user = sessions[t].user,
                                   !.role = users[sessions[t].user]])
      BY <2>1 DEF Fresh, Handler, KnownAt
    <2>4. ReqOK'
      BY <1>13, <2>2, <2>3, HandlerMoves DEF Present, Begin, ReqOK
    <2>5. RestOK'
      BY <1>1, <1>13 DEF Present, provider, tables
    <2>6. QED
      BY <1>2, <2>4, <2>5
  <1>14. ASSUME NEW q \in Requests, DropExpired(q) PROVE LoginInv'
    <2>1. RestOK'
      BY <1>1, <1>14 DEF DropExpired, provider
    <2>2. ReqOK'
      BY <1>14, HandlerEnds DEF DropExpired, ReqOK
    <2>3. QED
      BY <1>2, <2>1, <2>2
  <1>15. ASSUME NEW q \in Requests, Touch(q) PROVE LoginInv'
    <2>1. req[q] \in Handler /\ req[q].token \in Tokens /\ req[q].login = None
      BY <1>4, <1>15 DEF Touch, At, KnownAt
    <2>2. [req[q] EXCEPT !.step = "act"] \in Handler /\ KnownAt([req[q] EXCEPT !.step = "act"])
      BY <2>1 DEF Handler, KnownAt
    <2>3. ReqOK'
      BY <1>15, <2>2, HandlerMoves, HandlerEnds DEF Touch, Goto, ReqOK
    <2>4. RestOK'
      BY <1>1, <1>15 DEF Touch, provider, tables
    <2>5. QED
      BY <1>2, <2>3, <2>4
  <1>16. ASSUME NEW q \in Requests, CutOff(q) \/ Answered(q) PROVE LoginInv'
    <2>1. RestOK'
      BY <1>1, <1>16 DEF CutOff, Answered, provider, tables
    <2>2. ReqOK'
      BY <1>16, HandlerEnds DEF CutOff, Answered, ReqOK
    <2>3. QED
      BY <1>2, <2>1, <2>2
  <1>17. CASE ProcessRestart
    <2>1. RestOK'
      BY <1>1, <1>17 DEF ProcessRestart, provider, tables
    <2>2. ReqOK'
      BY <1>17 DEF ProcessRestart, ReqOK, StepInv
    <2>3. QED
      BY <1>2, <2>1, <2>2
  <1>18. CASE UNCHANGED loginVars
    BY <1>1, <1>2, <1>3, <1>18 DEF loginVars, provider, tables
  <1>19. QED
    BY <1>5, <1>6, <1>8, <1>9, <1>10, <1>11, <1>12, <1>13, <1>14, <1>15, <1>16, <1>17, <1>18
       DEF LoginNext, LoginStep, LogIn, Admit

(* The tables, the handlers and what they remember have their types: a session
   always has a user, and a role is one of the two. *)
THEOREM LoginTypeCorrect == LoginSpec => []LoginTypeOK
  <1>1. LoginInv => LoginTypeOK
    BY DEF LoginInv
  <1>2. QED
    BY <1>1, InitLogin, NextLogin, PTL DEF LoginSpec

-----------------------------------------------------------------------------
(* One session for each login.                                             *)

IssuedFor(t, s) == issued[t] # None /\ issued[t].login = s

(* A state that has not been consumed belongs to no handler and no session. *)
OnceInv ==
    \A s \in Logins :
        /\ states[s] # "deleted" => Passed(s) = {} /\ \A t \in Tokens : ~IssuedFor(t, s)
        /\ \A p, q \in Passed(s) : p = q
        /\ Passed(s) # {} => \A t \in Tokens : ~IssuedFor(t, s)
        /\ \A t, v \in Tokens : IssuedFor(t, s) /\ IssuedFor(v, s) => t = v

LEMMA InitOnce == LoginInit => OnceInv
  BY DEF LoginInit, OnceInv, Passed, IssuedFor

(* A handler whose new state has the login of the old one, or none. *)
LEMMA SameLogin ==
  ASSUME NEW q \in Requests, NEW h, LoginTypeOK, req' = [req EXCEPT ![q] = h],
         h = None \/ h.login = None \/ (req[q] # None /\ h.login = req[q].login)
  PROVE  \A s \in Logins : Passed(s)' \subseteq Passed(s)
  <1>1. \A p \in Requests : req'[p] = IF p = q THEN h ELSE req[p]
    BY DEF LoginTypeOK
  <1>2. QED
    BY <1>1, LoginAssumption DEF Passed

(* A step by which no login gets on: none is consumed, and none yields a session. *)
Calm == /\ UNCHANGED issued
        /\ \A s \in Logins : /\ states[s] = "deleted" => states'[s] = "deleted"
                             /\ states'[s] \in {"unused", "open"} => states[s] \in {"unused", "open"}
                             /\ Passed(s)' \subseteq Passed(s)

(* What a step may do to the logins. *)
LEMMA LoginSteps ==
  ASSUME LoginInv, [LoginNext]_loginVars
  PROVE  \/ Calm
         \/ \E q \in Requests, s \in Logins, c \in codes : states[s] = "open" /\ Callback(q, s, c)
         \/ \E q \in Requests, t \in Tokens : Issue(q, t)
  <1>1. LoginTypeOK /\ StepInv
    BY DEF LoginInv
  <1>2. UNCHANGED req => \A s \in Logins : Passed(s)' \subseteq Passed(s)
    BY DEF Passed
  <1>3. ASSUME NEW q \in Requests, NEW h, UNCHANGED <<states, issued>>, req' = [req EXCEPT ![q] = h],
               h = None \/ h.login = None \/ (req[q] # None /\ h.login = req[q].login)
        PROVE  Calm
    BY <1>1, <1>3, SameLogin DEF Calm
  <1>4. ASSUME NEW q \in Requests, UNCHANGED <<states, issued>>, End(q) PROVE Calm
    BY <1>3, <1>4 DEF End
  <1>5. CASE Environment
    <2>1. UNCHANGED <<issued, req>>
      BY <1>5 DEF Environment, SetClaims, AuthenticateAt, ExpireCode, Login, ExpireLogin,
                  ExpireSession, Logout, tables
    <2>2. \A s \in Logins :
             /\ states[s] = "deleted" => states'[s] = "deleted"
             /\ states'[s] \in {"unused", "open"} => states[s] \in {"unused", "open"}
      BY <1>1, <1>5 DEF Environment, SetClaims, AuthenticateAt, ExpireCode, Login, ExpireLogin,
                        ExpireSession, Logout, tables, LoginTypeOK
    <2>3. QED
      BY <1>2, <2>1, <2>2 DEF Calm
  <1>6. ASSUME NEW q \in Requests, NEW s \in Logins, NEW c \in codes, Callback(q, s, c), states[s] # "open"
        PROVE  Calm
    <2>1. UNCHANGED <<issued, req>> /\ states' = [states EXCEPT ![s] = "deleted"]
      BY <1>6 DEF Callback, Consumed
    <2>2. \A r \in Logins : states'[r] = IF r = s THEN "deleted" ELSE states[r]
      BY <1>1, <2>1 DEF LoginTypeOK
    <2>3. QED
      BY <1>2, <2>1, <2>2 DEF Calm
  <1>7. ASSUME NEW q \in Requests, NEW u \in Subjects, UNCHANGED <<states, issued>>,
               Authenticated(q, req[q], u), req[q] \in Handler, req[q] # None
        PROVE  Calm
    <2> DEFINE k(g) == [req[q] EXCEPT !.step = "upsert", !.code = None, !.subject = u,
                                      !.role = UserRole(u, g)]
    <2>1. PICK g \in SeenGroups(u) : req' = [req EXCEPT ![q] = k(g)]
      BY <1>7 DEF Authenticated
    <2>2. k(g).login = req[q].login
      BY <1>7 DEF Handler
    <2> HIDE DEF k
    <2>3. QED
      BY <1>3, <1>7, <2>1, <2>2
  <1>8. ASSUME NEW q \in Requests, NEW u \in Subjects, DevicePoll(q, u) PROVE Calm
    <2>1. \E g \in SeenGroups(u) :
            req' = [req EXCEPT ![q] = [Fresh EXCEPT !.step = "upsert", !.code = None, !.subject = u,
                                                    !.role = UserRole(u, g)]]
      BY <1>8 DEF DevicePoll, Authenticated
    <2>2. \A g \in SeenGroups(u) :
            [Fresh EXCEPT !.step = "upsert", !.code = None, !.subject = u, !.role = UserRole(u, g)].login = None
      BY DEF Fresh
    <2>3. UNCHANGED <<states, issued>>
      BY <1>8 DEF DevicePoll, tables
    <2>4. QED
      BY <1>3, <2>1, <2>2, <2>3
  <1>9. ASSUME NEW q \in Requests, Exchange(q) PROVE Calm
    <2>1. req[q] # None /\ req[q] \in Handler /\ req[q].code \in Code /\ UNCHANGED <<states, issued>>
      BY <1>1, <1>9 DEF Exchange, At, StepInv, KnownAt, LoginTypeOK, tables
    <2>2. req[q].code.subject \in Subjects
      BY <2>1 DEF Code
    <2>3. QED
      BY <1>4, <1>7, <1>9, <2>1, <2>2 DEF Exchange
  <1>10. ASSUME NEW q \in Requests, Upsert(q) \/ Select(q) \/ Touch(q) PROVE Calm
    <2>1. req[q] # None /\ req[q] \in Handler /\ UNCHANGED <<states, issued>>
      BY <1>1, <1>10 DEF Upsert, Select, Touch, At, LoginTypeOK, tables
    <2>2. /\ [req[q] EXCEPT !.step = "select"].login = req[q].login
          /\ [req[q] EXCEPT !.step = "act"].login = req[q].login
          /\ [req[q] EXCEPT !.step = "issue", !.role = None, !.user = req[q].subject].login = req[q].login
      BY <2>1 DEF Handler
    <2>3. \/ End(q)
          \/ req' = [req EXCEPT ![q] = [req[q] EXCEPT !.step = "select"]]
          \/ req' = [req EXCEPT ![q] = [req[q] EXCEPT !.step = "act"]]
          \/ req' = [req EXCEPT ![q] = [req[q] EXCEPT !.step = "issue", !.role = None,
                                                      !.user = req[q].subject]]
      BY <1>10 DEF Upsert, Select, Touch, Goto
    <2>4. QED
      BY <1>3, <1>4, <2>1, <2>2, <2>3
  <1>11. ASSUME NEW q \in Requests, NEW t \in Tokens, Present(q, t) PROVE Calm
    <2>1. UNCHANGED <<states, issued>>
      BY <1>11 DEF Present, tables
    <2> DEFINE drop == [Fresh EXCEPT !.step = "drop", !.token = t]
               touch == [Fresh EXCEPT !.step = "touch", !.token = t, !.user = sessions[t].user,
                                      !.role = users[sessions[t].user]]
    <2>2. drop.login = None /\ touch.login = None
      BY DEF Fresh
    <2>3. req' = [req EXCEPT ![q] = drop] \/ req' = [req EXCEPT ![q] = touch]
      BY <1>11 DEF Present, Begin
    <2> HIDE DEF drop, touch
    <2>4. QED
      BY <1>3, <2>1, <2>2, <2>3
  <1>12. ASSUME NEW q \in Requests, DropExpired(q) \/ CutOff(q) \/ Answered(q) PROVE Calm
    BY <1>4, <1>12 DEF DropExpired, CutOff, Answered, tables
  <1>13. CASE ProcessRestart
    <2>1. \A s \in Logins : Passed(s)' \subseteq Passed(s)
      BY <1>13 DEF ProcessRestart, Passed
    <2>2. QED
      BY <1>13, <2>1 DEF ProcessRestart, tables, Calm
  <1>14. CASE UNCHANGED loginVars
    BY <1>2, <1>14 DEF loginVars, tables, Calm
  <1>15. QED
    BY <1>5, <1>6, <1>8, <1>9, <1>10, <1>11, <1>12, <1>13, <1>14
       DEF LoginNext, LoginStep, LogIn, Admit

(* A callback that finds the login's state begins to handle it. *)
LEMMA CallbackPasses ==
  ASSUME LoginInv, NEW q \in Requests, NEW s \in Logins, NEW c \in codes, Callback(q, s, c)
  PROVE  /\ UNCHANGED <<issued, sessions>>
         /\ \A r \in Logins : states'[r] = IF r = s THEN "deleted" ELSE states[r]
         /\ \A r \in Logins : Passed(r)' \subseteq IF r = s THEN Passed(r) \cup {q} ELSE Passed(r)
  <1> DEFINE h == [Fresh EXCEPT !.step = "exchange", !.login = s, !.code = c]
  <1>1. /\ UNCHANGED <<issued, sessions>> /\ states' = [states EXCEPT ![s] = "deleted"]
        /\ UNCHANGED req \/ req' = [req EXCEPT ![q] = h]
    BY DEF Callback, Consumed, Begin
  <1>2. h.login = s
    BY DEF Fresh
  <1> HIDE DEF h
  <1>3. \A p \in Requests : req'[p] = req[p] \/ (p = q /\ req'[p] = h)
    BY <1>1 DEF LoginInv, LoginTypeOK
  <1>4. QED
    BY <1>1, <1>2, <1>3 DEF Passed, LoginInv, LoginTypeOK

(* A token is issued for the login of its handler, and ends it. *)
LEMMA IssueEnds ==
  ASSUME LoginInv, NEW q \in Requests, NEW t \in Tokens, Issue(q, t)
  PROVE  /\ UNCHANGED states /\ issued[t] = None
         /\ req[q] # None /\ req[q].login \in Logins \cup {None}
         /\ req[q].user \in Subjects /\ req[q].subject \in Subjects
         /\ issued' = [issued EXCEPT ![t] = [login |-> req[q].login, subject |-> req[q].subject]]
         /\ sessions' = [sessions EXCEPT ![t] = [user |-> req[q].user, expired |-> FALSE]]
         /\ \A s \in Logins : Passed(s)' = Passed(s) \ {q}
  <1>1. /\ UNCHANGED states /\ issued[t] = None /\ req' = [req EXCEPT ![q] = None]
        /\ issued' = [issued EXCEPT ![t] = [login |-> req[q].login, subject |-> req[q].subject]]
        /\ sessions' = [sessions EXCEPT ![t] = [user |-> req[q].user, expired |-> FALSE]]
    BY DEF Issue, End
  <1>2. /\ req[q] # None /\ req[q] \in Handler
        /\ req[q].user \in Subjects /\ req[q].subject \in Subjects
    BY DEF Issue, At, LoginInv, LoginTypeOK, StepInv, KnownAt
  <1>3. \A p \in Requests : req'[p] = IF p = q THEN None ELSE req[p]
    BY <1>1 DEF LoginInv, LoginTypeOK
  <1>4. \A s \in Logins : Passed(s)' = Passed(s) \ {q}
    BY <1>3 DEF Passed
  <1>5. QED
    BY <1>1, <1>2, <1>4 DEF Handler

LEMMA NextOnce == LoginInv /\ OnceInv /\ [LoginNext]_loginVars => OnceInv'
  <1> SUFFICES ASSUME LoginInv, OnceInv, [LoginNext]_loginVars PROVE OnceInv'
    OBVIOUS
  <1>1. CASE Calm
    BY <1>1 DEF Calm, OnceInv, IssuedFor
  <1>2. ASSUME NEW q \in Requests, NEW s \in Logins, NEW c \in codes, Callback(q, s, c), states[s] = "open"
        PROVE  OnceInv'
    <2>1. Passed(s) = {} /\ \A t \in Tokens : ~IssuedFor(t, s)
      BY <1>2 DEF OnceInv
    <2>2. /\ \A r \in Logins : states'[r] = IF r = s THEN "deleted" ELSE states[r]
          /\ \A r \in Logins : Passed(r)' \subseteq IF r = s THEN {q} ELSE Passed(r)
          /\ \A r \in Logins, t \in Tokens : IssuedFor(t, r)' = IssuedFor(t, r)
      BY <1>2, <2>1, CallbackPasses DEF IssuedFor
    <2>3. QED
      BY <2>1, <2>2 DEF OnceInv
  <1>3. ASSUME NEW q \in Requests, NEW t \in Tokens, Issue(q, t) PROVE OnceInv'
    <2>1. /\ UNCHANGED states /\ issued[t] = None /\ req[q] # None
          /\ \A s \in Logins : Passed(s)' = Passed(s) \ {q}
      BY <1>3, IssueEnds
    <2>2. \A v \in Tokens : issued'[v] = IF v = t THEN [login |-> req[q].login, subject |-> req[q].subject]
                                         ELSE issued[v]
      BY <1>3, IssueEnds DEF LoginInv, LoginTypeOK
    <2>3. \A s \in Logins, v \in Tokens :
             IssuedFor(v, s)' => IssuedFor(v, s) \/ (v = t /\ q \in Passed(s))
      BY <2>1, <2>2 DEF IssuedFor, Passed
    <2>4. QED
      BY <2>1, <2>3 DEF OnceInv
  <1>4. QED
    BY <1>1, <1>2, <1>3, LoginSteps

(* A browser login yields one session, however often and with whatever code its
   callback arrives. *)
THEOREM LoginsAreUsedOnce == LoginSpec => []LoginOnce
  <1>1. LoginInit => LoginInv /\ OnceInv
    BY InitLogin, InitOnce
  <1>2. LoginInv /\ OnceInv /\ [LoginNext]_loginVars => (LoginInv /\ OnceInv)'
    BY NextLogin, NextOnce
  <1>3. OnceInv => LoginOnce
    <2> SUFFICES ASSUME OnceInv, NEW s \in Logins
                 PROVE  /\ Cardinality(Passed(s)) <= 1
                        /\ Passed(s) # {} => \A t \in Tokens : ~IssuedFor(t, s)
                        /\ \A t, v \in Tokens : IssuedFor(t, s) /\ IssuedFor(v, s) => t = v
      BY DEF LoginOnce, IssuedFor
    <2>1. Passed(s) = {} \/ \E q : Passed(s) = {q}
      <3>1. \A p, q \in Passed(s) : p = q
        BY DEF OnceInv
      <3>2. QED
        BY <3>1
    <2>2. Cardinality(Passed(s)) = 0 \/ Cardinality(Passed(s)) = 1
      <3>1. \A q : Cardinality({q}) = 1
        BY FS_Singleton
      <3>2. QED
        BY <2>1, <3>1, FS_EmptySet
    <2>3. QED
      BY <2>2 DEF OnceInv
  <1>4. QED
    BY <1>1, <1>2, <1>3, PTL DEF LoginSpec

-----------------------------------------------------------------------------
(* Sessions and subjects.                                                  *)

(* What a step may do to the sessions: one expires or goes, while no login gets
   on, or one is issued; nothing else is written to them. *)
LEMMA SessionSteps ==
  ASSUME LoginInv, [LoginNext]_loginVars
  PROVE  \/ UNCHANGED <<issued, sessions>>
         \/ \E v \in Tokens :
              /\ UNCHANGED <<issued, states>> /\ \A s \in Logins : Passed(s)' = Passed(s)
              /\ \/ sessions' = [sessions EXCEPT ![v] = None]
                 \/ sessions[v] # None /\ sessions' = [sessions EXCEPT ![v].expired = TRUE]
         \/ \E q \in Requests, t \in Tokens : Issue(q, t)
  <1>1. CASE \/ \E u \in Subjects, g \in SUBSET Groups : SetClaims(u, g)
             \/ \E s \in Logins, u \in Subjects : AuthenticateAt(s, u)
             \/ \E c \in codes : ExpireCode(c)
             \/ \E s \in Logins : Login(s) \/ ExpireLogin(s)
             \/ \E q \in Requests :
                  \/ \E s \in Logins, c \in codes : Callback(q, s, c)
                  \/ \E u \in Subjects : DevicePoll(q, u)
                  \/ Exchange(q) \/ Upsert(q) \/ Select(q)
                  \/ \E v \in Tokens : Present(q, v)
                  \/ Touch(q) \/ CutOff(q) \/ Answered(q)
             \/ ProcessRestart \/ UNCHANGED loginVars
    BY <1>1 DEF SetClaims, AuthenticateAt, ExpireCode, Login, ExpireLogin, Callback, DevicePoll,
                Exchange, Upsert, Select, Present, Touch, CutOff, Answered, ProcessRestart,
                loginVars, tables
  <1>2. ASSUME NEW v \in Tokens, ExpireSession(v) \/ Logout(v)
        PROVE  /\ UNCHANGED <<issued, states>> /\ \A s \in Logins : Passed(s)' = Passed(s)
               /\ \/ sessions' = [sessions EXCEPT ![v] = None]
                  \/ sessions[v] # None /\ sessions' = [sessions EXCEPT ![v].expired = TRUE]
    BY <1>2 DEF ExpireSession, Logout, Passed
  <1>3. ASSUME NEW q \in Requests, DropExpired(q)
        PROVE  /\ req[q].token \in Tokens /\ sessions' = [sessions EXCEPT ![req[q].token] = None]
               /\ UNCHANGED <<issued, states>> /\ \A s \in Logins : Passed(s)' = Passed(s)
    <2>1. req[q].token \in Tokens /\ req[q].login = None
      BY <1>3 DEF DropExpired, At, LoginInv, StepInv, KnownAt
    <2>2. \A p \in Requests : req'[p] = IF p = q THEN None ELSE req[p]
      BY <1>3 DEF DropExpired, End, LoginInv, LoginTypeOK
    <2>3. \A s \in Logins : Passed(s)' = Passed(s)
      BY <2>1, <2>2, LoginAssumption DEF Passed
    <2>4. QED
      BY <1>3, <2>1, <2>3 DEF DropExpired
  <1>4. QED
    BY <1>1, <1>2, <1>3 DEF LoginNext, LoginStep, Environment, LogIn, Admit

(* The same for one token. *)
LEMMA TokenSteps ==
  ASSUME LoginInv, [LoginNext]_loginVars, NEW t \in Tokens
  PROVE  \/ UNCHANGED <<issued[t], sessions[t]>>
         \/ UNCHANGED issued[t] /\ sessions'[t] = None
         \/ /\ UNCHANGED issued[t] /\ sessions[t] # None
            /\ sessions'[t] = [sessions[t] EXCEPT !.expired = TRUE]
         \/ /\ issued[t] = None
            /\ \E q \in Requests :
                 /\ req[q] # None /\ req[q].user = req[q].subject
                 /\ issued'[t] = [login |-> req[q].login, subject |-> req[q].subject]
                 /\ sessions'[t] = [user |-> req[q].user, expired |-> FALSE]
  <1>1. LoginTypeOK
    BY DEF LoginInv
  <1>2. CASE UNCHANGED <<issued, sessions>>
    BY <1>2
  <1>3. ASSUME NEW v \in Tokens, UNCHANGED issued, sessions' = [sessions EXCEPT ![v] = None]
        PROVE  UNCHANGED issued[t] /\ (UNCHANGED sessions[t] \/ sessions'[t] = None)
    BY <1>1, <1>3 DEF LoginTypeOK
  <1>4. ASSUME NEW v \in Tokens, UNCHANGED issued, sessions[v] # None,
               sessions' = [sessions EXCEPT ![v].expired = TRUE]
        PROVE  \/ UNCHANGED <<issued[t], sessions[t]>>
               \/ /\ UNCHANGED issued[t] /\ sessions[t] # None
                  /\ sessions'[t] = [sessions[t] EXCEPT !.expired = TRUE]
    BY <1>1, <1>4 DEF LoginTypeOK
  <1>5. ASSUME NEW q \in Requests, NEW v \in Tokens, Issue(q, v)
        PROVE  \/ UNCHANGED <<issued[t], sessions[t]>>
               \/ /\ issued[t] = None
                  /\ req[q] # None /\ req[q].user = req[q].subject
                  /\ issued'[t] = [login |-> req[q].login, subject |-> req[q].subject]
                  /\ sessions'[t] = [user |-> req[q].user, expired |-> FALSE]
    <2>1. /\ req[q] # None /\ issued[v] = None
          /\ issued' = [issued EXCEPT ![v] = [login |-> req[q].login, subject |-> req[q].subject]]
          /\ sessions' = [sessions EXCEPT ![v] = [user |-> req[q].user, expired |-> FALSE]]
      BY <1>5, IssueEnds
    <2>2. req[q].user = req[q].subject
      BY <1>5 DEF Issue, At, LoginInv, StepInv, KnownAt
    <2>3. QED
      BY <1>1, <2>1, <2>2 DEF LoginTypeOK
  <1>6. QED
    BY <1>2, <1>3, <1>4, <1>5, SessionSteps

LEMMA NextSubject == LoginInv /\ SessionOfSubject /\ [LoginNext]_loginVars => SessionOfSubject'
  <1> SUFFICES ASSUME LoginInv, SessionOfSubject, [LoginNext]_loginVars, NEW t \in Tokens,
                      sessions'[t] # None
               PROVE  sessions'[t].user = issued'[t].subject
    BY DEF SessionOfSubject
  <1>1. CASE UNCHANGED <<issued[t], sessions[t]>>
    BY <1>1 DEF SessionOfSubject
  <1>2. CASE /\ UNCHANGED issued[t] /\ sessions[t] # None
             /\ sessions'[t] = [sessions[t] EXCEPT !.expired = TRUE]
    <2>1. sessions[t] \in Session
      BY <1>2 DEF LoginInv, LoginTypeOK
    <2>2. sessions'[t].user = sessions[t].user
      BY <1>2, <2>1 DEF Session
    <2>3. QED
      BY <1>2, <2>2 DEF SessionOfSubject
  <1>3. ASSUME NEW q \in Requests, req[q].user = req[q].subject,
               issued'[t] = [login |-> req[q].login, subject |-> req[q].subject],
               sessions'[t] = [user |-> req[q].user, expired |-> FALSE]
        PROVE  sessions'[t].user = issued'[t].subject
    BY <1>3
  <1>4. QED
    BY <1>1, <1>2, <1>3, TokenSteps

(* A session is that of the subject who authenticated for it. *)
THEOREM SessionsOfTheirSubjects == LoginSpec => []SessionOfSubject
  <1>1. LoginInit => SessionOfSubject
    BY DEF LoginInit, SessionOfSubject
  <1>2. QED
    BY <1>1, InitLogin, NextLogin, NextSubject, PTL DEF LoginSpec

(* A token that was logged out, or whose time is up, stays so: no request brings
   its session back. *)
THEOREM OverIsOver == LoginSpec => OverStaysOver
  <1>1. ASSUME LoginInv, [LoginNext]_loginVars, NEW t \in Tokens, Over(t) PROVE Over(t)'
    <2>1. issued[t] # None /\ (sessions[t] = None \/ sessions[t].expired)
      BY <1>1 DEF Over
    <2>2. UNCHANGED issued[t] /\ (sessions'[t] = None \/ sessions'[t].expired)
      <3>1. CASE UNCHANGED <<issued[t], sessions[t]>>
        BY <2>1, <3>1
      <3>2. CASE UNCHANGED issued[t] /\ sessions'[t] = None
        BY <3>2
      <3>3. CASE /\ UNCHANGED issued[t] /\ sessions[t] # None
                 /\ sessions'[t] = [sessions[t] EXCEPT !.expired = TRUE]
        <4>1. sessions[t] \in Session
          BY <1>1, <3>3 DEF LoginInv, LoginTypeOK
        <4>2. sessions'[t].expired
          BY <3>3, <4>1 DEF Session
        <4>3. QED
          BY <3>3, <4>2
      <3>4. QED
        BY <1>1, <2>1, <3>1, <3>2, <3>3, TokenSteps
    <2>3. QED
      BY <2>1, <2>2 DEF Over
  <1>2. LoginInv /\ [LoginNext]_loginVars => [\A t \in Tokens : Over(t) => Over(t)']_loginVars
    BY <1>1
  <1>3. QED
    BY <1>2, InitLogin, NextLogin, PTL DEF LoginSpec, OverStaysOver

(* Tables, handlers and provider implement the book of sessions: a callback that
   finds its login, a statement that fails and a restart let logins lapse, what
   expires or is deleted ends its session, and the last statement of a login opens
   one. *)
THEOREM LoginsKeepBook == LoginSpec => KeepsBook
  <1> DEFINE EntryOf(t) == IF issued[t] = None THEN None
                         ELSE [login |-> issued[t].login,
                               holder |-> IF Over(t) THEN None ELSE sessions[t].user]
             Entries == [t \in Tokens |-> EntryOf(t)]
  <1>1. LoginInit => Book!Init
    BY DEF LoginInit, Book!Init, Left
  <1>2. ASSUME LoginInv, OnceInv, [LoginNext]_loginVars PROVE [Book!Next]_(Book!vars)
    <2>1. LoginTypeOK
      BY <1>2 DEF LoginInv
    <2>2. ASSUME UNCHANGED <<issued, sessions>>, Left' \subseteq Left PROVE Book!Next
      BY <2>2 DEF Book!Next, Book!Lapse, Over
    <2>3. CASE UNCHANGED <<issued, sessions>> /\ Calm
      <3>1. Left' \subseteq Left
        BY <2>3 DEF Calm, Left
      <3>2. QED
        BY <2>2, <2>3, <3>1
    <2>4. ASSUME NEW q \in Requests, NEW s \in Logins, NEW c \in codes, Callback(q, s, c), states[s] = "open"
          PROVE  Book!Next
      <3>1. Left' \subseteq Left
        BY <1>2, <2>4, CallbackPasses DEF Left
      <3>2. QED
        BY <1>2, <2>2, <2>4, <3>1, CallbackPasses
    <2>5. ASSUME NEW q \in Requests, NEW t \in Tokens, Issue(q, t) PROVE Book!Next
      <3> PICK l \in Logins \cup {None}, u \in Subjects, v \in Subjects :
                 l = req[q].login /\ u = req[q].user /\ v = req[q].subject
        BY <1>2, <2>5, IssueEnds
      <3>1. /\ UNCHANGED states /\ issued[t] = None /\ req[q] # None
            /\ issued' = [issued EXCEPT ![t] = [login |-> l, subject |-> v]]
            /\ sessions' = [sessions EXCEPT ![t] = [user |-> u, expired |-> FALSE]]
            /\ \A s \in Logins : Passed(s)' = Passed(s) \ {q}
        BY <1>2, <2>5, IssueEnds
      <3>2. \A s \in Logins : q \in Passed(s) <=> s = l
        BY <3>1 DEF Passed
      <3>3. \A s \in Logins : s = l => s \in Left /\ s \notin Left'
        BY <1>2, <3>1, <3>2 DEF OnceInv, Left
      <3>4. \A s \in Logins : s # l => (s \in Left' <=> s \in Left)
        BY <3>1, <3>2 DEF Left
      <3>5. Left' = Left \ {l} /\ (l = None \/ l \in Left)
        BY <3>1, <3>3, <3>4 DEF Left
      <3>6. EntryOf(t) = None /\ EntryOf(t)' = [login |-> l, holder |-> u]
        <4>1. /\ issued'[t] = [login |-> l, subject |-> v]
              /\ sessions'[t] = [user |-> u, expired |-> FALSE]
          BY <2>1, <3>1 DEF LoginTypeOK
        <4>2. issued'[t] # None /\ sessions'[t] # None
          <5>1. [login |-> l, subject |-> v] \in Issued /\ [user |-> u, expired |-> FALSE] \in Session
            BY DEF Session, Issued
          <5>2. QED
            BY <4>1, <5>1, RowAssumption
        <4>3. QED
          BY <3>1, <4>1, <4>2 DEF Over
      <3>7. \A w \in Tokens : w # t => EntryOf(w)' = EntryOf(w)
        BY <2>1, <3>1 DEF Over, LoginTypeOK
      <3>8. Entries' = [Entries EXCEPT ![t] = [login |-> l, holder |-> u]]
        <4> HIDE DEF EntryOf
        <4>1. QED
          BY <3>6, <3>7
      <3>9. Book!Open(t, l, u)
        BY <3>5, <3>6, <3>8 DEF Book!Open
      <3>10. QED
        BY <3>9 DEF Book!Next
    <2>6. ASSUME NEW v \in Tokens, UNCHANGED <<issued, states>>,
                 \A s \in Logins : Passed(s)' = Passed(s),
                 \/ sessions' = [sessions EXCEPT ![v] = None]
                 \/ sessions[v] # None /\ sessions' = [sessions EXCEPT ![v].expired = TRUE]
          PROVE  [Book!Next]_(Book!vars)
      <3>1. UNCHANGED Left
        BY <2>6 DEF Left
      <3>2. \A t \in Tokens : t # v => EntryOf(t)' = EntryOf(t)
        BY <2>1, <2>6 DEF Over, LoginTypeOK
      <3>3. sessions'[v] = None \/ sessions'[v].expired
        BY <2>1, <2>6 DEF LoginTypeOK, Session
      <3>4. CASE EntryOf(v)' = EntryOf(v)
        BY <3>1, <3>2, <3>4 DEF Book!vars
      <3>5. CASE EntryOf(v)' # EntryOf(v)
        <4>1. issued[v] # None /\ ~Over(v)
          BY <2>6, <3>3, <3>5 DEF Over
        <4>2. EntryOf(v) # None /\ EntryOf(v).holder # None
          <5>1. sessions[v] \in Session /\ EntryOf(v) = [login |-> issued[v].login, holder |-> sessions[v].user]
            BY <2>1, <4>1 DEF Over, LoginTypeOK
          <5>2. issued[v].login \in Logins \cup {None} /\ sessions[v].user \in Subjects
            BY <2>1, <4>1, <5>1 DEF Session, LoginTypeOK, Issued
          <5>3. EntryOf(v) \in Entry /\ EntryOf(v).holder = sessions[v].user
            BY <5>1, <5>2 DEF Entry
          <5> HIDE DEF EntryOf
          <5>4. QED
            BY <5>2, <5>3, LoginAssumption, RowAssumption
        <4>3. EntryOf(v)' = [EntryOf(v) EXCEPT !.holder = None]
          BY <2>6, <3>3, <4>1 DEF Over
        <4>4. Entries' = [Entries EXCEPT ![v].holder = None]
          <5> HIDE DEF EntryOf
          <5>1. QED
            BY <3>2, <4>3
        <4>5. Book!End(v)
          BY <3>1, <4>2, <4>4 DEF Book!End
        <4>6. QED
          BY <4>5 DEF Book!Next
      <3>6. QED
        BY <3>4, <3>5
    <2>7. QED
      BY <1>2, <2>3, <2>4, <2>5, <2>6, LoginSteps, SessionSteps
  <1>3. QED
    BY <1>1, <1>2, InitLogin, NextLogin, InitOnce, NextOnce, PTL DEF LoginSpec, KeepsBook, Book!Spec

-----------------------------------------------------------------------------
(* Roles.                                                                  *)

(* What a step may do to the row of a subject: the step of a handler that has
   the subject's claims writes their role. *)
LEMMA RowSteps ==
  ASSUME LoginInv, [LoginNext]_loginVars, NEW u \in Subjects
  PROVE  \/ UNCHANGED users[u]
         \/ \E q \in Requests : At(q, "upsert") /\ req[q].subject = u /\ users'[u] = req[q].role
  <1>1. LoginTypeOK /\ StepInv
    BY DEF LoginInv
  <1>2. CASE UNCHANGED users
    BY <1>2
  <1>3. ASSUME NEW q \in Requests, Upsert(q)
        PROVE  \/ UNCHANGED users[u]
               \/ At(q, "upsert") /\ req[q].subject = u /\ users'[u] = req[q].role
    <2>1. At(q, "upsert") /\ users' = [users EXCEPT ![req[q].subject] = req[q].role]
      BY <1>3 DEF Upsert
    <2>2. QED
      BY <1>1, <2>1 DEF LoginTypeOK
  <1>4. CASE Environment
    BY <1>2, <1>4 DEF Environment, SetClaims, AuthenticateAt, ExpireCode, Login, ExpireLogin,
                      ExpireSession, Logout, tables
  <1>5. CASE \E q \in Requests :
               \/ \E s \in Logins, c \in codes : Callback(q, s, c)
               \/ \E v \in Subjects : DevicePoll(q, v)
               \/ Exchange(q) \/ Select(q) \/ (\E t \in Tokens : Issue(q, t) \/ Present(q, t))
               \/ DropExpired(q) \/ Touch(q) \/ CutOff(q) \/ Answered(q)
    BY <1>2, <1>5 DEF Callback, DevicePoll, Exchange, Select, Issue, Present, DropExpired, Touch,
                      CutOff, Answered, tables
  <1>6. CASE ProcessRestart \/ UNCHANGED loginVars
    BY <1>2, <1>6 DEF ProcessRestart, loginVars, tables
  <1>7. QED
    BY <1>3, <1>4, <1>5, <1>6 DEF LoginNext, LoginStep, LogIn, Admit

(* What a step may do to a handler with claims to store: it begins so with the
   role of claims seen now, and those seen are counted as granted. *)
LEMMA ClaimSteps ==
  ASSUME LoginInv, [LoginNext]_loginVars, NEW q \in Requests, At(q, "upsert")'
  PROVE  \/ UNCHANGED req[q]
         \/ \E u \in Subjects, g \in SUBSET Groups :
              /\ g \subseteq claims[u] /\ req'[q].subject = u /\ req'[q].role = UserRole(u, g)
              /\ UserRole(u, g) = "admin" => u \in granted'
  <1>1. LoginTypeOK /\ StepInv
    BY DEF LoginInv
  <1>2. req'[q] # None /\ req'[q].step = "upsert"
    BY DEF At
  <1>3. CASE UNCHANGED req
    BY <1>3
  <1>4. ASSUME NEW p \in Requests, NEW h, req' = [req EXCEPT ![p] = h], h = None \/ h.step # "upsert"
        PROVE  UNCHANGED req[q]
    <2>1. req'[q] = IF p = q THEN h ELSE req[q]
      BY <1>1, <1>4 DEF LoginTypeOK
    <2>2. QED
      BY <1>2, <1>4, <2>1
  <1>5. ASSUME NEW p \in Requests, NEW h \in Handler, NEW u \in Subjects, Authenticated(p, h, u)
        PROVE  \/ UNCHANGED req[q]
               \/ \E g \in SUBSET Groups :
                    /\ g \subseteq claims[u] /\ req'[q].subject = u /\ req'[q].role = UserRole(u, g)
                    /\ UserRole(u, g) = "admin" => u \in granted'
    <2> DEFINE k(g) == [h EXCEPT !.step = "upsert", !.code = None, !.subject = u, !.role = UserRole(u, g)]
    <2>1. PICK g \in SeenGroups(u) : /\ req' = [req EXCEPT ![p] = k(g)]
                                     /\ UserRole(u, g) = "admin" => u \in granted'
      BY <1>5 DEF Authenticated
    <2>2. k(g).subject = u /\ k(g).role = UserRole(u, g)
      BY <1>5 DEF Handler
    <2>3. g \in SUBSET Groups /\ g \subseteq claims[u]
      BY <1>1 DEF SeenGroups, LoginTypeOK
    <2> HIDE DEF k
    <2>4. req'[q] = IF p = q THEN k(g) ELSE req[q]
      BY <1>1, <2>1 DEF LoginTypeOK
    <2>5. QED
      BY <2>1, <2>2, <2>3, <2>4
  <1>6. ASSUME NEW p \in Requests, End(p) PROVE UNCHANGED req[q]
    BY <1>4, <1>6 DEF End
  <1>7. ASSUME NEW p \in Requests, NEW u \in Subjects, DevicePoll(p, u)
        PROVE  \/ UNCHANGED req[q]
               \/ \E g \in SUBSET Groups :
                    /\ g \subseteq claims[u] /\ req'[q].subject = u /\ req'[q].role = UserRole(u, g)
                    /\ UserRole(u, g) = "admin" => u \in granted'
    <2>1. Fresh \in Handler
      BY DEF Fresh, Handler
    <2>2. QED
      BY <1>5, <1>7, <2>1 DEF DevicePoll
  <1>8. ASSUME NEW p \in Requests, Exchange(p)
        PROVE  \/ UNCHANGED req[q]
               \/ \E u \in Subjects, g \in SUBSET Groups :
                    /\ g \subseteq claims[u] /\ req'[q].subject = u /\ req'[q].role = UserRole(u, g)
                    /\ UserRole(u, g) = "admin" => u \in granted'
    <2>1. req[p] \in Handler /\ req[p].code.subject \in Subjects
      BY <1>1, <1>8 DEF Exchange, At, StepInv, KnownAt, LoginTypeOK, Code
    <2>2. QED
      BY <1>5, <1>6, <1>8, <2>1 DEF Exchange
  <1>9. ASSUME NEW p \in Requests, NEW s \in Logins, NEW c \in codes, Callback(p, s, c)
        PROVE  UNCHANGED req[q]
    <2>1. [Fresh EXCEPT !.step = "exchange", !.login = s, !.code = c].step # "upsert"
      BY DEF Fresh
    <2>2. QED
      BY <1>3, <1>4, <1>9, <2>1 DEF Callback, Consumed, Begin
  <1>10. ASSUME NEW p \in Requests, NEW t \in Tokens, Present(p, t) PROVE UNCHANGED req[q]
    <2> DEFINE drop == [Fresh EXCEPT !.step = "drop", !.token = t]
               touch == [Fresh EXCEPT !.step = "touch", !.token = t, !.user = sessions[t].user,
                                      !.role = users[sessions[t].user]]
    <2>1. drop.step # "upsert" /\ touch.step # "upsert"
      BY DEF Fresh
    <2>2. req' = [req EXCEPT ![p] = drop] \/ req' = [req EXCEPT ![p] = touch]
      BY <1>10 DEF Present, Begin
    <2> HIDE DEF drop, touch
    <2>3. QED
      BY <1>4, <2>1, <2>2
  <1>11. ASSUME NEW p \in Requests, Upsert(p) \/ Select(p) \/ Touch(p) PROVE UNCHANGED req[q]
    <2>1. req[p] \in Handler
      BY <1>1, <1>11 DEF Upsert, Select, Touch, At, LoginTypeOK
    <2>2. /\ [req[p] EXCEPT !.step = "select"].step # "upsert"
          /\ [req[p] EXCEPT !.step = "act"].step # "upsert"
          /\ [req[p] EXCEPT !.step = "issue", !.role = None, !.user = req[p].subject].step # "upsert"
      BY <2>1 DEF Handler
    <2>3. \/ End(p)
          \/ req' = [req EXCEPT ![p] = [req[p] EXCEPT !.step = "select"]]
          \/ req' = [req EXCEPT ![p] = [req[p] EXCEPT !.step = "act"]]
          \/ req' = [req EXCEPT ![p] = [req[p] EXCEPT !.step = "issue", !.role = None,
                                                      !.user = req[p].subject]]
      BY <1>11 DEF Upsert, Select, Touch, Goto
    <2>4. QED
      BY <1>4, <1>6, <2>2, <2>3
  <1>12. ASSUME NEW p \in Requests,
                (\E t \in Tokens : Issue(p, t)) \/ DropExpired(p) \/ CutOff(p) \/ Answered(p)
         PROVE  UNCHANGED req[q]
    BY <1>6, <1>12 DEF Issue, DropExpired, CutOff, Answered
  <1>13. CASE Environment \/ UNCHANGED loginVars
    BY <1>3, <1>13 DEF Environment, SetClaims, AuthenticateAt, ExpireCode, Login, ExpireLogin,
                       ExpireSession, Logout, loginVars
  <1>14. CASE ProcessRestart
    BY <1>2, <1>14 DEF ProcessRestart
  <1>15. QED
    BY <1>7, <1>8, <1>9, <1>10, <1>11, <1>12, <1>13, <1>14 DEF LoginNext, LoginStep, LogIn, Admit

(* A demotion is final once the logins that saw the old claims are over. *)
THEOREM DemotionsSettle == LoginSpec => DemotionSettles
  <1>1. ASSUME LoginInv, [LoginNext]_loginVars, NEW u \in Subjects, Demoted(u), Revoked(u)'
        PROVE  Demoted(u)'
    <2>1. Revoked(u) /\ users[u] # "admin"
          /\ \A q \in Requests : At(q, "upsert") /\ req[q].subject = u => req[q].role = "member"
      BY <1>1 DEF Demoted
    <2>2. users'[u] # "admin"
      BY <1>1, <2>1, RowSteps
    <2>3. ASSUME NEW q \in Requests, At(q, "upsert")', req'[q].subject = u
          PROVE  req'[q].role = "member"
      <3>1. CASE UNCHANGED req[q]
        BY <2>1, <2>3, <3>1 DEF At
      <3>2. ASSUME NEW g \in SUBSET Groups, g \subseteq claims[u], req'[q].role = UserRole(u, g)
            PROVE  req'[q].role = "member"
        BY <2>1, <3>2 DEF Revoked, UserRole
      <3>3. QED
        BY <1>1, <2>3, <3>1, <3>2, ClaimSteps
    <2>4. QED
      BY <1>1, <2>2, <2>3 DEF Demoted
  <1>2. LoginInv /\ [LoginNext]_loginVars
          => [\A u \in Subjects : Demoted(u) => Demoted(u)' \/ ~Revoked(u)']_loginVars
    BY <1>1
  <1>3. QED
    BY <1>2, InitLogin, NextLogin, PTL DEF LoginSpec, DemotionSettles

-----------------------------------------------------------------------------
(* Administrators.                                                         *)

(* A handler that has passed for an administrator has one's claims or token. *)
GrantedAt(h, tokens, admins) ==
    /\ h.step = "upsert" /\ h.role = "admin" => h.subject \in admins
    /\ h.step = "touch" => /\ tokens[h.token] # None /\ tokens[h.token].subject = h.user
                           /\ h.role = "admin" => h.user \in admins
    /\ h.step = "act" => tokens[h.token] # None /\ tokens[h.token].subject \in admins

GrantInv ==
    /\ \A u \in Subjects : users[u] = "admin" => u \in granted
    /\ \A q \in Requests : req[q] # None => GrantedAt(req[q], issued, granted)

LEMMA InitGrant == LoginInit => GrantInv
  BY LoginAssumption DEF LoginInit, GrantInv

(* Nothing granted is taken back in the history, and no token changes hands. *)
LEMMA HistoryGrows ==
  ASSUME LoginInv, [LoginNext]_loginVars
  PROVE  /\ granted \subseteq granted'
         /\ \A t \in Tokens : issued[t] # None => issued'[t] = issued[t]
  <1>1. \A t \in Tokens : issued[t] # None => issued'[t] = issued[t]
    BY TokenSteps
  <1>2. CASE Environment \/ ProcessRestart \/ UNCHANGED loginVars
    BY <1>1, <1>2 DEF Environment, SetClaims, AuthenticateAt, ExpireCode, Login, ExpireLogin,
                      ExpireSession, Logout, ProcessRestart, loginVars
  <1>3. ASSUME NEW q \in Requests, LogIn(q) PROVE granted \subseteq granted'
    BY <1>3 DEF LogIn, Callback, DevicePoll, Exchange, Authenticated, Upsert, Select, Issue
  <1>4. ASSUME NEW q \in Requests, Admit(q) \/ CutOff(q) \/ Answered(q) PROVE granted \subseteq granted'
    BY <1>4 DEF Admit, Present, DropExpired, Touch, CutOff, Answered
  <1>5. QED
    BY <1>1, <1>2, <1>3, <1>4 DEF LoginNext, LoginStep

LEMMA NextGrant ==
  LoginInv /\ SessionOfSubject /\ GrantInv /\ [LoginNext]_loginVars => GrantInv'
  <1> SUFFICES ASSUME LoginInv, SessionOfSubject, GrantInv, [LoginNext]_loginVars PROVE GrantInv'
    OBVIOUS
  <1>1. LoginTypeOK /\ StepInv
    BY DEF LoginInv
  <1>2. /\ granted \subseteq granted'
        /\ \A t \in Tokens : issued[t] # None => issued'[t] = issued[t]
    BY HistoryGrows
  <1>3. ASSUME NEW u \in Subjects, users'[u] = "admin" PROVE u \in granted'
    BY <1>2, <1>3, RowSteps DEF GrantInv, GrantedAt, At
  <1>4. ASSUME NEW q \in Requests, req'[q] # None PROVE GrantedAt(req'[q], issued', granted')
    <2>1. ASSUME UNCHANGED req[q] PROVE GrantedAt(req'[q], issued', granted')
      BY <1>1, <1>2, <1>4, <2>1 DEF GrantInv, GrantedAt, StepInv, KnownAt
    <2>2. ASSUME At(q, "upsert")' PROVE GrantedAt(req'[q], issued', granted')
      <3>1. ASSUME NEW u \in Subjects, NEW g \in SUBSET Groups, req'[q].subject = u,
                   req'[q].role = UserRole(u, g), UserRole(u, g) = "admin" => u \in granted'
            PROVE  GrantedAt(req'[q], issued', granted')
        BY <2>2, <3>1 DEF GrantedAt, At
      <3>2. QED
        BY <2>1, <2>2, <3>1, ClaimSteps
    <2>3. ASSUME req'[q].step \notin {"upsert", "touch", "act"}
          PROVE  GrantedAt(req'[q], issued', granted')
      BY <2>3 DEF GrantedAt
    <2>4. ASSUME NEW p \in Requests, NEW h, req' = [req EXCEPT ![p] = h],
                 h.step \notin {"upsert", "touch", "act"}
          PROVE  GrantedAt(req'[q], issued', granted')
      <3>1. req'[q] = IF p = q THEN h ELSE req[q]
        BY <1>1, <2>4 DEF LoginTypeOK
      <3>2. QED
        BY <2>1, <2>3, <2>4, <3>1
    <2>5. ASSUME NEW p \in Requests, End(p) PROVE GrantedAt(req'[q], issued', granted')
      <3>1. req'[q] = IF p = q THEN None ELSE req[q]
        BY <1>1, <2>5 DEF LoginTypeOK, End
      <3>2. QED
        BY <1>4, <2>1, <3>1
    <2>6. ASSUME NEW p \in Requests, NEW h \in Handler, NEW u \in Subjects, Authenticated(p, h, u)
          PROVE  GrantedAt(req'[q], issued', granted')
      <3> DEFINE k(g) == [h EXCEPT !.step = "upsert", !.code = None, !.subject = u,
                                   !.role = UserRole(u, g)]
      <3>1. PICK g \in SeenGroups(u) : req' = [req EXCEPT ![p] = k(g)]
        BY <2>6 DEF Authenticated
      <3>2. k(g).step = "upsert"
        BY <2>6 DEF Handler
      <3> HIDE DEF k
      <3>3. req'[q] = IF p = q THEN k(g) ELSE req[q]
        BY <1>1, <3>1 DEF LoginTypeOK
      <3>4. QED
        BY <1>4, <2>1, <2>2, <3>2, <3>3 DEF At
    <2>7. ASSUME NEW p \in Requests, NEW s \in Logins, NEW c \in codes, Callback(p, s, c)
          PROVE  GrantedAt(req'[q], issued', granted')
      <3>1. [Fresh EXCEPT !.step = "exchange", !.login = s, !.code = c].step = "exchange"
        BY DEF Fresh
      <3>2. QED
        BY <2>1, <2>4, <2>7, <3>1 DEF Callback, Consumed, Begin
    <2>8. ASSUME NEW p \in Requests, NEW u \in Subjects, DevicePoll(p, u)
          PROVE  GrantedAt(req'[q], issued', granted')
      <3>1. Fresh \in Handler
        BY DEF Fresh, Handler
      <3>2. QED
        BY <2>6, <2>8, <3>1 DEF DevicePoll
    <2>9. ASSUME NEW p \in Requests, Exchange(p) PROVE GrantedAt(req'[q], issued', granted')
      <3>1. req[p] \in Handler /\ req[p].code.subject \in Subjects
        BY <1>1, <2>9 DEF Exchange, At, StepInv, KnownAt, LoginTypeOK, Code
      <3>2. QED
        BY <2>5, <2>6, <2>9, <3>1 DEF Exchange
    <2>10. ASSUME NEW p \in Requests, Upsert(p) \/ Select(p) PROVE GrantedAt(req'[q], issued', granted')
      <3>1. req[p] \in Handler
        BY <1>1, <2>10 DEF Upsert, Select, At, LoginTypeOK
      <3>2. /\ [req[p] EXCEPT !.step = "select"].step = "select"
            /\ [req[p] EXCEPT !.step = "issue", !.role = None, !.user = req[p].subject].step = "issue"
        BY <3>1 DEF Handler
      <3>3. \/ req' = [req EXCEPT ![p] = [req[p] EXCEPT !.step = "select"]]
            \/ req' = [req EXCEPT ![p] = [req[p] EXCEPT !.step = "issue", !.role = None,
                                                        !.user = req[p].subject]]
        BY <2>10 DEF Upsert, Select, Goto
      <3>4. QED
        BY <2>4, <3>2, <3>3
    <2>11. ASSUME NEW p \in Requests, NEW t \in Tokens, Present(p, t)
           PROVE  GrantedAt(req'[q], issued', granted')
      <3> DEFINE drop == [Fresh EXCEPT !.step = "drop", !.token = t]
                 touch == [Fresh EXCEPT !.step = "touch", !.token = t, !.user = sessions[t].user,
                                        !.role = users[sessions[t].user]]
      <3>1. /\ issued[t] # None /\ UNCHANGED <<issued, granted>>
            /\ sessions[t] # None /\ sessions[t] \in Session
        BY <1>1, <2>11 DEF Present, LoginTypeOK
      <3>2. sessions[t].user \in Subjects /\ sessions[t].user = issued[t].subject
        BY <3>1 DEF Session, SessionOfSubject
      <3>3. users[sessions[t].user] = "admin" => sessions[t].user \in granted
        BY <3>2 DEF GrantInv
      <3>4. drop.step = "drop"
        BY DEF Fresh
      <3>5. touch.step = "touch" /\ touch.token = t /\ touch.user = sessions[t].user
            /\ touch.role = users[sessions[t].user]
        BY DEF Fresh
      <3>6. req' = [req EXCEPT ![p] = drop] \/ req' = [req EXCEPT ![p] = touch]
        BY <2>11 DEF Present, Begin
      <3> HIDE DEF drop, touch
      <3>7. GrantedAt(touch, issued, granted)
        BY <3>1, <3>2, <3>3, <3>5 DEF GrantedAt
      <3>8. CASE req' = [req EXCEPT ![p] = drop]
        BY <2>4, <3>4, <3>8
      <3>9. CASE req' = [req EXCEPT ![p] = touch]
        <4>1. req'[q] = IF p = q THEN touch ELSE req[q]
          BY <1>1, <3>9 DEF LoginTypeOK
        <4>2. QED
          BY <2>1, <3>1, <3>7, <4>1
      <3>10. QED
        BY <3>6, <3>8, <3>9
    <2>12. ASSUME NEW p \in Requests, Touch(p) PROVE GrantedAt(req'[q], issued', granted')
      <3> DEFINE h == [req[p] EXCEPT !.step = "act"]
      <3>1. /\ req[p] # None /\ req[p] \in Handler /\ req[p].step = "touch"
            /\ UNCHANGED <<issued, granted>> /\ GrantedAt(req[p], issued, granted)
        BY <1>1, <2>12 DEF Touch, At, LoginTypeOK, GrantInv
      <3>2. h.step = "act" /\ h.token = req[p].token
        BY <3>1 DEF Handler
      <3>3. End(p) \/ (req[p].role = "admin" /\ req' = [req EXCEPT ![p] = h])
        BY <2>12 DEF Touch, Goto
      <3> HIDE DEF h
      <3>4. ASSUME req[p].role = "admin", req' = [req EXCEPT ![p] = h]
            PROVE  GrantedAt(req'[q], issued', granted')
        <4>1. GrantedAt(h, issued, granted)
          BY <3>1, <3>2, <3>4 DEF GrantedAt
        <4>2. req'[q] = IF p = q THEN h ELSE req[q]
          BY <1>1, <3>4 DEF LoginTypeOK
        <4>3. QED
          BY <2>1, <3>1, <4>1, <4>2
      <3>5. QED
        BY <2>5, <3>3, <3>4
    <2>13. ASSUME NEW p \in Requests,
                  (\E t \in Tokens : Issue(p, t)) \/ DropExpired(p) \/ CutOff(p) \/ Answered(p)
           PROVE  GrantedAt(req'[q], issued', granted')
      BY <2>5, <2>13 DEF Issue, DropExpired, CutOff, Answered
    <2>14. CASE Environment \/ UNCHANGED loginVars
      BY <2>1, <2>14 DEF Environment, SetClaims, AuthenticateAt, ExpireCode, Login, ExpireLogin,
                         ExpireSession, Logout, loginVars
    <2>15. CASE ProcessRestart
      BY <1>4, <2>15 DEF ProcessRestart
    <2>16. QED
      BY <2>7, <2>8, <2>9, <2>10, <2>11, <2>12, <2>13, <2>14, <2>15
         DEF LoginNext, LoginStep, LogIn, Admit
  <1>5. QED
    BY <1>3, <1>4 DEF GrantInv

(* Whoever is past the admin gate presented a token issued to a subject whose
   claims had made an administrator of. *)
THEOREM AdminsWereGranted ==
    LoginSpec => [](\A q \in Requests : At(q, "act") => issued[req[q].token].subject \in granted)
  <1>1. LoginInit => LoginInv /\ SessionOfSubject /\ GrantInv
    BY InitLogin, InitGrant DEF LoginInit, SessionOfSubject
  <1>2. LoginInv /\ SessionOfSubject /\ GrantInv /\ [LoginNext]_loginVars
          => (LoginInv /\ SessionOfSubject /\ GrantInv)'
    BY NextLogin, NextSubject, NextGrant
  <1>3. GrantInv => \A q \in Requests : At(q, "act") => issued[req[q].token].subject \in granted
    BY DEF GrantInv, GrantedAt, At
  <1>4. QED
    BY <1>1, <1>2, <1>3, PTL DEF LoginSpec
=============================================================================
