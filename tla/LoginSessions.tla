--------------------------- MODULE LoginSessions ---------------------------
(***************************************************************************)
(* Logins, sessions and the admission of requests                          *)
(* (internal/server/session.go, auth_http.go, oidc.go and the tables users, *)
(* oidc_sessions and oidc_login_states of store.go).                        *)
(*                                                                         *)
(* A step is one SQL statement, one transaction, or one exchange with the   *)
(* OIDC provider; a request in progress may be cut off before any of them.  *)
(* What a subject's claims say can change at the provider at any time.      *)
(* Random values (login states, session tokens) are never drawn twice.      *)
(***************************************************************************)
EXTENDS Naturals, FiniteSets

CONSTANTS Subjects,      \* OIDC subjects
          Groups,        \* groups the provider may list in the claims
          AdminSubjects, \* subjects the configuration names, by subject or email
          AdminGroups,   \* OIDCAdminGroups
          Logins,        \* values of state a login may draw
          Tokens,        \* session tokens a login may draw
          Requests,      \* HTTP requests that may be in progress together
          None

ASSUME LoginAssumption ==
    /\ AdminSubjects \subseteq Subjects
    /\ AdminGroups \subseteq Groups
    /\ None \notin Subjects \cup Logins \cup Tokens \cup {"admin"}

VARIABLES claims,   \* the groups the provider would list for a subject now
          codes,    \* (provider) authorization codes issued and not redeemed
          states,   \* oidc_login_states: "unused", "open", "expired", or "deleted"
          users,    \* users.roles by subject, None when there is no row
          sessions, \* oidc_sessions by token, None when there is no row
          issued,   \* (history) what login a token was issued for, None before
          granted,  \* (history) subjects whose claims made them administrators
          req       \* the local variables of a request's handler

provider == <<claims, codes>>
tables == <<states, users, sessions>>
loginVars == <<provider, tables, issued, granted, req>>

Role == {"admin", "member"}

(* The code of a subject who authenticated at the URL of a login; the PKCE
   challenge in the URL ties it to the verifier stored for that login. *)
Code == [login : Logins, subject : Subjects]

Session == [user : Subjects, expired : BOOLEAN]

(* Whom a token was issued for; the entry of a token in the book of sessions. *)
Issued == [login : Logins \cup {None}, subject : Subjects]
Entry == [login : Logins \cup {None}, holder : Subjects \cup {None}]

ASSUME RowAssumption == None \notin Session \cup Issued \cup Entry

(* subject and role come from the claims; user is the row found for the
   subject, or the one of the session. *)
Handler == [step : {"exchange", "upsert", "select", "issue", "drop", "touch", "act"},
            login : Logins \cup {None}, code : Code \cup {None},
            subject : Subjects \cup {None}, role : Role \cup {None},
            user : Subjects \cup {None}, token : Tokens \cup {None}]

LoginInit ==
    /\ claims = [u \in Subjects |-> {}]
    /\ codes = {}
    /\ states = [s \in Logins |-> "unused"]
    /\ users = [u \in Subjects |-> None]
    /\ sessions = [t \in Tokens |-> None]
    /\ issued = [t \in Tokens |-> None]
    /\ granted = {}
    /\ req = [q \in Requests |-> None]

-----------------------------------------------------------------------------
(* The provider.                                                           *)

SetClaims(u, g) ==
    /\ claims' = [claims EXCEPT ![u] = g]
    /\ UNCHANGED <<codes, tables, issued, granted, req>>

(* Somebody opens the URL of a login and authenticates as u.  Once the state is
   used or has expired, a code for it is worth nothing, and there is none. *)
AuthenticateAt(s, u) ==
    /\ states[s] = "open"
    /\ codes' = codes \cup {[login |-> s, subject |-> u]}
    /\ UNCHANGED <<claims, tables, issued, granted, req>>

(* A code is good for a short time. *)
ExpireCode(c) ==
    /\ c \in codes
    /\ codes' = codes \ {c}
    /\ UNCHANGED <<claims, tables, issued, granted, req>>

-----------------------------------------------------------------------------
(* Time.                                                                   *)

(* The ten minutes of a login, the twelve hours of a session. *)
ExpireLogin(s) ==
    /\ states[s] = "open"
    /\ states' = [states EXCEPT ![s] = "expired"]
    /\ UNCHANGED <<provider, users, sessions, issued, granted, req>>

ExpireSession(t) ==
    /\ sessions[t] # None /\ ~sessions[t].expired
    /\ sessions' = [sessions EXCEPT ![t].expired = TRUE]
    /\ UNCHANGED <<provider, states, users, issued, granted, req>>

-----------------------------------------------------------------------------
(* A request's handler.                                                    *)

Fresh == [step |-> "upsert", login |-> None, code |-> None, subject |-> None,
          role |-> None, user |-> None, token |-> None]

Begin(q, h) == req[q] = None /\ req' = [req EXCEPT ![q] = h]
At(q, step) == req[q] # None /\ req[q].step = step
Goto(q, step) == req' = [req EXCEPT ![q].step = step]
End(q) == req' = [req EXCEPT ![q] = None]

(* GET /auth/login: one insert. *)
Login(s) ==
    /\ states[s] = "unused"
    /\ states' = [states EXCEPT ![s] = "open"]
    /\ UNCHANGED <<provider, users, sessions, issued, granted, req>>

(* The expiry not looked at. *)
ConsumedLate(q, s, c) ==
    IF states[s] \in {"open", "expired"}
    THEN Begin(q, [Fresh EXCEPT !.step = "exchange", !.login = s, !.code = c])
    ELSE UNCHANGED req

(* The callback starts with ConsumeLoginState, and carries a state and a code
   that need not belong together. *)
Consumed(q, s, c) ==
    IF states[s] = "open" THEN Begin(q, [Fresh EXCEPT !.step = "exchange", !.login = s, !.code = c])
                          ELSE UNCHANGED req

(* A state that is read and left in the table. *)
CallbackReads(q, s, c) ==
    /\ states[s] # "unused" /\ c \in codes /\ req[q] = None
    /\ Consumed(q, s, c)
    /\ UNCHANGED <<provider, tables, issued, granted>>

(* The state is read and deleted in one transaction, then its expiry is looked
   at. *)
Callback(q, s, c) ==
    /\ states[s] # "unused" /\ c \in codes /\ req[q] = None
    /\ states' = [states EXCEPT ![s] = "deleted"]
    /\ Consumed(q, s, c)
    /\ UNCHANGED <<provider, users, sessions, issued, granted>>

(* userRole. *)
UserRole(u, g) == IF u \in AdminSubjects \/ g \cap AdminGroups # {} THEN "admin" ELSE "member"

(* claimsFromToken: the groups are missing when the ID token has none and
   userinfo fails, which is no error once the subject is known. *)
SeenGroups(u) == {claims[u], {}}

(* The handler h goes on with the claims, and their role. *)
Authenticated(q, h, u) ==
    \E g \in SeenGroups(u) :
        /\ req' = [req EXCEPT ![q] = [h EXCEPT !.step = "upsert", !.code = None, !.subject = u,
                                               !.role = UserRole(u, g)]]
        /\ granted' = IF UserRole(u, g) = "admin" THEN granted \cup {u} ELSE granted

(* exchangeCode: the provider redeems a code once, and for the verifier whose
   challenge it was given. *)
Exchange(q) ==
    /\ At(q, "exchange")
    /\ IF req[q].code \in codes /\ req[q].code.login = req[q].login
       THEN codes' = codes \ {req[q].code} /\ Authenticated(q, req[q], req[q].code.subject)
       ELSE End(q) /\ UNCHANGED <<codes, granted>>
    /\ UNCHANGED <<claims, tables, issued>>

(* POST /auth/device/poll, once u has approved the device code; while it is
   pending the handler answers 202 and changes nothing. *)
DevicePoll(q, u) ==
    /\ req[q] = None
    /\ Authenticated(q, Fresh, u)
    /\ UNCHANGED <<provider, tables, issued>>

(* The first user to log in made administrator. *)
UpsertFirst(q) ==
    /\ At(q, "upsert")
    /\ users' = [users EXCEPT ![req[q].subject] =
                   IF \A u \in Subjects : users[u] # "admin" THEN "admin" ELSE req[q].role]
    /\ Goto(q, "select")
    /\ UNCHANGED <<provider, states, sessions, issued, granted>>

(* UpsertUserFromOIDC, its two statements: the role is that of the claims, also
   for a user there already is; then the row is read by its subject. *)
Upsert(q) ==
    /\ At(q, "upsert")
    /\ users' = [users EXCEPT ![req[q].subject] = req[q].role]
    /\ Goto(q, "select")
    /\ UNCHANGED <<provider, states, sessions, issued, granted>>

(* The row written last, whoever wrote it. *)
SelectAny(q) ==
    /\ At(q, "select")
    /\ \E u \in Subjects : /\ users[u] # None
                           /\ req' = [req EXCEPT ![q].step = "issue", ![q].role = None,
                                                 ![q].user = u]
    /\ UNCHANGED <<provider, tables, issued, granted>>

Select(q) ==
    /\ At(q, "select")
    /\ req' = [req EXCEPT ![q].step = "issue", ![q].role = None,
                                  ![q].user = req[q].subject]
    /\ UNCHANGED <<provider, tables, issued, granted>>

(* issueSession: a token is drawn, and its hash inserted. *)
Issue(q, t) ==
    /\ At(q, "issue") /\ issued[t] = None
    /\ sessions' = [sessions EXCEPT ![t] = [user |-> req[q].user, expired |-> FALSE]]
    /\ issued' = [issued EXCEPT ![t] = [login |-> req[q].login, subject |-> req[q].subject]]
    /\ End(q)
    /\ UNCHANGED <<provider, states, users, granted>>

(* handleOIDCLogout: one delete.  The handler ignores its error: a delete that
   fails is answered like one that did not, and leaves the session as it is. *)
Logout(t) ==
    /\ issued[t] # None
    /\ sessions' = [sessions EXCEPT ![t] = None]
    /\ UNCHANGED <<provider, states, users, issued, granted, req>>

-----------------------------------------------------------------------------
(* A request that presents a token: requestUser, and the gate for admins.   *)

(* The first statement of GetSessionByToken: the session with its user's row. *)
Present(q, t) ==
    /\ issued[t] # None /\ req[q] = None /\ sessions[t] # None
    /\ LET s == sessions[t]
       IN Begin(q, IF s.expired THEN [Fresh EXCEPT !.step = "drop", !.token = t]
                   ELSE [Fresh EXCEPT !.step = "touch", !.token = t, !.user = s.user,
                                      !.role = users[s.user]])
    /\ UNCHANGED <<provider, tables, issued, granted>>

(* An expired session is deleted, and the request refused. *)
DropExpired(q) ==
    /\ At(q, "drop")
    /\ sessions' = [sessions EXCEPT ![req[q].token] = None]
    /\ End(q)
    /\ UNCHANGED <<provider, states, users, issued, granted>>

(* INSERT OR REPLACE in place of the UPDATE. *)
TouchReplaces(q) ==
    /\ At(q, "touch")
    /\ sessions' = [sessions EXCEPT ![req[q].token] = [user |-> req[q].user, expired |-> FALSE]]
    /\ IF req[q].role = "admin" THEN Goto(q, "act") ELSE End(q)
    /\ UNCHANGED <<provider, states, users, issued, granted>>

(* A gate that lets every session pass. *)
TouchAdmitsAll(q) ==
    /\ At(q, "touch")
    /\ Goto(q, "act")
    /\ UNCHANGED <<provider, tables, issued, granted>>

(* last_seen_at, by the id of the session that was read, if the row is still
   there; then authorizeAdmin or requireAdmin looks at the role that was read. *)
Touch(q) ==
    /\ At(q, "touch")
    /\ IF req[q].role = "admin" THEN Goto(q, "act") ELSE End(q)
    /\ UNCHANGED <<provider, tables, issued, granted>>

-----------------------------------------------------------------------------

(* A statement or an exchange fails, or the client goes away.  An error of the
   touch is ignored, and the request's context ends nothing after the gate. *)
CutOff(q) ==
    /\ req[q] # None /\ req[q].step \notin {"touch", "act"}
    /\ End(q)
    /\ UNCHANGED <<provider, tables, issued, granted>>

LogIn(q) ==
    \/ \E s \in Logins, c \in codes : Callback(q, s, c)
    \/ \E u \in Subjects : DevicePoll(q, u)
    \/ Exchange(q) \/ Upsert(q) \/ Select(q) \/ \E t \in Tokens : Issue(q, t)

Admit(q) == (\E t \in Tokens : Present(q, t)) \/ DropExpired(q) \/ Touch(q)

Environment ==
    \/ \E u \in Subjects, g \in SUBSET Groups : SetClaims(u, g)
    \/ \E s \in Logins, u \in Subjects : AuthenticateAt(s, u)
    \/ \E c \in codes : ExpireCode(c)
    \/ \E s \in Logins : Login(s) \/ ExpireLogin(s)
    \/ \E t \in Tokens : ExpireSession(t) \/ Logout(t)

LoginStep == Environment \/ \E q \in Requests : LogIn(q) \/ Admit(q) \/ CutOff(q)

(* An admitted request has been answered. *)
Answered(q) == At(q, "act") /\ End(q) /\ UNCHANGED <<provider, tables, issued, granted>>

(* The process dies and is started again: the rows stay. *)
ProcessRestart ==
    /\ req' = [q \in Requests |-> None]
    /\ UNCHANGED <<provider, tables, issued, granted>>

LoginNext == LoginStep \/ (\E q \in Requests : Answered(q)) \/ ProcessRestart

LoginSpec == LoginInit /\ [][LoginNext]_loginVars

-----------------------------------------------------------------------------
(* Properties.                                                             *)

LoginTypeOK ==
    /\ claims \in [Subjects -> SUBSET Groups]
    /\ codes \subseteq Code
    /\ states \in [Logins -> {"unused", "open", "expired", "deleted"}]
    /\ users \in [Subjects -> Role \cup {None}]
    /\ sessions \in [Tokens -> Session \cup {None}]
    /\ issued \in [Tokens -> Issued \cup {None}]
    /\ granted \subseteq Subjects
    /\ req \in [Requests -> Handler \cup {None}]

(* The logins in progress that have passed ConsumeLoginState for s. *)
Passed(s) == {q \in Requests : req[q] # None /\ req[q].login = s}

(* A login through the browser yields one session, although its callback may
   arrive again, with the same code or with another one of the same URL: when
   there is a session, nobody is about to issue another, and never are two. *)
LoginOnce ==
    \A s \in Logins :
        /\ Cardinality(Passed(s)) <= 1
        /\ Passed(s) # {} => \A t \in Tokens : issued[t] # None => issued[t].login # s
        /\ \A t, v \in Tokens :
              issued[t] # None /\ issued[v] # None /\ issued[t].login = s /\ issued[v].login = s => t = v

(* A session is that of the subject who authenticated for it, although other
   logins write to the users table between its statements. *)
SessionOfSubject == \A t \in Tokens : sessions[t] # None => sessions[t].user = issued[t].subject

(* A token is over: its session was deleted by a logout, or its time is up. *)
Over(t) == issued[t] # None /\ (sessions[t] = None \/ sessions[t].expired)

(* A logout that deleted the session is final and so is an expiry: a request that
   read the session before does not bring it back when it writes to it. *)
OverStaysOver == [][\A t \in Tokens : Over(t) => Over(t)']_loginVars

(* A login that has not been consumed, or is in progress. *)
Left == {s \in Logins : states[s] \in {"unused", "open"} \/ Passed(s) # {}}

Book == INSTANCE SessionBook WITH
          left <- Left,
          book <- [t \in Tokens |->
                     IF issued[t] = None THEN None
                     ELSE [login |-> issued[t].login,
                           holder |-> IF Over(t) THEN None ELSE sessions[t].user]]

(* Tables, handlers and provider implement the book of sessions: whatever is cut
   off or comes twice, a login opens one session, for as long as it is in
   progress, and nothing but a login opens one. *)
KeepsBook == Book!Spec

(* The provider does not call u an administrator. *)
Revoked(u) == UserRole(u, claims[u]) = "member"

(* Nor does the row, nor any login in progress. *)
Demoted(u) ==
    /\ Revoked(u) /\ users[u] # "admin"
    /\ \A q \in Requests : At(q, "upsert") /\ req[q].subject = u => req[q].role = "member"

(* Once the logins that saw the old claims are over, a demotion is final until
   the provider changes its mind. *)
DemotionSettles == [][\A u \in Subjects : Demoted(u) => Demoted(u)' \/ ~Revoked(u)']_loginVars
=============================================================================
