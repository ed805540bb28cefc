---------------------------- MODULE AdminDomains ----------------------------
(***************************************************************************)
(* The allowed domains behind the admin gate: /admin/domains of             *)
(* internal/server/admin.go, whose handlers run authorizeAdmin and then     *)
(* change the list.  LoginSessions and DomainStore, composed; both live in  *)
(* one process, which may die and be started again.                         *)
(***************************************************************************)
EXTENDS LoginSessions, DomainStore

ASSUME AdminAssumption == Writers = Requests

adminVars == <<loginVars, domainVars>>

AdminInit == LoginInit /\ DomainInit

(* What a request admitted as admin does; answered 204, 200 or 500. *)
ChangeDomain(q, d) ==
    /\ At(q, "act") /\ holder # q
    /\ \/ (Add(q, d) \/ Remove(q, d)) /\ UNCHANGED loginVars
       \/ NoChange(q, d) /\ Answered(q)

Save(q) ==
    \/ Truncate(q) /\ UNCHANGED loginVars
    \/ WriteList(q) /\ Answered(q)
    \/ SaveFails(q) /\ Answered(q)

(* The rows stay; handlers and what is in memory do not. *)
Restart == Reload /\ ProcessRestart

AdminNext ==
    \/ LoginStep /\ UNCHANGED domainVars
    \/ \E q \in Requests : Save(q) \/ \E d \in Domains : ChangeDomain(q, d)
    \/ Restart

AdminSpec == AdminInit /\ [][AdminNext]_adminVars

AdminTypeOK == LoginTypeOK /\ DomainTypeOK

(* The list is changed only for a token issued to a subject whom the provider's
   claims had made an administrator: through the exchange, the user's row, the
   session and the gate, and with other logins in between. *)
OnlyAdminsChange ==
    [][\A q \in Requests, d \in Domains :
          At(q, "act") /\ (Add(q, d) \/ Remove(q, d)) => issued[req[q].token].subject \in granted]_adminVars
=============================================================================
