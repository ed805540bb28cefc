------------------------------ MODULE Ingress ------------------------------
(***************************************************************************)
(* The public requests for one hostname (internal/server/proxy.go) while    *)
(* its tunnel is created, deleted and given other access rules, and while   *)
(* connections register and go.                                             *)
(*                                                                          *)
(* A request reads the row, the registry, perhaps the row again, and the    *)
(* rule, one after the other and none of them under a lock the others take. *)
(* The tunnel and its rule are those of AccessRules.  The connections do    *)
(* what TunnelSessions shows in full: here they look up the row, register   *)
(* if nobody has, close and are unregistered, in any order that allows.     *)
(***************************************************************************)
EXTENDS AccessRules

CONSTANTS Requests,  \* public requests for the hostname
          Presented, \* what they may present
          Conns      \* connections, each used once

VARIABLES registry,   \* the connection registered at the hostname
          connState,  \* "new", "found", "open" or "closed"
          connTunnel, \* the id of the tunnel the connection looked up
          req,        \* the local variables of a request's handler
          since       \* (history) the rules in force since the request has a connection,
                      \* and whether a tunnel was deleted or a lookup failed since it arrived

conns == <<registry, connState, connTunnel>>
ingressVars == <<vars, conns, req, since>>

(* Presented: the user and password of Basic, Blank without, the value of each
   header, and the ranges the client's address is in. *)
Credentials == [user : Users \cup {Blank}, pass : Passwords \cup {Blank},
                headers : [Headers -> Secrets \cup {Blank}], from : SUBSET Prefixes]

ASSUME IngressAssumption ==
    /\ Presented \subseteq Credentials
    /\ None \notin Conns

(* The connections at the hostname, with row and nextId for what they look up. *)
Conn == INSTANCE HostConns

InForce == IF row = None THEN {} ELSE {rules[row]}

IngressInit ==
    /\ Init /\ Conn!ConnInit
    /\ req = [r \in Requests |-> None]
    /\ since = [r \in Requests |-> [rules |-> {}, void |-> FALSE]]

-----------------------------------------------------------------------------
(* The administrators, and the connections.                                *)

(* A step of AccessRules, noted for the requests in progress. *)
StoreStep ==
    /\ Next
    /\ since' = [r \in Requests |->
                   [rules |-> since[r].rules \cup InForce',
                    void |-> since[r].void \/ (row # None /\ row' = None)]]
    /\ UNCHANGED <<conns, req>>

(* What becomes of the connections: Serve of HostConns. *)
ConnStep ==
    /\ Conn!Serve
    /\ UNCHANGED <<rules, edit, req, since>>

(* The process ends, with its connections, updates and requests. *)
Restart ==
    /\ CancelAll /\ Conn!DropAll
    /\ req' = [r \in Requests |-> None]
    /\ UNCHANGED since

-----------------------------------------------------------------------------
(* ProxyHandler for request r.                                             *)

(* allowedByIP and the switch on the mode. *)
Admits(rule, p) ==
    /\ rule.ips = {} \/ rule.ips \cap p.from # {}
    /\ rule.mode = "basic_auth" => p.user = rule.fields.user /\ p.pass = rule.fields.pass
    /\ rule.mode = "shared_secret_header" => p.headers[rule.fields.header] = rule.fields.secret

At(r, step) == req[r] # None /\ req[r].step = step

Go(r, step, tunnel, conn) ==
    req' = [req EXCEPT ![r] = [presented |-> @.presented, step |-> step,
                               tunnel |-> tunnel, conn |-> conn]]

End(r) == req' = [req EXCEPT ![r] = None]

Arrive(r, p) ==
    /\ req[r] = None
    /\ req' = [req EXCEPT ![r] = [presented |-> p, step |-> "lookup", tunnel |-> None, conn |-> None]]
    /\ since' = [since EXCEPT ![r] = [rules |-> {}, void |-> FALSE]]
    /\ UNCHANGED <<vars, conns>>

(* The first GetTunnelByHostname. *)
Lookup(r) ==
    /\ At(r, "lookup")
    /\ Go(r, "get", row, None)
    /\ UNCHANGED <<vars, conns, since>>

(* The handler of r holds connection c. *)
Hold(r, c, step) ==
    /\ Go(r, step, req[r].tunnel, c)
    /\ since' = [since EXCEPT ![r].rules = InForce]

(* A handler that goes on without a connection. *)
GetConnUnchecked(r) ==
    /\ At(r, "get")
    /\ Hold(r, registry, IF req[r].tunnel = None THEN "again" ELSE "check")
    /\ UNCHANGED <<vars, conns>>

(* A handler that does without the second lookup. *)
GetConnOnce(r) ==
    /\ At(r, "get")
    /\ IF registry = None THEN End(r) /\ UNCHANGED since
       ELSE Hold(r, registry, "check")
    /\ UNCHANGED <<vars, conns>>

(* registry.Get; without a connection the answer is 404, 502 or the server's page. *)
GetConn(r) ==
    /\ At(r, "get")
    /\ IF registry = None THEN End(r) /\ UNCHANGED since
       ELSE Hold(r, registry, IF req[r].tunnel = None THEN "again" ELSE "check")
    /\ UNCHANGED <<vars, conns>>

(* The tunnel was created after the first lookup, and its client is here.  An
   error is taken for no tunnel. *)
LookupAgain(r) ==
    /\ At(r, "again")
    /\ \/ Go(r, "check", row, req[r].conn) /\ UNCHANGED since
       \/ Go(r, "check", None, req[r].conn) /\ since' = [since EXCEPT ![r].void = TRUE]
    /\ UNCHANGED <<vars, conns>>

(* No tunnel or no rule: nothing to check.  403 or 401 if the rule refuses. *)
CheckRule(r) ==
    /\ At(r, "check")
    /\ LET rule == IF req[r].tunnel = None THEN None ELSE rules[req[r].tunnel]
       IN IF rule = None \/ Admits(rule, req[r].presented)
          THEN Go(r, "send", req[r].tunnel, req[r].conn)
          ELSE End(r)
    /\ UNCHANGED <<vars, conns, since>>

(* EnqueueRequest: forwarded if the connection is open, 502 if not. *)
Send(r) ==
    /\ At(r, "send")
    /\ End(r)
    /\ UNCHANGED <<vars, conns, since>>

(* 500 for a failed lookup, 501 for an upgrade, 413 for the body. *)
Refuse(r) ==
    /\ req[r] # None
    /\ End(r)
    /\ UNCHANGED <<vars, conns, since>>

Handle(r) ==
    \/ \E p \in Presented : Arrive(r, p)
    \/ Lookup(r) \/ GetConn(r) \/ LookupAgain(r) \/ CheckRule(r) \/ Send(r) \/ Refuse(r)

IngressNext ==
    \/ StoreStep
    \/ ConnStep
    \/ Restart
    \/ \E r \in Requests : Handle(r)

IngressSpec == IngressInit /\ [][IngressNext]_ingressVars

-----------------------------------------------------------------------------
(* Properties.                                                             *)

Steps == {"lookup", "get", "again", "check", "send"}

ReqOK ==
    /\ req \in [Requests -> [presented : Presented, step : Steps, tunnel : Ids \cup {None},
                             conn : Conns \cup {None}] \cup {None}]
    /\ \A r \in Requests : req[r] # None => (req[r].conn = None <=> req[r].step \in {"lookup", "get"})

IngressTypeOK ==
    /\ TypeOK
    /\ ReqOK
    /\ registry \in Conns \cup {None}
    /\ connState \in [Conns -> {"new", "found", "open", "closed"}]
    /\ connTunnel \in [Conns -> Ids \cup {None}]
    /\ since \in [Requests -> [rules : SUBSET Rule, void : BOOLEAN]]

Forwarded(r) == Send(r) /\ connState[req[r].conn] = "open"

(* What is forwarded to the hostname's tunnel presented what a rule of it asks
   for that was in force after the handler had the connection: also when the
   tunnel is created, given a rule and connected after the request looked for
   it.  A tunnel deleted meanwhile makes it void, for its rule is gone with it,
   and so does a second lookup that fails. *)
AdmittedByRule ==
    [][\A r \in Requests :
          Forwarded(r) /\ connTunnel[req[r].conn] = row /\ ~since[r].void =>
              \E rule \in since[r].rules : Admits(rule, req[r].presented)]_ingressVars
=============================================================================
