--------------------------- MODULE IngressProofs ---------------------------
(***************************************************************************)
(* Ingress for any number of requests, connections, updates and tunnels.    *)
(***************************************************************************)
EXTENDS Ingress, AccessRulesProofs

USE IngressAssumption

-----------------------------------------------------------------------------
(* Type correctness. *)

(* The steps of the store keep the types of the store: TypeCorrect's step. *)
LEMMA StoreType == TypeOK /\ [Next]_vars => TypeOK'
BY TypeStep

(* The rule of the tunnel, if there is one. *)
LEMMA InForceType == TypeOK /\ RowInv => InForce \in SUBSET Rule
BY DEF InForce, TypeOK, RowInv, RowsHaveRules

TypeInv == IngressTypeOK /\ RowInv

(* A handler that goes on keeps the types of its variables. *)
LEMMA GoType ==
  ASSUME ReqOK, NEW r \in Requests, req[r] # None,
         NEW step \in Steps, NEW t \in Ids \cup {None}, NEW c \in Conns \cup {None},
         c = None <=> step \in {"lookup", "get"}, Go(r, step, t, c)
  PROVE ReqOK'
<1>1. req[r].presented \in Presented
  BY DEF ReqOK
<1>. DEFINE new == [presented |-> req[r].presented, step |-> step, tunnel |-> t, conn |-> c]
<1>2. req' = [req EXCEPT ![r] = new]
  BY DEF Go
<1>5. new \in [presented : Presented, step : Steps, tunnel : Ids \cup {None}, conn : Conns \cup {None}]
  BY <1>1
<1>6. new.conn = c /\ new.step = step
  OBVIOUS
<1>. HIDE DEF new
<1>3. req' \in [Requests -> [presented : Presented, step : Steps, tunnel : Ids \cup {None},
                             conn : Conns \cup {None}] \cup {None}]
  BY <1>2, <1>5 DEF ReqOK
<1>4. ASSUME NEW q \in Requests, req'[q] # None
      PROVE req'[q].conn = None <=> req'[q].step \in {"lookup", "get"}
  <2>1. CASE q = r
    BY <1>2, <1>6, <2>1 DEF ReqOK
  <2>2. CASE q # r
    BY <1>2, <1>4, <2>2 DEF ReqOK
  <2>. QED
    BY <2>1, <2>2
<1>. QED
  BY <1>3, <1>4 DEF ReqOK

(* One that ends, or never was, does too. *)
LEMMA EndType == ASSUME ReqOK, NEW r \in Requests, End(r) PROVE ReqOK'
BY DEF ReqOK, End

(* Only the store's own steps and a restart change what the store keeps. *)
LEMMA RulesUntouched == [IngressNext]_ingressVars => StoreStep \/ Restart \/ UNCHANGED vars
BY DEF IngressNext, ConnStep, Conn!Serve, Conn!FindTunnel, Conn!Register, Conn!CloseConn,
       Conn!Unregister, Handle, Arrive, Lookup, GetConn, LookupAgain, CheckRule, Send, Refuse,
       ingressVars, vars

LEMMA TypeInvStep == TypeInv /\ [IngressNext]_ingressVars => TypeInv'
<1>. SUFFICES ASSUME TypeInv, [IngressNext]_ingressVars PROVE TypeInv'
  OBVIOUS
<1>. USE DEF TypeInv
<1>1. CASE StoreStep
  <2>1. TypeOK' /\ RowInv'
    BY <1>1, StoreType, RowStep DEF StoreStep, IngressTypeOK
  <2>2. InForce' \in SUBSET Rule
    BY <2>1 DEF InForce, TypeOK, RowInv, RowsHaveRules
  <2>. QED
    BY <1>1, <2>1, <2>2 DEF StoreStep, IngressTypeOK, ReqOK, conns
<1>3. CASE Restart
  <2>1. TypeOK' /\ RowInv'
    BY <1>3, StoreType, RowStep DEF Restart, Next, IngressTypeOK
  <2>2. /\ registry' = None
        /\ connState' \in [Conns -> {"new", "found", "open", "closed"}]
        /\ UNCHANGED connTunnel
    BY <1>3 DEF Restart, Conn!DropAll, IngressTypeOK
  <2>. QED
    BY <1>3, <2>1, <2>2 DEF Restart, IngressTypeOK, ReqOK
<1>2. CASE UNCHANGED vars
  <2>1. TypeOK' /\ RowInv'
    BY <1>2, StoreType, RowStep DEF IngressTypeOK
  <2>. USE <1>2, <2>1 DEF IngressTypeOK, conns, vars
  <2>2. ASSUME ConnStep PROVE TypeInv'
    <3>1. /\ registry' \in Conns \cup {None}
          /\ connState' \in [Conns -> {"new", "found", "open", "closed"}]
          /\ connTunnel' \in [Conns -> Ids \cup {None}]
      BY <2>2 DEF ConnStep, Conn!Serve, Conn!FindTunnel, Conn!Register, Conn!CloseConn,
                  Conn!Unregister, TypeOK
    <3>. QED
      BY <2>2, <3>1 DEF ConnStep, ReqOK
  <2>4. ASSUME NEW r \in Requests, NEW p \in Presented, Arrive(r, p) PROVE TypeInv'
    BY <2>4 DEF Arrive, ReqOK, Steps
  <2>5. ASSUME NEW r \in Requests, Lookup(r) PROVE TypeInv'
    <3>1. row \in Ids \cup {None} /\ "get" \in Steps
      BY DEF TypeOK, Steps
    <3>2. ReqOK'
      BY <2>5, <3>1, GoType DEF Lookup, At
    <3>. QED
      BY <2>5, <3>2 DEF Lookup
  <2>6. ASSUME NEW r \in Requests, GetConn(r) PROVE TypeInv'
    <3>1. InForce \in SUBSET Rule
      BY InForceType
    <3>2. CASE registry = None
      BY <2>6, <3>2, EndType DEF GetConn
    <3>3. CASE registry # None
      <4>1. since' = [since EXCEPT ![r].rules = InForce]
        BY <2>6, <3>3 DEF GetConn, Hold
      <4>2. since' \in [Requests -> [rules : SUBSET Rule, void : BOOLEAN]]
        BY <3>1, <4>1
      <4>3. PICK step \in {"again", "check"} : Go(r, step, req[r].tunnel, registry)
        BY <2>6, <3>3 DEF GetConn, Hold
      <4>4. req[r] # None /\ req[r].tunnel \in Ids \cup {None} /\ step \in Steps
        BY <2>6 DEF GetConn, At, ReqOK, Steps
      <4>5. ReqOK'
        BY <3>3, <4>3, <4>4, GoType
      <4>. QED
        BY <2>6, <4>2, <4>5 DEF GetConn
    <3>. QED
      BY <3>2, <3>3
  <2>7. ASSUME NEW r \in Requests, LookupAgain(r) PROVE TypeInv'
    <3>1. row \in Ids \cup {None} /\ "check" \in Steps
      BY DEF TypeOK, Steps
    <3>2. \/ since' = since
          \/ since' = [since EXCEPT ![r].void = TRUE]
      BY <2>7 DEF LookupAgain
    <3>3. since' \in [Requests -> [rules : SUBSET Rule, void : BOOLEAN]]
      BY <3>2
    <3>4. PICK t \in Ids \cup {None} : Go(r, "check", t, req[r].conn)
      BY <2>7, <3>1 DEF LookupAgain
    <3>5. req[r] # None /\ req[r].conn \in Conns
      BY <2>7 DEF LookupAgain, At, ReqOK
    <3>6. ReqOK'
      BY <3>1, <3>4, <3>5, GoType
    <3>. QED
      BY <2>7, <3>3, <3>6 DEF LookupAgain
  <2>8. ASSUME NEW r \in Requests, CheckRule(r) PROVE TypeInv'
    <3>1. req[r] # None /\ req[r].conn \in Conns /\ req[r].tunnel \in Ids \cup {None}
      BY <2>8 DEF CheckRule, At, ReqOK
    <3>2. End(r) \/ Go(r, "send", req[r].tunnel, req[r].conn)
      BY <2>8 DEF CheckRule
    <3>3. ReqOK'
      BY <3>1, <3>2, GoType, EndType DEF Steps
    <3>. QED
      BY <2>8, <3>3 DEF CheckRule
  <2>9. ASSUME NEW r \in Requests, Send(r) \/ Refuse(r) PROVE TypeInv'
    BY <2>9, EndType DEF Send, Refuse
  <2>10. CASE UNCHANGED ingressVars
    BY <2>10 DEF ingressVars, ReqOK
  <2>. QED
    BY <1>1, <1>3, <2>2, <2>4, <2>5, <2>6, <2>7, <2>8, <2>9, <2>10 DEF IngressNext, Handle
<1>4. StoreStep \/ Restart \/ UNCHANGED vars
  BY RulesUntouched
<1>. QED
  BY <1>1, <1>2, <1>3, <1>4

(* Type correctness of the handlers' local variables: a handler past
   registry.Get has a connection (ProxyHandlerWithConfig). *)
THEOREM IngressTypeCorrect == IngressSpec => []IngressTypeOK
<1>1. IngressInit => TypeInv
  BY InitOK DEF IngressInit, Conn!ConnInit, TypeInv, IngressTypeOK, ReqOK
<1>2. TypeInv => IngressTypeOK
  BY DEF TypeInv
<1>. QED
  BY <1>1, <1>2, TypeInvStep, PTL DEF IngressSpec

-----------------------------------------------------------------------------
(* Admission. *)

(* A handler's copy of the row is the row, unless it is void; one with no tunnel
   to check holds a connection of a tunnel that is gone; and what passed the check
   presented a rule that was in force. *)
Own(r) ==
    req[r] # None =>
      /\ req[r].conn # None => connState[req[r].conn] # "new"
      /\ ~since[r].void =>
           /\ req[r].tunnel # None => req[r].tunnel = row
           /\ req[r].step \in {"again", "check", "send"} /\ row # None =>
                 rules[row] \in since[r].rules
           /\ req[r].step \in {"check", "send"} /\ req[r].tunnel = None =>
                 connTunnel[req[r].conn] # row
           /\ req[r].step = "send" /\ req[r].tunnel # None =>
                 \E rule \in since[r].rules : Admits(rule, req[r].presented)

AdmissionInv ==
    /\ \A c \in Conns : connTunnel[c] # None => connTunnel[c] < nextId
    /\ \A c \in Conns : connState[c] = "new" => registry # c
    /\ \A c \in Conns : connState[c] # "new" => connTunnel[c] # None
    /\ \A r \in Requests : Own(r)

(* A tunnel's id is not given again. *)
LEMMA StoreAdmission == TypeInv /\ AdmissionInv /\ StoreStep => AdmissionInv'
<1>. SUFFICES ASSUME TypeInv, AdmissionInv, StoreStep PROVE AdmissionInv'
  OBVIOUS
<1>. USE DEF AdmissionInv, TypeInv, IngressTypeOK, ReqOK, Own
<1>1. UNCHANGED <<conns, req>>
  BY DEF StoreStep
<1>2. TypeOK' /\ RowInv' /\ TypeOK /\ RowInv
  BY StoreType, RowStep DEF StoreStep
<1>3. /\ nextId \in Nat /\ nextId' \in Nat /\ nextId <= nextId'
      /\ row' = row \/ row' = None \/ (row = None /\ row' = nextId)
  <2>1. CreateTunnel \/ DeleteTunnel \/ UNCHANGED <<row, nextId>>
    BY DEF StoreStep, Next, Update, BeginUpdate, ReadRule, WriteRule, Cancel, CancelAll
  <2>2. nextId \in Nat /\ (row # None => row \in Nat /\ row < nextId)
    BY <1>2 DEF TypeOK, RowInv, Ids
  <2>. QED
    BY <2>1, <2>2 DEF CreateTunnel, DeleteTunnel
<1>4. \A c \in Conns : connTunnel'[c] # None => connTunnel'[c] < nextId'
  BY <1>1, <1>3 DEF conns, Ids
<1>5. ASSUME NEW r \in Requests, req[r] # None PROVE Own(r)'
  <2>1. req'[r] = req[r] /\ connState' = connState /\ connTunnel' = connTunnel
    BY <1>1 DEF conns
  <2>2. SUFFICES ASSUME ~since'[r].void
                 PROVE  /\ req[r].tunnel # None => req[r].tunnel = row'
                        /\ row' # None => rules'[row'] \in since'[r].rules
                        /\ req[r].step \in {"check", "send"} /\ req[r].tunnel = None =>
                              connTunnel[req[r].conn] # row'
                        /\ req[r].step = "send" /\ req[r].tunnel # None =>
                              \E rule \in since'[r].rules : Admits(rule, req[r].presented)
    BY <1>5, <2>1
  <2>3. /\ since'[r].rules = since[r].rules \cup InForce'
        /\ ~since[r].void /\ ~(row # None /\ row' = None)
    BY <2>2 DEF StoreStep
  <2>4. row' = row \/ (row = None /\ row' = nextId)
    BY <1>3, <2>3
  <2>5. req[r].tunnel # None => req[r].tunnel = row'
    BY <1>5, <2>1, <2>3, <2>4, <1>2 DEF TypeOK
  <2>6. row' # None => rules'[row'] \in since'[r].rules
    BY <2>3 DEF InForce
  <2>7. req[r].step \in {"check", "send"} /\ req[r].tunnel = None => connTunnel[req[r].conn] # row'
    <3>. SUFFICES ASSUME req[r].step \in {"check", "send"}, req[r].tunnel = None
                  PROVE  connTunnel[req[r].conn] # row'
      OBVIOUS
    <3>1. req[r].conn \in Conns
      BY <1>5, <2>1 DEF Steps
    <3>2. connTunnel[req[r].conn] # row /\ connTunnel[req[r].conn] # nextId
      BY <1>5, <2>1, <2>3, <3>1, <1>3
    <3>. QED
      BY <2>4, <3>2
  <2>8. req[r].step = "send" /\ req[r].tunnel # None =>
          \E rule \in since'[r].rules : Admits(rule, req[r].presented)
    BY <1>5, <2>1, <2>3
  <2>. QED
    BY <2>5, <2>6, <2>7, <2>8
<1>. QED
  BY <1>1, <1>4, <1>5 DEF conns

LEMMA ConnAdmission == TypeInv /\ AdmissionInv /\ ConnStep => AdmissionInv'
<1>. SUFFICES ASSUME TypeInv, AdmissionInv, ConnStep PROVE AdmissionInv'
  OBVIOUS
<1>. USE DEF AdmissionInv, TypeInv, IngressTypeOK, ReqOK, vars, Own, ConnStep
<1>1. ASSUME NEW c \in Conns, Conn!FindTunnel(c) PROVE AdmissionInv'
  <2>1. row \in Nat /\ row < nextId
    BY <1>1 DEF Conn!FindTunnel, TypeOK, RowInv, Ids
  <2>. QED
    BY <1>1, <2>1 DEF Conn!FindTunnel
<1>2. ASSUME NEW c \in Conns, Conn!Register(c) PROVE AdmissionInv'
  BY <1>2 DEF Conn!Register
<1>3. ASSUME NEW c \in Conns, Conn!CloseConn(c) PROVE AdmissionInv'
  BY <1>3 DEF Conn!CloseConn
<1>4. CASE Conn!Unregister
  BY <1>4 DEF Conn!Unregister
<1>. QED
  BY <1>1, <1>2, <1>3, <1>4 DEF Conn!Serve

(* After a restart no request is in progress. *)
LEMMA RestartAdmission == TypeInv /\ AdmissionInv /\ Restart => AdmissionInv'
BY DEF AdmissionInv, TypeInv, IngressTypeOK, Own, Restart, CancelAll, Conn!DropAll, vars

LEMMA RequestAdmission ==
    ASSUME TypeInv, AdmissionInv, NEW r \in Requests, Handle(r)
    PROVE  AdmissionInv'
<1>. USE DEF TypeInv, IngressTypeOK, ReqOK, At, Go, End
<1>1. UNCHANGED vars /\ UNCHANGED conns
  BY DEF Handle, Arrive, Lookup, GetConn, LookupAgain, CheckRule, Send, Refuse
<1>2. Own(r)
  BY DEF AdmissionInv, Own
<1>3. \A q \in Requests \ {r} : req'[q] = req[q] /\ since'[q] = since[q]
  BY DEF Handle, Arrive, Lookup, GetConn, Hold, LookupAgain, CheckRule, Send, Refuse
<1>4. SUFFICES Own(r)'
  BY <1>1, <1>3 DEF AdmissionInv, Own, vars, conns
<1>. USE <1>1, <1>2 DEF Own, vars, conns
<1>5. ASSUME NEW p \in Presented, Arrive(r, p) PROVE Own(r)'
  BY <1>5 DEF Arrive
<1>6. CASE Lookup(r)
  BY <1>6 DEF Lookup
<1>7. CASE GetConn(r)
  <2>1. CASE registry = None
    BY <1>7, <2>1 DEF GetConn
  <2>2. CASE registry # None
    <3>1. registry \in Conns /\ connState[registry] # "new"
      BY <2>2 DEF AdmissionInv
    <3>2. /\ since'[r].rules = InForce /\ since'[r].void = since[r].void
          /\ req'[r] = [presented |-> req[r].presented, tunnel |-> req[r].tunnel, conn |-> registry,
                        step |-> IF req[r].tunnel = None THEN "again" ELSE "check"]
      BY <1>7, <2>2 DEF GetConn, Hold
    <3>. QED
      BY <1>7, <2>2, <3>1, <3>2 DEF GetConn, InForce
  <2>. QED
    BY <2>1, <2>2
<1>8. CASE LookupAgain(r)
  <2>1. req[r].conn \in Conns /\ connTunnel[req[r].conn] # None
    BY <1>8 DEF LookupAgain, AdmissionInv, Steps
  <2>2. CASE Go(r, "check", row, req[r].conn) /\ UNCHANGED since
    BY <1>8, <2>1, <2>2 DEF LookupAgain
  <2>3. CASE Go(r, "check", None, req[r].conn) /\ since' = [since EXCEPT ![r].void = TRUE]
    <3>1. since'[r].void
      BY <2>3
    <3>. QED
      BY <1>8, <2>3, <3>1 DEF LookupAgain
  <2>. QED
    BY <1>8, <2>2, <2>3 DEF LookupAgain
<1>9. CASE CheckRule(r)
  <2>1. ~since[r].void /\ req[r].tunnel # None =>
          /\ rules[req[r].tunnel] # None
          /\ rules[req[r].tunnel] \in since[r].rules
    BY <1>9 DEF CheckRule, RowInv, RowsHaveRules, TypeOK
  <2>. QED
    BY <1>9, <2>1 DEF CheckRule
<1>10. CASE Send(r) \/ Refuse(r)
  BY <1>10 DEF Send, Refuse
<1>. QED
  BY <1>5, <1>6, <1>7, <1>8, <1>9, <1>10 DEF Handle

(* Past the check, a request for the hostname's tunnel presented what a rule of
   it asks for that was in force while the handler had the connection, unless the
   tunnel was deleted or the second lookup failed (ProxyHandlerWithConfig). *)
THEOREM RequestsAreAdmitted == IngressSpec => AdmittedByRule
<1>1. IngressInit => TypeInv /\ AdmissionInv
  <2>1. IngressInit => TypeInv
    BY InitOK DEF IngressInit, Conn!ConnInit, TypeInv, IngressTypeOK, ReqOK
  <2>2. IngressInit => AdmissionInv
    BY DEF IngressInit, Conn!ConnInit, AdmissionInv, Own
  <2>. QED
    BY <2>1, <2>2
<1>2. TypeInv /\ AdmissionInv /\ [IngressNext]_ingressVars => AdmissionInv'
  BY StoreAdmission, ConnAdmission, RestartAdmission, RequestAdmission
  DEF IngressNext, ingressVars, AdmissionInv, Own, conns, vars
<1>3. TypeInv /\ AdmissionInv =>
        [\A r \in Requests :
            Forwarded(r) /\ connTunnel[req[r].conn] = row /\ ~since[r].void =>
              \E rule \in since[r].rules : Admits(rule, req[r].presented)]_ingressVars
  <2>. SUFFICES ASSUME TypeInv, AdmissionInv, NEW r \in Requests, Forwarded(r),
                       connTunnel[req[r].conn] = row, ~since[r].void
                PROVE  \E rule \in since[r].rules : Admits(rule, req[r].presented)
    OBVIOUS
  <2>. QED
    BY DEF Forwarded, Send, At, AdmissionInv, Own
<1>. QED
  BY <1>1, <1>2, <1>3, TypeInvStep, PTL DEF IngressSpec, AdmittedByRule
-----------------------------------------------------------------------------
(* What the store promises holds under the requests. *)

(* Whatever requests and connections do, the tunnel and its rule go through what
   AccessRules says: no handler writes them (ProxyHandlerWithConfig). *)
THEOREM IngressImplementsRules == IngressSpec => Spec
<1>1. IngressInit => Init
  BY DEF IngressInit
<1>2. [IngressNext]_ingressVars => [Next]_vars
  BY RulesUntouched DEF StoreStep, Restart, Next
<1>. QED
  BY <1>1, <1>2, PTL DEF IngressSpec, Spec

(* And to the hostname, its tunnel and its connections, a request does nothing
   at all: they go through what HostConns says. *)
THEOREM IngressImplementsConns == IngressSpec => Conn!ConnSpec
<1>1. IngressInit => Conn!ConnInit
  BY DEF IngressInit
<1>2. [IngressNext]_ingressVars => [Conn!ConnNext]_(Conn!connVars)
  <2> SUFFICES ASSUME [IngressNext]_ingressVars
               PROVE  Conn!ConnNext \/ UNCHANGED Conn!connVars
    OBVIOUS
  <2>1. CASE StoreStep
    <3>1. \/ CreateTunnel \/ DeleteTunnel
          \/ UNCHANGED <<row, nextId>>
      BY <2>1 DEF StoreStep, Next, CancelAll, Update, BeginUpdate, ReadRule, WriteRule, Cancel
    <3>2. UNCHANGED Conn!conns
      BY <2>1 DEF StoreStep, conns, Conn!conns
    <3>3. QED
      BY <3>1, <3>2 DEF CreateTunnel, DeleteTunnel, Conn!ConnNext, Conn!NewTunnel, Conn!DropTunnel,
                        Conn!connVars
  <2>2. CASE ConnStep \/ Restart
    BY <2>2 DEF ConnStep, Restart, Conn!ConnNext
  <2>3. CASE UNCHANGED ingressVars
    BY <2>3 DEF ingressVars, vars, conns, Conn!connVars, Conn!conns
  <2>4. ASSUME NEW r \in Requests, Handle(r) PROVE UNCHANGED Conn!connVars
    BY <2>4 DEF Handle, Arrive, Lookup, GetConn, LookupAgain, CheckRule, Send, Refuse, Go, End,
                vars, conns, Conn!connVars, Conn!conns
  <2>5. QED
    BY <2>1, <2>2, <2>3, <2>4 DEF IngressNext
<1>. QED
  BY <1>1, <1>2, PTL DEF IngressSpec, Conn!ConnSpec

(* The hostname's tunnel has a rule, and a complete one, at whatever point of a
   request it is read. *)
THEOREM RulesReadAreComplete == IngressSpec => [](RowsHaveRules /\ RuleComplete)
BY IngressImplementsRules, RulesGoWithRows, RulesAreComplete, PTL

(* And blank fields are kept, with one administrator at a time. *)
THEOREM BlankKeepsUnderRequests ==
    ASSUME \A e, f \in Editors : e = f
    PROVE  IngressSpec => BlankKeeps
BY IngressImplementsRules, BlankKeepsAlone, PTL
=============================================================================
