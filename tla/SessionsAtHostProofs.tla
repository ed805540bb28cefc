------------------------ MODULE SessionsAtHostProofs ------------------------
(***************************************************************************)
(* The handlers and the registry of TunnelSessions are what Ingress assumes *)
(* of a hostname, for every number of streams, tunnels, hostnames, admins   *)
(* and restarts.                                                            *)
(***************************************************************************)
EXTENDS SessionsAtHost, TunnelSessionsProofs

(* The history has its types, and a stream that looked the hostname up is past
   its lookup and has a connection that is not over. *)
HistoryInv ==
    /\ nextId \in Nat \ {0} /\ turn \in [Streams -> 0 .. MaxTurns] /\ found \in [Conns -> Nat \cup {None}]
    /\ \A s \in Streams : Here(s) => /\ turn[s] < MaxTurns
                                     /\ pc[s] \in {"claim"} \cup Claimed

LEMMA InitHistory == AtInit => HistoryInv
  BY HostAssumption, ConstantsAssumption DEF AtInit, Init, HistoryInv, Here

(* How a handler comes to the hostname and leaves it. *)
LEMMA HereSteps ==
  ASSUME Typing, [Next]_vars, NEW s \in Streams
  PROVE  /\ Here(s)' /\ ~Here(s) => LookupTunnel(s) /\ pc'[s] = "claim"
         /\ Here(s) /\ ~Here(s)' => HostnameConflict(s) \/ WriteTunnelOffline(s) \/ Restart
                                      \/ Authenticate(s) \/ LookupTunnel(s)
         /\ Here(s) /\ Here(s)' /\ pc[s] \in {"claim"} \cup Claimed => pc'[s] \in {"claim"} \cup Claimed
  <1> USE HostAssumption, ConstantsAssumption DEF Here, Typing, TypeOK
  <1>1. ASSUME NEW t \in Streams, Handler(t)
        PROVE  \/ t # s /\ host'[s] = host[s] /\ pc'[s] = pc[s]
               \/ t = s
    BY <1>1 DEF Handler, Authenticate, LookupTunnel, Claim, HostnameConflict, WriteConnected,
                WriteDesired, WriteRunning, SendAck, RecvError, CloseConn, Unregister,
                WriteAgentOffline, WriteTunnelOffline, Return, Goto
  <1>2. CASE Handler(s)
    <2>1. CASE Authenticate(s)
      BY <2>1 DEF Authenticate, Return, Goto, Claimed, Startup, Teardown
    <2>2. CASE LookupTunnel(s)
      BY <2>2 DEF LookupTunnel, Return, Goto, Claimed, Startup, Teardown
    <2>3. CASE HostnameConflict(s) \/ WriteTunnelOffline(s)
      BY <2>3 DEF HostnameConflict, WriteTunnelOffline, Return, Goto
    <2>4. CASE \/ Claim(s) \/ WriteConnected(s) \/ WriteDesired(s) \/ WriteRunning(s) \/ SendAck(s)
               \/ RecvError(s) \/ CloseConn(s) \/ Unregister(s) \/ WriteAgentOffline(s)
      BY <2>4 DEF Claim, WriteConnected, WriteDesired, WriteRunning, SendAck, RecvError, CloseConn,
                  Unregister, WriteAgentOffline, Goto, Claimed, Startup, Teardown
    <2>5. QED
      BY <1>2, <2>1, <2>2, <2>3, <2>4 DEF Handler
  <1>3. ASSUME NEW t \in Streams, Client(t)
        PROVE  host'[s] = host[s] /\ (pc'[s] = pc[s] \/ pc[s] = "idle")
    BY <1>3 DEF Client, ClientGone, Open, Goto
  <1>4. CASE Restart
    BY <1>4 DEF Restart
  <1>5. CASE ControlPlane \/ UNCHANGED vars
    <2>1. UNCHANGED <<pc, host>>
      BY <1>5 DEF ControlPlane, CreateAgent, RevokeAgent, CreateTunnel, Disconnect, AdminBegin,
                  BeginDelete, BeginUiDelete, BeginStart, BeginStop, BeginAssign, Begin, AdminStep,
                  DeleteRow, UiDisconnect, DoStart, DoStop, ReportStop, DoAssign, Cancel, vars, stream
    <2>2. QED
      BY <2>1
  <1>6. QED
    BY <1>1, <1>2, <1>3, <1>4, <1>5 DEF Next, Claimed, Startup, Teardown

LEMMA NextHistory == Typing /\ HistoryInv /\ [AtNext]_atVars => HistoryInv'
  <1> SUFFICES ASSUME Typing, HistoryInv, [AtNext]_atVars PROVE HistoryInv'
    OBVIOUS
  <1>1. CASE UNCHANGED atVars
    BY <1>1 DEF HistoryInv, atVars, history, vars, stream, Here, Conns
  <1>2. CASE AtNext
    <2>0. Row \in Nat \cup {None}
      BY DEF Row, HistoryInv
    <2>1. nextId' \in Nat \ {0} /\ found' \in [Conns -> Nat \cup {None}]
      BY <1>2, <2>0 DEF AtNext, HistoryInv
    <2>2. ASSUME NEW s \in Streams PROVE turn'[s] \in 0 .. MaxTurns
      BY <1>2, <2>2, HostAssumption DEF AtNext, HistoryInv
    <2>3. turn' \in [Streams -> 0 .. MaxTurns]
      BY <1>2, <2>2 DEF AtNext
    <2>4. ASSUME NEW s \in Streams, Here(s)'
          PROVE  turn'[s] < MaxTurns /\ pc'[s] \in {"claim"} \cup Claimed
      <3>1. turn'[s] < MaxTurns
        BY <1>2, <2>4 DEF AtNext
      <3>2. pc'[s] \in {"claim"} \cup Claimed
        BY <1>2, <2>4, HereSteps DEF AtNext, HistoryInv
      <3>3. QED
        BY <3>1, <3>2
    <2>5. QED
      BY <2>1, <2>3, <2>4 DEF HistoryInv
  <1>3. QED
    BY <1>1, <1>2

-----------------------------------------------------------------------------
(* The connections.  A step changes at most the one a stream has or is about   *)
(* to have: those it had before stay closed, the later ones stay new.          *)

Was(s) == IF Here(s) THEN StateOf(s) ELSE "new"

Becomes(s) == IF Here(s)' THEN StateOf(s)' ELSE IF Here(s) THEN "closed" ELSE "new"

LEMMA Cells ==
  ASSUME HistoryInv, AtNext, NEW s \in Streams, NEW i \in Turns
  PROVE  /\ Seen(s, i) = IF i < turn[s] THEN "closed" ELSE IF i = turn[s] THEN Was(s) ELSE "new"
         /\ Seen(s, i)' = IF i < turn[s] THEN "closed" ELSE IF i = turn[s] THEN Becomes(s) ELSE "new"
         /\ found'[<<s, i>>] = IF ~Here(s) /\ Here(s)' /\ i = turn[s] THEN Row ELSE found[<<s, i>>]
  <1>1. turn[s] \in Nat /\ i \in Nat
    BY HostAssumption DEF HistoryInv, Turns
  <1>2. turn'[s] = IF Here(s) /\ ~Here(s)' THEN turn[s] + 1 ELSE turn[s]
    BY DEF AtNext
  <1>3. Seen(s, i) = IF i < turn[s] THEN "closed" ELSE IF i = turn[s] THEN Was(s) ELSE "new"
    BY DEF Seen, Was
  <1>4. Seen(s, i)' = IF i < turn[s] THEN "closed" ELSE IF i = turn[s] THEN Becomes(s) ELSE "new"
    <2>1. Seen(s, i)' = IF i < turn'[s] THEN "closed"
                        ELSE IF i = turn'[s] /\ Here(s)' THEN StateOf(s)' ELSE "new"
      BY DEF Seen
    <2>2. CASE Here(s) /\ ~Here(s)'
      BY <1>1, <1>2, <2>1, <2>2 DEF Becomes
    <2>3. CASE ~(Here(s) /\ ~Here(s)')
      BY <1>1, <1>2, <2>1, <2>3 DEF Becomes
    <2>4. QED
      BY <2>2, <2>3
  <1>5. found'[<<s, i>>] = IF ~Here(s) /\ Here(s)' /\ i = turn[s] THEN Row ELSE found[<<s, i>>]
    BY DEF AtNext, Conns
  <1>6. QED
    BY <1>3, <1>4, <1>5

(* Nothing happens to the connection of stream s. *)
Still(s) == Was(s) = Becomes(s) /\ (Here(s)' => Here(s))

LEMMA NoConn ==
  ASSUME HistoryInv, AtNext, \A s \in Streams : Still(s)
  PROVE  ConnState' = ConnState /\ found' = found
  <1>1. ASSUME NEW c \in Conns
        PROVE  Seen(c[1], c[2])' = Seen(c[1], c[2]) /\ found'[c] = found[c]
    <2>1. PICK s \in Streams, i \in Turns : c = <<s, i>>
      BY DEF Conns
    <2>2. Seen(s, i)' = Seen(s, i) /\ found'[<<s, i>>] = found[<<s, i>>]
      BY Cells DEF Still
    <2>3. QED
      BY <2>1, <2>2
  <1>2. ConnState' = [c \in Conns |-> Seen(c[1], c[2])']
    BY DEF ConnState
  <1>3. ConnState' = ConnState
    BY <1>1, <1>2 DEF ConnState
  <1>4. found' = found
    BY <1>1 DEF AtNext, HistoryInv
  <1>5. QED
    BY <1>3, <1>4

LEMMA OneConn ==
  ASSUME HistoryInv, AtNext, NEW s \in Streams, turn[s] \in Turns,
         \A t \in Streams \ {s} : Still(t)
  PROVE  /\ <<s, turn[s]>> \in Conns
         /\ ConnState[<<s, turn[s]>>] = Was(s)
         /\ ConnState' = [ConnState EXCEPT ![<<s, turn[s]>>] = Becomes(s)]
         /\ found' = IF ~Here(s) /\ Here(s)' THEN [found EXCEPT ![<<s, turn[s]>>] = Row] ELSE found
  <1> DEFINE c == <<s, turn[s]>>
  <1>0. c \in Conns /\ turn[s] \in Nat
    BY HostAssumption DEF Conns, Turns
  <1>1. ASSUME NEW d \in Conns, d # c
        PROVE  Seen(d[1], d[2])' = Seen(d[1], d[2]) /\ found'[d] = found[d]
    <2>1. PICK t \in Streams, i \in Turns : d = <<t, i>>
      BY DEF Conns
    <2>2. t # s \/ i # turn[s]
      BY <1>1, <2>1
    <2>3. Seen(t, i)' = Seen(t, i) /\ found'[<<t, i>>] = found[<<t, i>>]
      BY <2>2, Cells DEF Still
    <2>4. QED
      BY <2>1, <2>3
  <1>2. /\ Seen(s, turn[s]) = Was(s)
        /\ ConnState[c] = Seen(s, turn[s])
    BY <1>0, Cells DEF ConnState
  <1>3. PICK i \in Turns : i = turn[s]
    OBVIOUS
  <1>4. Seen(s, i)' = Becomes(s) /\ found'[<<s, i>>] = IF ~Here(s) /\ Here(s)' THEN Row ELSE found[<<s, i>>]
    BY <1>0, <1>3, Cells
  <1>5. ConnState' = [d \in Conns |-> Seen(d[1], d[2])']
    BY DEF ConnState
  <1>6. ConnState' = [d \in Conns |-> IF d = c THEN Becomes(s) ELSE ConnState[d]]
    <2>1. ASSUME NEW d \in Conns
          PROVE  Seen(d[1], d[2])' = IF d = c THEN Becomes(s) ELSE ConnState[d]
      <3>1. CASE d = c
        <4>1. d = <<s, i>>
          BY <1>3, <3>1
        <4>2. Seen(d[1], d[2])' = Seen(s, i)'
          BY <4>1
        <4>3. QED
          BY <1>4, <3>1, <4>2
      <3>2. CASE d # c
        BY <1>1, <3>2 DEF ConnState
      <3>3. QED
        BY <3>1, <3>2
    <2>2. QED
      BY <1>5, <2>1
  <1>7. found' = [d \in Conns |-> found'[d]] /\ found = [d \in Conns |-> found[d]]
    <2>1. DOMAIN found' = Conns /\ found' = [d \in DOMAIN found' |-> found'[d]]
      BY DEF AtNext
    <2>2. QED
      BY <2>1 DEF HistoryInv
  <1>8. ConnState' = [ConnState EXCEPT ![c] = Becomes(s)]
    BY <1>6 DEF ConnState
  <1>9. found' = IF ~Here(s) /\ Here(s)' THEN [found EXCEPT ![c] = Row] ELSE found
    BY <1>0, <1>1, <1>3, <1>4, <1>7
  <1>10. QED
    BY <1>0, <1>2, <1>8, <1>9

-----------------------------------------------------------------------------
(* The tunnel and the registry.                                             *)

(* The hostname's tunnel comes and goes in steps no stream takes part in. *)
LEMMA RowSteps ==
  ASSUME Typing, [Next]_vars, Taken' # Taken
  PROVE  UNCHANGED <<memory, stream>>
  <1> USE ConstantsAssumption, HostAssumption DEF Typing, TypeOK, Taken, HasTunnelAt
  <1>0. ASSUME NEW n \in Names, \/ \E state \in {"running", "stopped"} : SetTunnelDesiredState(n, state)
                                \/ \E state \in {"running", "offline"} : UpdateTunnelStateByName(n, state)
                                \/ \E a \in Agents \cup {None} : AssignTunnelToAgent(n, a)
        PROVE  Taken' = Taken
    <2>1. CASE tunnels[n] = None
      BY <1>0, <2>1 DEF SetTunnelDesiredState, UpdateTunnelStateByName, AssignTunnelToAgent
    <2>2. CASE tunnels[n] # None
      <3>1. PICK r : tunnels' = [tunnels EXCEPT ![n] = r] /\ r \in Tunnel /\ r.host = tunnels[n].host
        BY <1>0, <2>2 DEF SetTunnelDesiredState, UpdateTunnelStateByName, AssignTunnelToAgent, Tunnel
      <3>2. \A k \in Names : HasTunnelAt(k)' = HasTunnelAt(k)
        BY <2>2, <3>1, ConnsAssumption
      <3>3. QED
        BY <3>2
    <2>3. QED
      BY <2>1, <2>2
  <1>1. ASSUME UNCHANGED tunnels PROVE FALSE
    BY <1>1
  <1>2. ASSUME NEW s \in Streams, Handler(s) PROVE FALSE
    <2>1. CASE WriteDesired(s) \/ WriteRunning(s) \/ WriteTunnelOffline(s)
      <3>1. name[s] \in Names
        BY <2>1 DEF WriteDesired, WriteRunning, WriteTunnelOffline, SessionOK
      <3>2. QED
        BY <2>1, <3>1, <1>0, <1>1 DEF WriteDesired, WriteRunning, WriteTunnelOffline, TeardownContext
    <2>2. CASE ~(WriteDesired(s) \/ WriteRunning(s) \/ WriteTunnelOffline(s))
      BY <1>1, <1>2, <2>2 DEF Handler, Authenticate, LookupTunnel, Claim, HostnameConflict,
                  WriteConnected, SendAck, RecvError, CloseConn, Unregister, WriteAgentOffline
    <2>3. QED
      BY <2>1, <2>2
  <1>3. ASSUME NEW s \in Streams, Client(s) PROVE FALSE
    BY <1>1, <1>3 DEF Client, ClientGone, Open
  <1>4. ASSUME NEW m \in Admins, AdminStep(m) PROVE UNCHANGED <<memory, stream>>
    <2>1. task[m] # None /\ task[m] \in Task
      BY <1>4 DEF AdminStep, DeleteRow, UiDisconnect, DoStart, DoStop, ReportStop, DoAssign, Cancel, Doing
    <2>2. CASE UiDisconnect(m) \/ Cancel(m)
      BY <1>1, <2>2 DEF UiDisconnect, Cancel
    <2>3. QED
      BY <1>4, <2>2 DEF AdminStep, DeleteRow, DoStart, DoStop, ReportStop, DoAssign
  <1>5. ASSUME ControlPlane PROVE UNCHANGED <<memory, stream>>
    BY <1>1, <1>4, <1>5 DEF ControlPlane, CreateAgent, RevokeAgent, CreateTunnel, Disconnect, AdminBegin,
          BeginDelete, BeginUiDelete, BeginStart, BeginStop, BeginAssign, Begin
  <1>6. CASE Restart \/ UNCHANGED vars
    BY <1>1, <1>6 DEF Restart, vars
  <1>7. QED
    BY <1>2, <1>3, <1>5, <1>6 DEF Next

LEMMA RowStays ==
  ASSUME AtNext, Taken' = Taken
  PROVE  Row' = Row /\ nextId' = nextId
  BY DEF AtNext, Row

(* The registered connection is the present one of its stream. *)
LEMMA RegisteredIs ==
  ASSUME Typing, RegistryInv, NEW s \in Streams, registry[Host] = s
  PROVE  /\ Here(s) /\ pc[s] \in Claimed
         /\ Registered = <<s, turn[s]>>
  BY ConstantsAssumption, HostAssumption
  DEF Here, RegistryInv, EntryHasHandler, Registered, Claimed, Holding, Startup, Teardown

LEMMA RegisteredNext ==
  ASSUME Typing', RegistryInv', AtNext
  PROVE  Registered' = IF registry'[Host] = None THEN None ELSE <<registry'[Host], turn[registry'[Host]]>>
  <1>1. CASE registry'[Host] = None
    BY <1>1 DEF Registered
  <1>2. CASE registry'[Host] # None
    <2>1. PICK s \in Streams : registry'[Host] = s
      BY <1>2, HostAssumption DEF Typing, TypeOK
    <2>2. Here(s)'
      BY <2>1, ConstantsAssumption, HostAssumption DEF Here, RegistryInv, EntryHasHandler
    <2>3. turn'[s] = turn[s]
      BY <2>2 DEF AtNext
    <2>4. QED
      BY <1>2, <2>1, <2>3 DEF Registered
  <1>3. QED
    BY <1>1, <1>2

LEMMA RegisteredStays ==
  ASSUME Typing', RegistryInv', AtNext, registry'[Host] = registry[Host]
  PROVE  Registered' = Registered
  BY RegisteredNext DEF Registered

-----------------------------------------------------------------------------
(* The steps, by what they do to the connections.                           *)

(* Facts of the states before and after a step. *)
Known == Typing /\ RegistryInv /\ HistoryInv /\ Typing' /\ RegistryInv' /\ HistoryInv'

LEMMA Untouched ==
  ASSUME NEW s \in Streams, pc'[s] = pc[s], host'[s] = host[s], closed'[s] = closed[s] \/ ~Here(s)
  PROVE  Still(s)
  BY DEF Still, Was, Becomes, Here, StateOf

(* Only a lookup, a refusal or a step of the registry can be seen. *)
LEMMA QuietSteps ==
  ASSUME Known, AtNext, Quiet, ~Restart
  PROVE  \/ \A s \in Streams : Still(s)
         \/ \E s \in Streams : LookupTunnel(s) /\ ~Here(s) /\ Here(s)'
         \/ \E s \in Streams : HostnameConflict(s) /\ Here(s) /\ ~Here(s)'
  <1>1. ASSUME NEW s \in Streams, Here(s)' = Here(s) PROVE Still(s)
    <2>1. CASE ~Here(s)
      BY <1>1, <2>1 DEF Still, Was, Becomes
    <2>2. CASE Here(s) /\ pc[s] \in Claimed
      BY <1>1, <2>2 DEF Quiet, memory, Still, Was, Becomes, StateOf, Claimed, Startup, Teardown
    <2>3. CASE Here(s) /\ pc[s] = "claim"
      <3>1. pc'[s] = "claim"
        BY <1>1, <2>3 DEF Known, HistoryInv, Quiet, Claimed, Startup, Teardown
      <3>2. QED
        BY <1>1, <2>3, <3>1 DEF Still, Was, Becomes, StateOf
    <2>4. QED
      BY <2>1, <2>2, <2>3 DEF Known, HistoryInv
  <1>2. ASSUME NEW s \in Streams, Here(s)' # Here(s)
        PROVE  \/ LookupTunnel(s) /\ ~Here(s) /\ Here(s)'
               \/ HostnameConflict(s) /\ Here(s) /\ ~Here(s)'
    <2>1. [Next]_vars /\ Typing
      BY DEF AtNext, Known
    <2>2. CASE ~Here(s) /\ Here(s)'
      BY <2>1, <2>2, HereSteps
    <2>3. CASE Here(s) /\ ~Here(s)'
      <3>1. pc[s] \in {"claim"} \cup Claimed /\ pc[s] \in {"idle"} \cup Admission \cup Claimed
        BY <2>3 DEF Known, HistoryInv, Typing, TypeOK
      <3>2. ~(Authenticate(s) \/ LookupTunnel(s))
        BY <3>1 DEF Authenticate, LookupTunnel, Claimed, Startup, Teardown
      <3>3. pc[s] \notin Claimed
        BY <2>3 DEF Quiet, Here
      <3>4. ~WriteTunnelOffline(s)
        BY <3>3 DEF WriteTunnelOffline, Claimed, Teardown
      <3>5. HostnameConflict(s)
        BY <2>1, <2>3, <3>2, <3>4, HereSteps
      <3>6. QED
        BY <2>3, <3>5
    <2>4. QED
      BY <1>2, <2>2, <2>3 DEF Here
  <1>3. QED
    BY <1>1, <1>2

LEMMA SilentStep ==
  ASSUME Known, AtNext, Taken' = Taken, registry'[Host] = registry[Host], \A s \in Streams : Still(s)
  PROVE  UNCHANGED HostSeen!connVars
  BY RowStays, NoConn, RegisteredStays DEF Known, HostSeen!connVars, HostSeen!conns

(* A stream at the hostname, or come to it, has a connection to number. *)
LEMMA HasTurn ==
  ASSUME Known, AtNext, NEW s \in Streams, Here(s) \/ Here(s)'
  PROVE  turn[s] \in Turns
  <1>1. turn[s] \in Nat /\ turn[s] < MaxTurns
    BY HostAssumption DEF Known, HistoryInv, AtNext
  <1>2. QED
    BY <1>1, HostAssumption DEF Turns

LEMMA LookupStep ==
  ASSUME Known, AtNext, Taken' = Taken,
         NEW s \in Streams, LookupTunnel(s), ~Here(s), Here(s)'
  PROVE  \E c \in Conns : HostSeen!FindTunnel(c)
  <1> USE DEF Known, Typing, TypeOK
  <1>1. /\ AssignedTo(name[s], agent[s]) /\ pc[s] = "lookup"
        /\ host' = [host EXCEPT ![s] = tunnels[name[s]].host] /\ pc' = [pc EXCEPT ![s] = "claim"]
        /\ UNCHANGED memory
    BY HostAssumption, ConstantsAssumption DEF LookupTunnel, Return, Goto, Here
  <1>2. Taken /\ Row # None
    <2>1. name[s] \in Names
      BY <1>1 DEF SessionOK
    <2>2. tunnels[name[s]].host = Host
      BY <1>1 DEF Here
    <2>3. Taken
      BY <1>1, <2>1, <2>2 DEF Taken, HasTunnelAt, AssignedTo
    <2>4. nextId - 1 \in Nat
      BY DEF HistoryInv
    <2>5. QED
      BY <2>3, <2>4, ConnsAssumption DEF Row
  <1>3. Was(s) = "new" /\ Becomes(s) = "found"
    BY <1>1 DEF Was, Becomes, StateOf
  <1>4. ASSUME NEW t \in Streams \ {s} PROVE Still(t)
    BY <1>1, Untouched DEF memory
  <1>5. registry' = registry
    BY <1>1 DEF memory
  <1>6. turn[s] \in Turns
    BY HasTurn
  <1>7. PICK c \in Conns : c = <<s, turn[s]>>
    BY <1>6 DEF Conns
  <1>8. /\ ConnState[c] = "new"
        /\ ConnState' = [ConnState EXCEPT ![c] = "found"]
        /\ found' = [found EXCEPT ![c] = Row]
    BY <1>3, <1>4, <1>6, <1>7, OneConn
  <1>9. UNCHANGED <<Row, nextId, Registered>>
    BY <1>5, RowStays, RegisteredStays
  <1>10. HostSeen!FindTunnel(c)
    BY <1>2, <1>8, <1>9 DEF HostSeen!FindTunnel
  <1>11. QED
    BY <1>10

(* The part of RegisterIfAbsent that a stream at the hostname sees. *)
LEMMA ClaimStep ==
  ASSUME Known, AtNext, Taken' = Taken, NEW s \in Streams, Here(s), Claim(s)
  PROVE  \E c \in Conns : HostSeen!Register(c)
  <1> USE DEF Known, Typing, TypeOK
  <1>1. /\ pc[s] = "claim" /\ registry[Host] = None /\ registry'[Host] = s
        /\ closed' = [closed EXCEPT ![s] = FALSE] /\ pc' = [pc EXCEPT ![s] = "touch"] /\ host' = host
    BY HostAssumption DEF Claim, RegisterIfAbsent, Goto, Here
  <1>2. Was(s) = "found" /\ Becomes(s) = "open" /\ Here(s)'
    BY <1>1 DEF Was, Becomes, StateOf, Here
  <1>3. ASSUME NEW t \in Streams \ {s} PROVE Still(t)
    BY <1>1, Untouched
  <1>4. turn[s] \in Turns
    BY HasTurn
  <1>5. PICK c \in Conns : c = <<s, turn[s]>>
    BY <1>4 DEF Conns
  <1>6. /\ ConnState[c] = "found"
        /\ ConnState' = [ConnState EXCEPT ![c] = "open"]
        /\ found' = found
    BY <1>2, <1>3, <1>4, <1>5, OneConn
  <1>7. Registered = None
    BY <1>1 DEF Registered
  <1>8. Registered' = c
    BY <1>1, <1>5, RegisteredNext, ConstantsAssumption
  <1>9. UNCHANGED <<Row, nextId>>
    BY RowStays
  <1>10. HostSeen!Register(c)
    BY <1>6, <1>7, <1>8, <1>9 DEF HostSeen!Register
  <1>11. QED
    BY <1>10

(* The stream is refused because another one is registered. *)
LEMMA ConflictStep ==
  ASSUME Known, AtNext, Taken' = Taken, NEW s \in Streams, Here(s), ~Here(s)', HostnameConflict(s)
  PROVE  \E c \in Conns : HostSeen!Register(c)
  <1> USE DEF Known, Typing, TypeOK
  <1>1. /\ pc[s] = "claim" /\ registry[Host] # None /\ UNCHANGED memory
        /\ pc' = [pc EXCEPT ![s] = "idle"] /\ host' = [host EXCEPT ![s] = None]
    BY DEF HostnameConflict, Return, Goto, Here
  <1>2. Was(s) = "found" /\ Becomes(s) = "closed"
    BY <1>1 DEF Was, Becomes, StateOf
  <1>3. ASSUME NEW t \in Streams \ {s} PROVE Still(t)
    BY <1>1, Untouched DEF memory
  <1>4. turn[s] \in Turns
    BY HasTurn
  <1>5. PICK c \in Conns : c = <<s, turn[s]>>
    BY <1>4 DEF Conns
  <1>6. /\ ConnState[c] = "found"
        /\ ConnState' = [ConnState EXCEPT ![c] = "closed"]
        /\ found' = found
    BY <1>2, <1>3, <1>4, <1>5, OneConn
  <1>7. Registered # None
    <2>1. PICK t \in Streams : registry[Host] = t
      BY <1>1, HostAssumption
    <2>2. turn[t] \in Turns /\ Registered = <<t, turn[t]>>
      BY <2>1, RegisteredIs, HasTurn
    <2>3. QED
      BY <2>2, ConnsAssumption DEF Conns
  <1>8. UNCHANGED <<Row, nextId, Registered>>
    BY <1>1, RowStays, RegisteredStays DEF memory
  <1>9. HostSeen!Register(c)
    BY <1>6, <1>7, <1>8 DEF HostSeen!Register
  <1>10. QED
    BY <1>9

(* A handler between two points after its registration, its conn closed. *)
LEMMA ClosedStill ==
  ASSUME NEW s \in Streams, pc[s] \in Claimed, pc'[s] \in Claimed, closed[s], closed'[s], host'[s] = host[s]
  PROVE  Still(s)
  BY DEF Still, Was, Becomes, Here, StateOf, Claimed, Startup, Teardown

(* conn.Close at the head of a teardown: the conn may be closed already. *)
LEMMA CloseStep ==
  ASSUME Known, AtNext, Taken' = Taken, NEW s \in Streams, CloseConn(s)
  PROVE  (\E c \in Conns : HostSeen!CloseConn(c)) \/ UNCHANGED HostSeen!connVars
  <1> USE DEF Known, Typing, TypeOK
  <1>1. /\ pc[s] = "close" /\ registry' = registry /\ host' = host
        /\ closed' = [closed EXCEPT ![s] = TRUE] /\ pc' = [pc EXCEPT ![s] = "unregister"]
    BY DEF CloseConn, Goto
  <1>2. ASSUME NEW t \in Streams \ {s} PROVE Still(t)
    BY <1>1, Untouched
  <1>3. CASE Here(s) /\ ~closed[s]
    <2>1. Was(s) = "open" /\ Becomes(s) = "closed" /\ Here(s)'
      BY <1>1, <1>3 DEF Was, Becomes, StateOf, Here
    <2>2. turn[s] \in Turns
      BY <1>3, HasTurn
    <2>3. PICK c \in Conns : c = <<s, turn[s]>>
      BY <2>2 DEF Conns
    <2>4. /\ ConnState[c] = "open"
          /\ ConnState' = [ConnState EXCEPT ![c] = "closed"]
          /\ found' = found
      BY <1>2, <1>3, <2>1, <2>2, <2>3, OneConn
    <2>5. UNCHANGED <<Row, nextId, Registered>>
      BY <1>1, RowStays, RegisteredStays
    <2>6. HostSeen!CloseConn(c)
      BY <2>4, <2>5 DEF HostSeen!CloseConn
    <2>7. QED
      BY <2>6
  <1>4. CASE ~Here(s) \/ closed[s]
    <2>1. Still(s)
      BY <1>1, <1>4 DEF Still, Was, Becomes, Here, StateOf
    <2>2. QED
      BY <1>1, <1>2, <2>1, SilentStep
  <1>5. QED
    BY <1>3, <1>4

(* A removal by hostname, whoever's teardown or Disconnect does it. *)
LEMMA RemoveStep ==
  ASSUME Known, AtNext, Taken' = Taken, NEW h \in Hosts, Remove(h), host' = host,
         \A s \in Streams : \/ pc'[s] = pc[s]
                            \/ pc[s] \in Claimed /\ pc'[s] \in Claimed /\ closed[s]
  PROVE  HostSeen!Unregister \/ UNCHANGED HostSeen!connVars
  <1> USE DEF Known, Typing, TypeOK
  <1>1. /\ registry' = [registry EXCEPT ![h] = None]
        /\ \A s \in Streams : closed'[s] = (closed[s] \/ s = registry[h])
    BY DEF Remove
  <1>2. ASSUME NEW s \in Streams, closed'[s] = closed[s] \/ ~Here(s) PROVE Still(s)
    <2>1. CASE pc'[s] = pc[s]
      BY <1>2, <2>1, Untouched
    <2>2. CASE pc[s] \in Claimed /\ pc'[s] \in Claimed /\ closed[s]
      BY <1>1, <2>2, ClosedStill
    <2>3. QED
      BY <2>1, <2>2
  <1>3. CASE h # Host
    <2>1. ASSUME NEW s \in Streams PROVE closed'[s] = closed[s] \/ ~Here(s)
      <3>1. CASE s = registry[h]
        BY <1>3, <3>1, ConstantsAssumption DEF RegistryInv, EntryHasHandler, Here
      <3>2. CASE s # registry[h]
        BY <1>1, <3>2
      <3>3. QED
        BY <3>1, <3>2
    <2>2. registry'[Host] = registry[Host]
      BY <1>1, <1>3, HostAssumption
    <2>3. QED
      BY <1>2, <2>1, <2>2, SilentStep
  <1>4. CASE h = Host /\ registry[Host] = None
    <2>1. ASSUME NEW s \in Streams PROVE Still(s)
      BY <1>1, <1>2, <1>4, ConstantsAssumption
    <2>2. registry'[Host] = registry[Host]
      BY <1>1, <1>4
    <2>3. QED
      BY <2>1, <2>2, SilentStep
  <1>5. CASE h = Host /\ registry[Host] # None
    <2>1. PICK r \in Streams : registry[Host] = r
      BY <1>5, HostAssumption
    <2>2. Here(r) /\ pc[r] \in Claimed /\ Registered = <<r, turn[r]>>
      BY <2>1, RegisteredIs
    <2>3. Here(r)' /\ Becomes(r) = "closed"
      <3>1. Here(r)' /\ closed'[r] /\ pc'[r] \in Claimed
        BY <1>1, <1>5, <2>1, <2>2 DEF Here
      <3>2. QED
        BY <3>1 DEF Becomes, StateOf, Claimed, Startup, Teardown
    <2>4. ASSUME NEW s \in Streams \ {r} PROVE Still(s)
      BY <1>1, <1>2, <1>5, <2>1
    <2>5. turn[r] \in Turns
      BY <2>2, HasTurn
    <2>6. /\ <<r, turn[r]>> \in Conns
          /\ ConnState' = [ConnState EXCEPT ![<<r, turn[r]>>] = "closed"]
          /\ found' = found
      BY <2>2, <2>3, <2>4, <2>5, OneConn
    <2>7. Registered # None /\ ConnState' = [ConnState EXCEPT ![Registered] = "closed"]
      BY <2>2, <2>6, ConnsAssumption
    <2>8. Registered' = None
      BY <1>1, <1>5 DEF Registered
    <2>9. UNCHANGED <<Row, nextId>>
      BY RowStays
    <2>10. QED
      BY <2>6, <2>7, <2>8, <2>9 DEF HostSeen!Unregister
  <1>6. QED
    BY <1>3, <1>4, <1>5

(* The end of a teardown, when the conn has long been closed. *)
LEMMA OfflineStep ==
  ASSUME Known, AtNext, Taken' = Taken, NEW s \in Streams, WriteTunnelOffline(s)
  PROVE  UNCHANGED HostSeen!connVars
  <1> USE DEF Known, Typing, TypeOK
  <1>1. /\ pc[s] = "tunnelOffline" /\ UNCHANGED memory
        /\ pc' = [pc EXCEPT ![s] = "idle"] /\ host' = [host EXCEPT ![s] = None]
    BY DEF WriteTunnelOffline, Return, Goto
  <1>2. closed[s]
    BY <1>1 DEF RegistryInv, OpenIsRegistered, Holding, Startup
  <1>3. Still(s)
    BY <1>1, <1>2, HostAssumption, ConstantsAssumption DEF Still, Was, Becomes, Here, StateOf
  <1>4. ASSUME NEW t \in Streams \ {s} PROVE Still(t)
    BY <1>1, Untouched DEF memory
  <1>5. QED
    BY <1>1, <1>3, <1>4, SilentStep DEF memory

(* Every stream ends with the process. *)
LEMMA RestartStep ==
  ASSUME Known, AtNext, Taken' = Taken, Restart
  PROVE  HostSeen!DropAll
  <1> USE HostAssumption, ConstantsAssumption
  <1>1. ASSUME NEW s \in Streams
        PROVE  ~Here(s)' /\ Becomes(s) = IF Here(s) THEN "closed" ELSE "new"
    BY DEF Restart, Here, Becomes
  <1>2. ASSUME NEW s \in Streams, NEW i \in Turns
        PROVE  Seen(s, i)' = IF Seen(s, i) = "new" THEN "new" ELSE "closed"
    <2>1. turn[s] \in Nat /\ i \in Nat
      BY DEF Known, HistoryInv, Turns
    <2>2. Was(s) = "new" <=> ~Here(s)
      BY DEF Was, StateOf
    <2>3. QED
      BY <1>1, <2>1, <2>2, Cells DEF Known
  <1>3. ConnState' = [c \in Conns |-> IF ConnState[c] = "new" THEN "new" ELSE "closed"]
    <2>1. ConnState' = [c \in Conns |-> Seen(c[1], c[2])']
      BY DEF ConnState
    <2>2. ASSUME NEW c \in Conns
          PROVE  Seen(c[1], c[2])' = IF ConnState[c] = "new" THEN "new" ELSE "closed"
      <3>1. PICK s \in Streams, i \in Turns : c = <<s, i>>
        BY DEF Conns
      <3>2. Seen(s, i)' = IF Seen(s, i) = "new" THEN "new" ELSE "closed"
        BY <1>2
      <3>3. QED
        BY <3>1, <3>2 DEF ConnState
    <2>3. QED
      BY <2>1, <2>2
  <1>4. found' = found
    <2>1. ASSUME NEW c \in Conns PROVE found'[c] = found[c]
      <3>1. PICK s \in Streams, i \in Turns : c = <<s, i>>
        BY DEF Conns
      <3>2. found'[<<s, i>>] = found[<<s, i>>]
        BY <1>1, Cells DEF Known
      <3>3. QED
        BY <3>1, <3>2
    <2>2. QED
      BY <2>1 DEF AtNext, Known, HistoryInv
  <1>5. Registered' = None
    BY DEF Restart, Registered
  <1>6. UNCHANGED <<Row, nextId>>
    BY RowStays
  <1>7. QED
    BY <1>3, <1>4, <1>5, <1>6 DEF HostSeen!DropAll

-----------------------------------------------------------------------------
LEMMA NextConns == Known /\ [AtNext]_atVars => [HostSeen!ConnNext]_(HostSeen!connVars)
  <1> SUFFICES ASSUME Known, [AtNext]_atVars
               PROVE  HostSeen!ConnNext \/ UNCHANGED HostSeen!connVars
    OBVIOUS
  <1> USE DEF HostSeen!ConnNext, HostSeen!Serve
  <1>1. CASE UNCHANGED atVars
    BY <1>1 DEF atVars, history, vars, memory, stream, HostSeen!connVars, HostSeen!conns,
                Row, Taken, HasTunnelAt, Registered, ConnState, Seen, Here, StateOf
  <1>2. CASE AtNext /\ Taken' # Taken
    <2>1. UNCHANGED <<memory, stream>>
      BY <1>2, RowSteps DEF AtNext, Known
    <2>2. UNCHANGED <<registry, closed, pc, host>>
      BY <2>1 DEF memory, stream
    <2>3. ASSUME NEW s \in Streams PROVE Still(s)
      BY <2>2, Untouched
    <2>4. ConnState' = ConnState /\ found' = found /\ Registered' = Registered
      BY <1>2, <2>2, <2>3, NoConn, RegisteredStays DEF Known
    <2>5. nextId \in Nat \ {0}
      BY DEF Known, HistoryInv
    <2>6. CASE Taken'
      <3>1. ~Taken
        BY <1>2, <2>6 DEF Taken
      <3>2. nextId' = nextId + 1 /\ Row = None /\ Row' = nextId
        BY <1>2, <2>5, <2>6, <3>1 DEF AtNext, Row
      <3>3. HostSeen!NewTunnel
        BY <2>4, <3>2 DEF HostSeen!NewTunnel, HostSeen!conns
      <3>4. QED
        BY <3>3
    <2>7. CASE ~Taken'
      <3>1. Taken
        BY <1>2, <2>7 DEF Taken
      <3>2. nextId' = nextId /\ Row = nextId - 1 /\ Row' = None
        BY <1>2, <2>7, <3>1 DEF AtNext, Row
      <3>3. Row # None
        BY <2>5, <3>2, ConnsAssumption
      <3>4. HostSeen!DropTunnel
        BY <2>4, <3>2, <3>3 DEF HostSeen!DropTunnel, HostSeen!conns
      <3>5. QED
        BY <3>4
    <2>8. QED
      BY <2>6, <2>7
  <1>3. CASE AtNext /\ Taken' = Taken
    <2>1. CASE Restart
      BY <1>3, <2>1, RestartStep
    <2>2. CASE Quiet /\ ~Restart
      <3>1. CASE \A s \in Streams : Still(s)
        BY <1>3, <2>2, <3>1, SilentStep DEF Quiet, memory
      <3>2. ASSUME NEW s \in Streams, LookupTunnel(s), ~Here(s), Here(s)'
            PROVE  HostSeen!ConnNext
        BY <1>3, <3>2, LookupStep
      <3>3. ASSUME NEW s \in Streams, HostnameConflict(s), Here(s), ~Here(s)'
            PROVE  HostSeen!ConnNext
        BY <1>3, <3>3, ConflictStep
      <3>4. QED
        BY <1>3, <2>2, <3>1, <3>2, <3>3, QuietSteps
    <2>3. ASSUME NEW s \in Streams, Claim(s)
          PROVE  HostSeen!ConnNext \/ UNCHANGED HostSeen!connVars
      <3>1. CASE Here(s)
        BY <1>3, <2>3, <3>1, ClaimStep
      <3>2. CASE ~Here(s)
        <4>1. /\ host[s] \in Hosts /\ host[s] # Host /\ host' = host
              /\ registry' = [registry EXCEPT ![host[s]] = s]
              /\ closed' = [closed EXCEPT ![s] = FALSE] /\ pc' = [pc EXCEPT ![s] = "touch"]
          BY <2>3, <3>2 DEF Claim, RegisterIfAbsent, Goto, Here, Known, Typing, SessionOK
        <4>2. Still(s)
          BY <3>2, <4>1 DEF Still, Was, Becomes, Here
        <4>3. ASSUME NEW t \in Streams \ {s} PROVE Still(t)
          BY <4>1, Untouched DEF Known, Typing, TypeOK
        <4>4. registry'[Host] = registry[Host]
          BY <4>1, HostAssumption DEF Known, Typing, TypeOK
        <4>5. QED
          BY <1>3, <4>2, <4>3, <4>4, SilentStep
      <3>3. QED
        BY <3>1, <3>2
    <2>4. ASSUME NEW s \in Streams, CloseConn(s)
          PROVE  HostSeen!ConnNext \/ UNCHANGED HostSeen!connVars
      BY <1>3, <2>4, CloseStep
    <2>5. ASSUME NEW s \in Streams, Unregister(s)
          PROVE  HostSeen!ConnNext \/ UNCHANGED HostSeen!connVars
      <3>1. /\ host[s] \in Hosts /\ Remove(host[s]) /\ host' = host
            /\ pc[s] = "unregister" /\ pc' = [pc EXCEPT ![s] = "agentOffline"]
        BY <2>5 DEF Unregister, Goto, Known, Typing, SessionOK, Claimed, Teardown
      <3>2. closed[s]
        BY <3>1 DEF Known, RegistryInv, OpenIsRegistered, Typing, TypeOK
      <3>3. \A t \in Streams : \/ pc'[t] = pc[t]
                               \/ pc[t] \in Claimed /\ pc'[t] \in Claimed /\ closed[t]
        BY <3>1, <3>2 DEF Known, Typing, TypeOK, Claimed, Teardown
      <3>4. QED
        BY <1>3, <3>1, <3>3, RemoveStep
    <2>6. ASSUME NEW s \in Streams, WriteTunnelOffline(s) PROVE UNCHANGED HostSeen!connVars
      BY <1>3, <2>6, OfflineStep
    <2>7. ASSUME NEW h \in Hosts, Remove(h), UNCHANGED stream
          PROVE  HostSeen!ConnNext \/ UNCHANGED HostSeen!connVars
      BY <1>3, <2>7, RemoveStep DEF stream
    <2>8. Quiet \/ Noticed
      BY <1>3, StepKinds DEF AtNext, Known
    <2>9. QED
      BY <2>1, <2>2, <2>3, <2>4, <2>5, <2>6, <2>7, <2>8 DEF Noticed
  <1>4. QED
    BY <1>1, <1>2, <1>3

LEMMA InitConns == AtInit => HostSeen!ConnInit
  <1> SUFFICES ASSUME AtInit PROVE HostSeen!ConnInit
    OBVIOUS
  <1> USE HostAssumption, ConstantsAssumption
  <1>1. Row = None /\ Registered = None /\ nextId = 1 /\ found = [c \in Conns |-> None]
    BY DEF AtInit, Init, Row, Taken, HasTunnelAt, Registered
  <1>2. ASSUME NEW s \in Streams, NEW i \in Turns PROVE Seen(s, i) = "new"
    BY DEF AtInit, Init, Seen, Here, Turns
  <1>3. ConnState = [c \in Conns |-> "new"]
    BY <1>2 DEF ConnState, Conns
  <1>4. QED
    BY <1>1, <1>3 DEF HostSeen!ConnInit

(* The streams of a server, its registry and its control plane do to a hostname
   nothing but what Ingress assumes of it: whatever streams end, whichever of
   them removes another's entry, and whenever the process is restarted. *)
THEOREM SessionsServeAsAssumed == AtSpec => ServesAsAssumed
  <1>1. AtSpec => [](Typing /\ RegistryInv)
    <2>1. AtInit => Init
      BY DEF AtInit
    <2>2. [AtNext]_atVars => [Next]_vars
      BY DEF AtNext, atVars
    <2>3. AtSpec => Spec
      BY <2>1, <2>2, PTL DEF AtSpec, Spec
    <2>4. QED
      BY <2>3, RegistryAlways, PTL
  <1>2. AtSpec => []HistoryInv
    BY <1>1, InitHistory, NextHistory, PTL DEF AtSpec
  <1>3. Typing /\ RegistryInv /\ HistoryInv /\ (Typing /\ RegistryInv)' /\ HistoryInv' => Known
    BY DEF Known
  <1>4. QED
    BY <1>1, <1>2, <1>3, NextConns, InitConns, PTL DEF AtSpec, ServesAsAssumed, HostSeen!ConnSpec
=============================================================================
