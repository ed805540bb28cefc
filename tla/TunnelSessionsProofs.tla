------------------------ MODULE TunnelSessionsProofs ------------------------
(***************************************************************************)
(* Theorems about TunnelSessions, for every number of streams, agents,     *)
(* tunnels, hostnames, admins and restarts.                                *)
(***************************************************************************)
EXTENDS TunnelSessions, TLAPS

(* What a stream knows by where its handler is: who it is and which tunnel it
   asked for from Open on, its hostname from the lookup on. *)
SessionOK ==
    \A s \in Streams :
        /\ pc[s] # "idle" => agent[s] \in Agents /\ name[s] \in Names
        /\ pc[s] \in {"claim"} \cup Claimed => host[s] \in Hosts

(* The argument a control-plane request carries. *)
TaskOK ==
    \A m \in Admins : task[m] # None =>
        /\ task[m].op = "uiDelete" => task[m].arg \in Hosts
        /\ task[m].op = "assign" => task[m].arg \in Agents \cup {None}

Typing == TypeOK /\ SessionOK /\ TaskOK

LEMMA InitTyping == Init => Typing
  BY ConstantsAssumption DEF Init, Typing, TypeOK, SessionOK, TaskOK, Status, Claimed, Startup, Teardown

(* The two UPDATEs of a tunnel's state keep the type of the table. *)
LEMMA StateWritesTyping ==
  ASSUME tunnels \in [Names -> Tunnel \cup {None}], NEW n \in Names,
         \/ \E state \in {"running", "stopped"} : SetTunnelDesiredState(n, state)
         \/ \E state \in {"running", "offline"} : UpdateTunnelStateByName(n, state)
  PROVE tunnels' \in [Names -> Tunnel \cup {None}]
  <1>1. CASE tunnels[n] = None
    BY <1>1 DEF SetTunnelDesiredState, UpdateTunnelStateByName
  <1>2. CASE tunnels[n] # None
    <2>1. tunnels[n] \in Tunnel
      BY <1>2
    <2>2. PICK row \in Tunnel : tunnels' = [tunnels EXCEPT ![n] = row]
      BY <1>2, <2>1 DEF SetTunnelDesiredState, UpdateTunnelStateByName, Tunnel
    <2>3. QED
      BY <2>2
  <1>3. QED
    BY <1>1, <1>2

LEMMA NextTyping == Typing /\ [Next]_vars => Typing'
  <1> USE DEF memory, stream, Goto
  <1> SUFFICES ASSUME Typing, [Next]_vars PROVE Typing'
    OBVIOUS
  <1>1. ASSUME NEW s \in Streams, Handler(s) PROVE Typing'
    <2>0. ASSUME Return(s), UNCHANGED <<memory, agentStatus, tunnels, task, crashes>> PROVE Typing'
      BY <2>0 DEF Return, Typing, TypeOK, SessionOK, TaskOK, Admission, Claimed, Startup, Teardown
    <2>1. CASE Authenticate(s)
      <3>1. CASE Goto(s, "lookup") /\ UNCHANGED <<memory, up, agent, name, host, agentStatus, tunnels, task, crashes>>
        <4>1. pc[s] = "auth"
          BY <2>1 DEF Authenticate
        <4>2. QED
          BY <3>1, <4>1 DEF Typing, TypeOK, SessionOK, TaskOK, Admission, Claimed, Startup, Teardown
      <3>2. QED
        BY <2>0, <2>1, <3>1 DEF Authenticate
    <2>2. CASE LookupTunnel(s)
      <3>1. CASE /\ AssignedTo(name[s], agent[s])
                 /\ host' = [host EXCEPT ![s] = tunnels[name[s]].host]
                 /\ Goto(s, "claim")
                 /\ UNCHANGED <<memory, up, agent, name, agentStatus, tunnels, task, crashes>>
        <4>1. pc[s] = "lookup"
          BY <2>2 DEF LookupTunnel
        <4>2. agent[s] \in Agents /\ name[s] \in Names
          BY <4>1 DEF Typing, SessionOK
        <4>3. tunnels[name[s]].host \in Hosts
          BY <3>1, <4>2 DEF AssignedTo, Typing, TypeOK, Tunnel
        <4>4. QED
          BY <3>1, <4>1, <4>2, <4>3 DEF Typing, TypeOK, SessionOK, TaskOK, Admission, Claimed, Startup, Teardown
      <3>2. QED
        BY <2>0, <2>2, <3>1 DEF LookupTunnel
    <2>3. CASE Claim(s)
      BY <2>3 DEF Claim, RegisterIfAbsent, Typing, TypeOK, SessionOK, TaskOK, Admission, Claimed, Startup, Teardown
    <2>4. CASE HostnameConflict(s)
      BY <2>0, <2>4 DEF HostnameConflict
    <2>5. CASE WriteConnected(s)
      BY <2>5 DEF WriteConnected, TouchAgent, ConnectedStatus, Typing, TypeOK, SessionOK, TaskOK, Status, Admission, Claimed, Startup, Teardown
    <2>6. CASE WriteDesired(s)
      <3>1. tunnels' \in [Names -> Tunnel \cup {None}]
        BY <2>6, StateWritesTyping DEF WriteDesired, Typing, TypeOK, SessionOK, Claimed, Startup
      <3>2. /\ pc[s] = "desire" /\ pc' = [pc EXCEPT ![s] = "report"]
            /\ UNCHANGED <<memory, up, agent, name, host, agentStatus, task, crashes>>
        BY <2>6 DEF WriteDesired
      <3>3. QED
        BY <3>1, <3>2 DEF Typing, TypeOK, SessionOK, TaskOK, Admission, Claimed, Startup, Teardown
    <2>7. CASE WriteRunning(s)
      <3>1. tunnels' \in [Names -> Tunnel \cup {None}]
        BY <2>7, StateWritesTyping DEF WriteRunning, Typing, TypeOK, SessionOK, Claimed, Startup
      <3>2. /\ pc[s] = "report" /\ pc' = [pc EXCEPT ![s] = "ack"]
            /\ UNCHANGED <<memory, up, agent, name, host, agentStatus, task, crashes>>
        BY <2>7 DEF WriteRunning
      <3>3. QED
        BY <3>1, <3>2 DEF Typing, TypeOK, SessionOK, TaskOK, Admission, Claimed, Startup, Teardown
    <2>8. CASE SendAck(s)
      BY <2>8 DEF SendAck, Typing, TypeOK, SessionOK, TaskOK, Admission, Claimed, Startup, Teardown
    <2>9. CASE RecvError(s)
      BY <2>9 DEF RecvError, Typing, TypeOK, SessionOK, TaskOK, Admission, Claimed, Startup, Teardown
    <2>10. CASE CloseConn(s)
      BY <2>10 DEF CloseConn, Typing, TypeOK, SessionOK, TaskOK, Admission, Claimed, Startup, Teardown
    <2>11. CASE Unregister(s)
      BY <2>11 DEF Unregister, Remove, Typing, TypeOK, SessionOK, TaskOK, Admission, Claimed, Startup, Teardown
    <2>12. CASE WriteAgentOffline(s)
      BY <2>12 DEF WriteAgentOffline, TouchAgent, TeardownContext, Typing, TypeOK, SessionOK, TaskOK, Status, Admission, Claimed, Startup, Teardown
    <2>13. CASE WriteTunnelOffline(s)
      BY <2>13 DEF WriteTunnelOffline, UpdateTunnelStateByName, TeardownContext, Return, Typing, TypeOK, SessionOK, TaskOK, Tunnel, Admission, Claimed, Startup, Teardown
    <2>14. QED
      BY <1>1, <2>1, <2>2, <2>3, <2>4, <2>5, <2>6, <2>7, <2>8, <2>9, <2>10, <2>11, <2>12, <2>13 DEF Handler
  <1>2. ASSUME NEW s \in Streams, Client(s) PROVE Typing'
    <2>1. CASE ClientGone(s)
      BY <2>1 DEF ClientGone, Typing, TypeOK, SessionOK, TaskOK, Admission, Claimed, Startup, Teardown
    <2>2. ASSUME NEW a \in Agents, NEW n \in Names, Open(s, a, n) PROVE Typing'
      BY <2>2 DEF Open, Typing, TypeOK, SessionOK, TaskOK, Admission, Claimed, Startup, Teardown
    <2>3. QED
      BY <1>2, <2>1, <2>2 DEF Client
  <1>3. ASSUME ControlPlane PROVE Typing'
    <2>1. ASSUME NEW a \in Agents, CreateAgent(a) \/ RevokeAgent(a) PROVE Typing'
      BY <2>1 DEF CreateAgent, RevokeAgent, InsertAgent, RevokeAgentByName, Typing, TypeOK, SessionOK, TaskOK, Status
    <2>2. ASSUME NEW n \in Names, NEW h \in Hosts, NEW a \in Agents \cup {None}, CreateTunnel(n, h, a)
          PROVE Typing'
      BY <2>2 DEF CreateTunnel, InsertTunnel, Typing, TypeOK, SessionOK, TaskOK, Tunnel
    <2>3. ASSUME NEW h \in Hosts, Disconnect(h) PROVE Typing'
      BY <2>3 DEF Disconnect, Remove, Typing, TypeOK, SessionOK, TaskOK
    <2>4. ASSUME NEW m \in Admins, AdminBegin(m) PROVE Typing'
      <3>1. PICK n \in Names : \/ BeginDelete(m, n) \/ BeginUiDelete(m, n) \/ BeginStart(m, n)
                               \/ BeginStop(m, n) \/ \E a \in Agents \cup {None} : BeginAssign(m, n, a)
        BY <2>4 DEF AdminBegin
      <3>2. PICK op \in {"delete", "uiDelete", "start", "stop", "assign"},
                 arg \in Hosts \cup Agents \cup {None} :
                 /\ Begin(m, op, n, arg)
                 /\ op = "uiDelete" => arg \in Hosts
                 /\ op = "assign" => arg \in Agents \cup {None}
        BY <3>1 DEF BeginDelete, BeginUiDelete, BeginStart, BeginStop, BeginAssign, Typing, TypeOK, Tunnel
      <3>3. task' \in [Admins -> Task \cup {None}]
        BY <3>2 DEF Begin, Typing, TypeOK, Task
      <3>4. TaskOK'
        BY <3>2 DEF Begin, Typing, TypeOK, TaskOK
      <3>5. QED
        BY <3>2, <3>3, <3>4 DEF Begin, Typing, TypeOK, SessionOK
    <2>5. ASSUME NEW m \in Admins, AdminStep(m) PROVE Typing'
      <3> USE DEF Doing, Finish, Continue, Task, Typing, TypeOK, SessionOK, TaskOK
      <3>1. CASE DeleteRow(m)
        BY <3>1 DEF DeleteRow
      <3>2. CASE UiDisconnect(m)
        BY <3>2 DEF UiDisconnect, Remove
      <3>3. CASE DoStart(m)
        BY <3>3 DEF DoStart, SetTunnelDesiredState, Tunnel
      <3>4. CASE DoStop(m)
        BY <3>4 DEF DoStop, SetTunnelDesiredState, Tunnel
      <3>5. CASE ReportStop(m)
        BY <3>5 DEF ReportStop, UpdateTunnelStateByName, Tunnel
      <3>6. CASE DoAssign(m)
        BY <3>6 DEF DoAssign, AssignTunnelToAgent, Tunnel
      <3>7. CASE Cancel(m)
        BY <3>7 DEF Cancel
      <3>8. QED
        BY <2>5, <3>1, <3>2, <3>3, <3>4, <3>5, <3>6, <3>7 DEF AdminStep
    <2>6. QED
      BY <1>3, <2>1, <2>2, <2>3, <2>4, <2>5 DEF ControlPlane
  <1>4. CASE Restart
    BY <1>4, ConstantsAssumption DEF Restart, Typing, TypeOK, SessionOK, TaskOK, Claimed, Startup, Teardown
  <1>5. CASE UNCHANGED vars
    BY <1>5 DEF vars, Typing, TypeOK, SessionOK, TaskOK
  <1>6. QED
    BY <1>1, <1>2, <1>3, <1>4, <1>5 DEF Next

(* Every variable keeps its type, and a handler never acts on a name, an agent
   or a hostname it has not yet read. *)
THEOREM TypeCorrect == Spec => []TypeOK
  <1>1. Spec => []Typing
    BY InitTyping, NextTyping, PTL DEF Spec
  <1>2. Typing => TypeOK
    BY DEF Typing
  <1>3. QED
    BY <1>1, <1>2, PTL

-----------------------------------------------------------------------------
(* The registry.  The three invariants about it are inductive together: an    *)
(* entry is removed with its connection closed because no other entry can be  *)
(* that connection's, which is EntryHasHandler.                               *)

RegistryInv == EntryHasHandler /\ OpenIsRegistered /\ RegisteredIsOpen

(* A step the registry does not notice: no handler enters or leaves the part
   of the code between RegisterIfAbsent and its return, passes its Unregister
   or the conn.Close before it. *)
Quiet ==
    /\ UNCHANGED memory
    /\ \A s \in Streams :
          \/ pc[s] \notin Claimed /\ pc'[s] \notin Claimed
          \/ /\ pc[s] \in Claimed /\ pc'[s] \in Claimed
             /\ host'[s] = host[s]
             /\ pc[s] \in Holding <=> pc'[s] \in Holding
             /\ pc[s] = "unregister" <=> pc'[s] = "unregister"

(* The steps it does notice. *)
Noticed ==
    \/ \E s \in Streams : Claim(s) \/ CloseConn(s) \/ Unregister(s) \/ WriteTunnelOffline(s)
    \/ \E h \in Hosts : Remove(h) /\ UNCHANGED stream
    \/ Restart

LEMMA StepKinds == Typing /\ [Next]_vars => Quiet \/ Noticed
  <1> USE DEF Quiet, memory, stream
  <1> SUFFICES ASSUME Typing, [Next]_vars PROVE Quiet \/ Noticed
    OBVIOUS
  <1>1. ASSUME NEW s \in Streams, Handler(s) PROVE Quiet \/ Noticed
    <2> USE DEF Goto, Return, Typing, TypeOK, Claimed, Holding, Startup, Teardown
    <2>1. CASE Authenticate(s) \/ LookupTunnel(s) \/ HostnameConflict(s)
      BY <2>1 DEF Authenticate, LookupTunnel, HostnameConflict
    <2>2. CASE WriteConnected(s) \/ WriteDesired(s) \/ WriteRunning(s)
      BY <2>2 DEF WriteConnected, WriteDesired, WriteRunning
    <2>3. CASE SendAck(s) \/ RecvError(s) \/ WriteAgentOffline(s)
      BY <2>3 DEF SendAck, RecvError, WriteAgentOffline
    <2>4. QED
      BY <1>1, <2>1, <2>2, <2>3 DEF Handler, Noticed
  <1>2. ASSUME NEW s \in Streams, Client(s) PROVE Quiet
    <2>1. CASE ClientGone(s)
      BY <2>1 DEF ClientGone, Typing, TypeOK
    <2>2. ASSUME NEW a \in Agents, NEW n \in Names, Open(s, a, n) PROVE Quiet
      BY <2>2 DEF Open, Goto, Typing, TypeOK, Claimed, Startup, Teardown
    <2>3. QED
      BY <1>2, <2>1, <2>2 DEF Client
  <1>3. ASSUME UNCHANGED <<memory, stream>> PROVE Quiet
    BY <1>3
  <1>4. ASSUME ControlPlane PROVE Quiet \/ Noticed
    <2>1. ASSUME NEW a \in Agents, CreateAgent(a) \/ RevokeAgent(a) PROVE Quiet
      BY <2>1, <1>3 DEF CreateAgent, RevokeAgent
    <2>2. ASSUME NEW n \in Names, NEW h \in Hosts, NEW a \in Agents \cup {None}, CreateTunnel(n, h, a)
          PROVE Quiet
      BY <2>2, <1>3 DEF CreateTunnel
    <2>3. ASSUME NEW h \in Hosts, Disconnect(h) PROVE Noticed
      BY <2>3 DEF Disconnect, Noticed
    <2>4. ASSUME NEW m \in Admins, AdminBegin(m) PROVE Quiet
      BY <2>4, <1>3 DEF AdminBegin, BeginDelete, BeginUiDelete, BeginStart, BeginStop, BeginAssign, Begin
    <2>5. ASSUME NEW m \in Admins, AdminStep(m) PROVE Quiet \/ Noticed
      <3>1. CASE UiDisconnect(m)
        <4>1. task[m].arg \in Hosts
          BY <3>1 DEF UiDisconnect, Doing, Typing, TaskOK
        <4>2. QED
          BY <3>1, <4>1 DEF UiDisconnect, Noticed
      <3>2. CASE ~UiDisconnect(m)
        BY <2>5, <3>2, <1>3 DEF AdminStep, DeleteRow, DoStart, DoStop, ReportStop, DoAssign, Cancel
      <3>3. QED
        BY <3>1, <3>2
    <2>6. QED
      BY <1>4, <2>1, <2>2, <2>3, <2>4, <2>5 DEF ControlPlane
  <1>5. CASE Restart
    BY <1>5 DEF Noticed
  <1>6. CASE UNCHANGED vars
    BY <1>6, <1>3 DEF vars
  <1>7. QED
    BY <1>1, <1>2, <1>4, <1>5, <1>6 DEF Next

(* Unregister and Disconnect close and remove one connection, and the entry
   they remove is the only one it has. *)
LEMMA RemoveKeepsRegistry ==
  ASSUME Typing, RegistryInv, NEW h \in Hosts, Remove(h), UNCHANGED <<pc, host>>
  PROVE  /\ RegistryInv'
         /\ registry'[h] = None
  <1> USE ConstantsAssumption DEF Remove, Typing, TypeOK
  <1>1. /\ registry'[h] = None
        /\ \A k \in Hosts \ {h} : registry'[k] = registry[k]
        /\ \A s \in Streams : closed'[s] = (closed[s] \/ s = registry[h])
    OBVIOUS
  <1>2. \A k \in Hosts \ {h} : registry[k] # None => registry[k] # registry[h]
    BY DEF RegistryInv, EntryHasHandler
  <1>3. EntryHasHandler'
    BY <1>1 DEF RegistryInv, EntryHasHandler
  <1>4. OpenIsRegistered'
    <2> SUFFICES ASSUME NEW s \in Streams, ~closed'[s]
                 PROVE  pc[s] \in Holding \ {"unregister"} /\ registry'[host[s]] = s
      BY DEF OpenIsRegistered
    <2>1. ~closed[s] /\ s # registry[h]
      BY <1>1
    <2>2. pc[s] \in Holding \ {"unregister"} /\ registry[host[s]] = s
      BY <2>1 DEF RegistryInv, OpenIsRegistered
    <2>3. QED
      BY <2>1, <2>2
  <1>5. RegisteredIsOpen'
    <2> SUFFICES ASSUME NEW k \in Hosts, registry'[k] # None, closed'[registry'[k]]
                 PROVE  pc[registry'[k]] = "unregister"
      BY DEF RegisteredIsOpen
    <2>1. k # h /\ registry[k] \in Streams /\ registry[k] # registry[h]
      BY <1>1, <1>2
    <2>2. registry'[k] = registry[k] /\ closed[registry[k]]
      BY <1>1, <2>1
    <2>3. QED
      BY <2>1, <2>2 DEF RegistryInv, RegisteredIsOpen
  <1>6. QED
    BY <1>1, <1>3, <1>4, <1>5 DEF RegistryInv

LEMMA NextRegistry == Typing /\ RegistryInv /\ [Next]_vars => RegistryInv'
  <1> USE DEF RegistryInv, EntryHasHandler, OpenIsRegistered, RegisteredIsOpen
  <1> SUFFICES ASSUME Typing, RegistryInv, [Next]_vars PROVE RegistryInv'
    OBVIOUS
  <1>1. CASE Quiet
    BY <1>1 DEF Quiet, memory, Typing, TypeOK, Claimed, Holding, Startup, Teardown
  <1>2. ASSUME NEW s \in Streams, Claim(s) PROVE RegistryInv'
    <2>1. /\ pc[s] \notin Holding
          /\ host[s] \in Hosts
          /\ pc'[s] = "touch"
      BY <1>2 DEF Claim, Goto, Typing, TypeOK, SessionOK, Claimed, Holding, Startup, Teardown
    <2>2. QED
      BY <1>2, <2>1, ConstantsAssumption
      DEF Claim, RegisterIfAbsent, Goto, Typing, TypeOK, Holding, Startup
  <1>3. ASSUME NEW s \in Streams, CloseConn(s) PROVE RegistryInv'
    BY <1>3, ConstantsAssumption DEF CloseConn, Goto, Typing, TypeOK, Holding
  <1>4. ASSUME NEW s \in Streams, Unregister(s) PROVE RegistryInv'
    <2>1. host[s] \in Hosts /\ closed[s]
      BY <1>4 DEF Unregister, Typing, SessionOK, Claimed, Teardown, TypeOK
    <2>2. \A h \in Hosts : registry[h] = s => h = host[s]
      BY ConstantsAssumption
    <2>3. QED
      BY <1>4, <2>1, <2>2, ConstantsAssumption
      DEF Unregister, Remove, Goto, Typing, TypeOK, Holding, Startup
  <1>5. ASSUME NEW s \in Streams, WriteTunnelOffline(s) PROVE RegistryInv'
    BY <1>5, ConstantsAssumption
    DEF WriteTunnelOffline, Return, Goto, memory, Typing, TypeOK, Holding, Startup
  <1>6. ASSUME NEW h \in Hosts, Remove(h), UNCHANGED stream PROVE RegistryInv'
    BY <1>6, RemoveKeepsRegistry DEF stream
  <1>7. CASE Restart
    BY <1>7 DEF Restart, Typing, TypeOK
  <1>8. QED
    BY StepKinds, <1>1, <1>2, <1>3, <1>4, <1>5, <1>6, <1>7 DEF Noticed

LEMMA RegistryAlways == Spec => [](Typing /\ RegistryInv)
  <1>1. Init => RegistryInv
    BY DEF Init, RegistryInv, EntryHasHandler, OpenIsRegistered, RegisteredIsOpen
  <1>2. QED
    BY <1>1, InitTyping, NextTyping, NextRegistry, PTL DEF Spec

(* No hostname stays claimed after the handler that claimed it returned. *)
THEOREM EntriesHaveHandlers == Spec => []EntryHasHandler
  <1>1. RegistryInv => EntryHasHandler
    BY DEF RegistryInv
  <1>2. QED
    BY <1>1, RegistryAlways, PTL

(* A connection that is not closed is the registered one of its hostname. *)
THEOREM OpenConnsAreRegistered == Spec => []OpenIsRegistered
  <1>1. RegistryInv => OpenIsRegistered
    BY DEF RegistryInv
  <1>2. QED
    BY <1>1, RegistryAlways, PTL

(* A lookup finds a closed connection only inside that connection's teardown. *)
THEOREM RegisteredConnsAreOpen == Spec => []RegisteredIsOpen
  <1>1. RegistryInv => RegisteredIsOpen
    BY DEF RegistryInv
  <1>2. QED
    BY <1>1, RegistryAlways, PTL

-----------------------------------------------------------------------------
(* Active tunnels.  That a stream's teardown removes the entry of its           *)
(* successor takes a disconnect in between: at a hostname nobody disconnects,   *)
(* whoever is between its registration and its Unregister is the registered one. *)

(* The page's disconnect of h, or its delete of a tunnel that was at h. *)
Disconnects(h) == Disconnect(h) \/ \E m \in Admins : UiDisconnect(m) /\ task[m].arg = h

(* Everyone who has still to unregister h is registered there, and begins its
   teardown only when its client is gone. *)
OwnerInv(h) ==
    \A s \in Streams :
        /\ pc[s] \in Holding /\ host[s] = h => registry[h] = s
        /\ pc[s] \in {"close", "unregister"} => ~up[s]

(* What a step may do to the entry of a hostname. *)
LEMMA EntrySteps ==
  ASSUME Typing, [Next]_vars, NEW h \in Hosts
  PROVE  \/ UNCHANGED registry[h]
         \/ \E s \in Streams : host[s] = h /\ (Claim(s) \/ Unregister(s))
         \/ Disconnects(h)
         \/ Restart
  <1> USE DEF Typing, TypeOK
  <1>1. ASSUME NEW s \in Streams, Handler(s)
        PROVE  UNCHANGED registry[h] \/ (host[s] = h /\ (Claim(s) \/ Unregister(s)))
    <2>1. CASE Claim(s)
      BY <2>1 DEF Claim, RegisterIfAbsent
    <2>2. CASE Unregister(s)
      BY <2>2 DEF Unregister, Remove
    <2>3. CASE ~Claim(s) /\ ~Unregister(s)
      BY <1>1, <2>3 DEF Handler, Authenticate, LookupTunnel, HostnameConflict, WriteConnected,
                        WriteDesired, WriteRunning, SendAck, RecvError, CloseConn,
                        WriteAgentOffline, WriteTunnelOffline, memory
    <2>4. QED
      BY <2>1, <2>2, <2>3
  <1>2. ASSUME NEW s \in Streams, Client(s) PROVE UNCHANGED registry[h]
    BY <1>2 DEF Client, ClientGone, Open, memory
  <1>3. ASSUME NEW k \in Hosts, Disconnect(k) PROVE UNCHANGED registry[h] \/ Disconnects(h)
    <2>1. CASE k = h
      BY <1>3, <2>1 DEF Disconnects
    <2>2. CASE k # h
      BY <1>3, <2>2 DEF Disconnect, Remove
    <2>3. QED
      BY <2>1, <2>2
  <1>4. ASSUME NEW m \in Admins, UiDisconnect(m) PROVE UNCHANGED registry[h] \/ Disconnects(h)
    BY <1>4 DEF UiDisconnect, Remove, Disconnects
  <1>5. CASE ControlPlane
    BY <1>3, <1>4, <1>5 DEF ControlPlane, CreateAgent, RevokeAgent, CreateTunnel, AdminBegin,
       BeginDelete, BeginUiDelete, BeginStart, BeginStop, BeginAssign, Begin,
       AdminStep, DeleteRow, DoStart, DoStop, ReportStop, DoAssign, Cancel, memory
  <1>6. QED
    BY <1>1, <1>2, <1>5 DEF Next, vars, memory

(* A handler comes to hold a hostname only by Claim, and the hostname is the one
   it looked up. *)
LEMMA HoldersClaim ==
  ASSUME Typing, [Next]_vars, NEW s \in Streams, pc'[s] \in Holding
  PROVE  host'[s] = host[s] /\ (pc[s] \in Holding \/ Claim(s))
  <1> USE DEF Typing, TypeOK, Goto
  <1>1. pc'[s] # "idle" /\ pc'[s] # "agentOffline" /\ pc'[s] \in Claimed
    BY DEF Holding, Claimed, Startup, Teardown
  <1>2. CASE Quiet
    BY <1>1, <1>2 DEF Quiet
  <1>3. ASSUME NEW t \in Streams, Claim(t) PROVE host'[s] = host[s] /\ (pc[s] \in Holding \/ Claim(s))
    BY <1>3 DEF Claim
  <1>4. ASSUME NEW t \in Streams, CloseConn(t) \/ Unregister(t)
        PROVE  host'[s] = host[s] /\ pc[s] \in Holding
    BY <1>1, <1>4 DEF CloseConn, Unregister, Holding
  <1>5. ASSUME NEW t \in Streams, WriteTunnelOffline(t) PROVE host'[s] = host[s] /\ pc[s] \in Holding
    BY <1>1, <1>5 DEF WriteTunnelOffline, Return
  <1>6. CASE UNCHANGED stream
    BY <1>6 DEF stream
  <1>7. ~Restart
    BY <1>1 DEF Restart
  <1>8. QED
    BY StepKinds, <1>2, <1>3, <1>4, <1>5, <1>6, <1>7 DEF Noticed

(* A teardown begins after the client is gone. *)
LEMMA TeardownsAreLate ==
  ASSUME Typing, [Next]_vars, NEW s \in Streams,
         pc[s] \in {"close", "unregister"} => ~up[s], pc'[s] \in {"close", "unregister"}
  PROVE  ~up'[s]
  <1> USE DEF Typing, TypeOK, Goto, Return
  <1>1. ASSUME NEW t \in Streams, Handler(t) PROVE ~up'[s]
    <2>1. CASE Authenticate(t) \/ LookupTunnel(t) \/ HostnameConflict(t)
      BY <2>1 DEF Authenticate, LookupTunnel, HostnameConflict
    <2>2. CASE Claim(t) \/ WriteConnected(t) \/ WriteDesired(t) \/ WriteRunning(t)
      BY <2>2 DEF Claim, WriteConnected, WriteDesired, WriteRunning
    <2>3. CASE SendAck(t) \/ RecvError(t) \/ CloseConn(t) \/ Unregister(t)
      BY <2>3 DEF SendAck, RecvError, CloseConn, Unregister
    <2>4. CASE WriteAgentOffline(t) \/ WriteTunnelOffline(t)
      BY <2>4 DEF WriteAgentOffline, WriteTunnelOffline
    <2>5. QED
      BY <1>1, <2>1, <2>2, <2>3, <2>4 DEF Handler
  <1>2. ASSUME NEW t \in Streams, Client(t) PROVE ~up'[s]
    BY <1>2 DEF Client, ClientGone, Open
  <1>3. CASE UNCHANGED stream
    BY <1>3 DEF stream
  <1>4. CASE ControlPlane
    BY <1>3, <1>4 DEF ControlPlane, CreateAgent, RevokeAgent, CreateTunnel, Disconnect, AdminBegin,
       BeginDelete, BeginUiDelete, BeginStart, BeginStop, BeginAssign, Begin,
       AdminStep, DeleteRow, UiDisconnect, DoStart, DoStop, ReportStop, DoAssign, Cancel
  <1>5. CASE Restart
    BY <1>5 DEF Restart
  <1>6. QED
    BY <1>1, <1>2, <1>3, <1>4, <1>5 DEF Next, vars

LEMMA NextOwner ==
  ASSUME Typing, [Next]_vars, NEW h \in Hosts, OwnerInv(h), [~Disconnects(h)]_vars
  PROVE  OwnerInv(h)'
  <1>1. ASSUME NEW s \in Streams, pc'[s] \in {"close", "unregister"} PROVE ~up'[s]
    BY <1>1, TeardownsAreLate DEF OwnerInv
  <1>2. ASSUME NEW s \in Streams, pc'[s] \in Holding, host'[s] = h PROVE registry'[h] = s
    <2>1. host[s] = h /\ (pc[s] \in Holding \/ Claim(s))
      BY <1>2, HoldersClaim
    <2>2. CASE Claim(s)
      BY <2>1, <2>2 DEF Claim, RegisterIfAbsent, Typing, TypeOK
    <2>3. CASE pc[s] \in Holding
      <3>1. registry[h] = s /\ s # None
        BY <2>1, <2>3, ConstantsAssumption DEF OwnerInv
      <3>2. CASE UNCHANGED registry[h]
        BY <3>1, <3>2
      <3>3. ASSUME NEW t \in Streams, host[t] = h PROVE ~Claim(t)
        BY <3>1, <3>3 DEF Claim, RegisterIfAbsent
      <3>4. ASSUME NEW t \in Streams, host[t] = h PROVE ~Unregister(t)
        <4> SUFFICES ASSUME Unregister(t) PROVE FALSE
          OBVIOUS
        <4>1. pc[t] \in Holding /\ pc'[t] = "agentOffline"
          BY DEF Unregister, Goto, Holding, Typing, TypeOK
        <4>2. t = s
          BY <3>1, <3>4, <4>1 DEF OwnerInv
        <4>3. QED
          BY <1>2, <4>1, <4>2 DEF Holding, Startup
      <3>5. CASE Disconnects(h)
        BY <3>2, <3>5 DEF vars, memory
      <3>6. ~Restart
        BY <1>2 DEF Restart, Holding, Startup
      <3>7. QED
        BY <3>2, <3>3, <3>4, <3>5, <3>6, EntrySteps
    <2>4. QED
      BY <2>1, <2>2, <2>3
  <1>3. QED
    BY <1>1, <1>2 DEF OwnerInv

(* "Registry maps hostname to the active tunnel connection": at a hostname that
   nobody disconnects an entry leaves the registry only when its own client is
   gone, or with the process, whatever streams, other hostnames and the rows do
   (Registry.Unregister in the deferred function of Connect). *)
THEOREM ActiveStaysUndisturbed ==
  ASSUME NEW h \in Hosts
  PROVE  Spec /\ [][~Disconnects(h)]_vars
           => [][registry[h] # None /\ registry'[h] = None => ~up[registry[h]] \/ Restart]_vars
  <1>1. Init => OwnerInv(h)
    BY DEF Init, OwnerInv, Holding, Startup
  <1>2. Typing /\ OwnerInv(h) /\ [Next]_vars /\ [~Disconnects(h)]_vars => OwnerInv(h)'
    BY NextOwner
  <1>3. Typing /\ OwnerInv(h) /\ [Next]_vars /\ [~Disconnects(h)]_vars
          => [registry[h] # None /\ registry'[h] = None => ~up[registry[h]] \/ Restart]_vars
    <2> SUFFICES ASSUME Typing, OwnerInv(h), [Next]_vars, [~Disconnects(h)]_vars,
                        registry[h] # None, registry'[h] = None, ~Restart
                 PROVE  ~up[registry[h]]
      OBVIOUS
    <2>1. ~UNCHANGED registry[h]
      OBVIOUS
    <2>2. ~Disconnects(h)
      BY <2>1 DEF vars, memory
    <2>3. PICK s \in Streams : host[s] = h /\ (Claim(s) \/ Unregister(s))
      BY <2>1, <2>2, EntrySteps
    <2>4. pc[s] = "unregister"
      BY <2>3 DEF Claim, RegisterIfAbsent, Unregister
    <2>5. QED
      BY <2>3, <2>4 DEF OwnerInv, Holding
  <1>4. QED
    BY <1>1, <1>2, <1>3, RegistryAlways, PTL DEF Spec

-----------------------------------------------------------------------------
(* What the rows say of the streams.                                       *)

SaysConnected == Claimed \ {"touch", "tunnelOffline"}   \* between the two writes to the agent's row
SaysRunning   == Claimed \ {"touch", "desire", "report"} \* between the two to the tunnel's

(* A handler leaves these places only by writing "offline", or with the process. *)
LEMMA HandlersGoOn ==
  ASSUME Typing, [Next]_vars, ~Restart, NEW s \in Streams
  PROVE  /\ pc[s] \in SaysConnected =>
              WriteAgentOffline(s) \/ (pc'[s] \in SaysConnected /\ agent'[s] = agent[s])
         /\ pc[s] \in SaysRunning =>
              WriteTunnelOffline(s) \/ (pc'[s] \in SaysRunning /\ name'[s] = name[s])
  <1> USE DEF stream, Goto, Return, SaysConnected, SaysRunning, Claimed, Startup, Teardown, Typing, TypeOK
  <1>1. ASSUME NEW t \in Streams, Handler(t)
        PROVE  /\ pc[s] \in SaysConnected =>
                    WriteAgentOffline(s) \/ (pc'[s] \in SaysConnected /\ agent'[s] = agent[s])
               /\ pc[s] \in SaysRunning =>
                    WriteTunnelOffline(s) \/ (pc'[s] \in SaysRunning /\ name'[s] = name[s])
    <2>1. CASE Authenticate(t) \/ LookupTunnel(t) \/ Claim(t) \/ HostnameConflict(t)
      BY <2>1 DEF Authenticate, LookupTunnel, Claim, HostnameConflict
    <2>2. CASE WriteConnected(t) \/ WriteDesired(t) \/ WriteRunning(t) \/ SendAck(t)
      BY <2>2 DEF WriteConnected, WriteDesired, WriteRunning, SendAck
    <2>3. CASE RecvError(t) \/ CloseConn(t) \/ Unregister(t)
      BY <2>3 DEF RecvError, CloseConn, Unregister
    <2>4. CASE WriteAgentOffline(t)
      BY <2>4 DEF WriteAgentOffline
    <2>5. CASE WriteTunnelOffline(t)
      BY <2>5 DEF WriteTunnelOffline
    <2>6. QED
      BY <1>1, <2>1, <2>2, <2>3, <2>4, <2>5 DEF Handler
  <1>2. CASE \E t \in Streams : Client(t)
    BY <1>2 DEF Client, ClientGone, Open
  <1>3. CASE UNCHANGED stream
    BY <1>3
  <1>4. CASE ControlPlane
    BY <1>3, <1>4 DEF ControlPlane, CreateAgent, RevokeAgent, CreateTunnel, Disconnect, AdminBegin,
       BeginDelete, BeginUiDelete, BeginStart, BeginStop, BeginAssign, Begin,
       AdminStep, DeleteRow, UiDisconnect, DoStart, DoStop, ReportStop, DoAssign, Cancel
  <1>5. QED
    BY <1>1, <1>2, <1>3, <1>4 DEF Next, vars

(* Who writes the status of an agent: its own streams at two places, and an
   administrator who creates or revokes it. *)
LEMMA AgentWrites ==
  ASSUME Typing, [Next]_vars, NEW a \in Agents
  PROVE  \/ agentStatus'[a] = agentStatus[a]
         \/ \E s \in Streams : agent[s] = a /\ WriteConnected(s) /\ agentStatus'[a] = "connected"
         \/ \E s \in Streams : agent[s] = a /\ WriteAgentOffline(s) /\ agentStatus'[a] = "offline"
         \/ agentStatus[a] = "absent" /\ agentStatus'[a] = "authorized" /\ UNCHANGED stream
         \/ agentStatus'[a] = "revoked" /\ UNCHANGED stream
  <1> USE DEF Typing, TypeOK
  <1>1. ASSUME NEW s \in Streams, WriteConnected(s)
        PROVE  agentStatus'[a] = agentStatus[a] \/ (agent[s] = a /\ agentStatus'[a] = "connected")
    BY <1>1 DEF WriteConnected, TouchAgent, ConnectedStatus
  <1>2. ASSUME NEW s \in Streams, WriteAgentOffline(s)
        PROVE  agentStatus'[a] = agentStatus[a] \/ (agent[s] = a /\ agentStatus'[a] = "offline")
    BY <1>2 DEF WriteAgentOffline, TouchAgent, TeardownContext
  <1>3. ASSUME NEW b \in Agents, CreateAgent(b) \/ RevokeAgent(b)
        PROVE  \/ agentStatus'[a] = agentStatus[a]
               \/ agentStatus[a] = "absent" /\ agentStatus'[a] = "authorized" /\ UNCHANGED stream
               \/ agentStatus'[a] = "revoked" /\ UNCHANGED stream
    BY <1>3 DEF CreateAgent, RevokeAgent, InsertAgent, RevokeAgentByName
  <1>4. \/ \E s \in Streams : WriteConnected(s) \/ WriteAgentOffline(s)
        \/ \E b \in Agents : CreateAgent(b) \/ RevokeAgent(b)
        \/ UNCHANGED agentStatus
    <2>1. ASSUME NEW s \in Streams, Handler(s)
          PROVE  WriteConnected(s) \/ WriteAgentOffline(s) \/ UNCHANGED agentStatus
      BY <2>1 DEF Handler, Authenticate, LookupTunnel, Claim, HostnameConflict, WriteDesired,
         WriteRunning, SendAck, RecvError, CloseConn, Unregister, WriteTunnelOffline
    <2>2. ASSUME ControlPlane
          PROVE  (\E b \in Agents : CreateAgent(b) \/ RevokeAgent(b)) \/ UNCHANGED agentStatus
      BY <2>2 DEF ControlPlane, CreateTunnel, Disconnect, AdminBegin,
         BeginDelete, BeginUiDelete, BeginStart, BeginStop, BeginAssign, Begin,
         AdminStep, DeleteRow, UiDisconnect, DoStart, DoStop, ReportStop, DoAssign, Cancel
    <2>3. QED
      BY <2>1, <2>2 DEF Next, Client, ClientGone, Open, Restart, vars
  <1>5. QED
    BY <1>1, <1>2, <1>3, <1>4

(* A tunnel is shown as running by its own stream only. *)
LEMMA RunningWrites ==
  ASSUME Typing, [Next]_vars, NEW n \in Names, tunnels'[n] # None, tunnels'[n].actual = "running"
  PROVE  \/ tunnels[n] # None /\ tunnels[n].actual = "running"
         \/ \E s \in Streams : name[s] = n /\ WriteRunning(s)
  <1> USE ConstantsAssumption DEF Typing, TypeOK, Tunnel
  <1>1. ASSUME NEW k \in Names, NEW state \in {"running", "stopped"}, SetTunnelDesiredState(k, state)
        PROVE  tunnels[n] # None /\ tunnels[n].actual = "running"
    BY <1>1 DEF SetTunnelDesiredState
  <1>2. ASSUME NEW k \in Names, UpdateTunnelStateByName(k, "offline")
        PROVE  tunnels[n] # None /\ tunnels[n].actual = "running"
    BY <1>2 DEF UpdateTunnelStateByName
  <1>3. ASSUME NEW s \in Streams, Handler(s)
        PROVE  \/ tunnels[n] # None /\ tunnels[n].actual = "running"
               \/ name[s] = n /\ WriteRunning(s)
    <2>1. CASE WriteDesired(s)
      BY <1>1, <2>1 DEF WriteDesired, SessionOK, Claimed, Startup
    <2>2. CASE WriteRunning(s)
      BY <2>2 DEF WriteRunning, UpdateTunnelStateByName
    <2>3. CASE WriteTunnelOffline(s)
      BY <1>2, <2>3 DEF WriteTunnelOffline, TeardownContext, SessionOK, Claimed, Teardown
    <2>4. QED
      BY <1>3, <2>1, <2>2, <2>3 DEF Handler, Authenticate, LookupTunnel, Claim, HostnameConflict,
         WriteConnected, SendAck, RecvError, CloseConn, Unregister, WriteAgentOffline
  <1>4. ASSUME ControlPlane PROVE tunnels[n] # None /\ tunnels[n].actual = "running"
    <2>1. ASSUME NEW k \in Names, NEW h \in Hosts, NEW a \in Agents \cup {None}, CreateTunnel(k, h, a)
          PROVE  tunnels[n] # None /\ tunnels[n].actual = "running"
      BY <2>1 DEF CreateTunnel, InsertTunnel
    <2>2. ASSUME NEW m \in Admins, AdminStep(m) PROVE tunnels[n] # None /\ tunnels[n].actual = "running"
      <3> USE DEF Doing
      <3>0. task[m] # None => task[m].name \in Names
        BY DEF Task
      <3>1. CASE DeleteRow(m)
        BY <3>0, <3>1 DEF DeleteRow
      <3>2. CASE DoStart(m) \/ DoStop(m)
        BY <3>0, <3>2, <1>1 DEF DoStart, DoStop
      <3>3. CASE ReportStop(m)
        BY <3>0, <3>3, <1>2 DEF ReportStop
      <3>4. CASE DoAssign(m)
        BY <3>0, <3>4 DEF DoAssign, AssignTunnelToAgent
      <3>5. QED
        BY <2>2, <3>1, <3>2, <3>3, <3>4 DEF AdminStep, UiDisconnect, Cancel
    <2>3. QED
      BY <1>4, <2>1, <2>2 DEF ControlPlane, CreateAgent, RevokeAgent, Disconnect, AdminBegin,
         BeginDelete, BeginUiDelete, BeginStart, BeginStop, BeginAssign, Begin
  <1>5. QED
    BY <1>3, <1>4 DEF Next, Client, ClientGone, Open, Restart, vars

(* A tunnel keeps its hostname; a new one has a hostname that no tunnel had. *)
LEMMA HostWrites ==
  ASSUME Typing, [Next]_vars, NEW n \in Names, tunnels'[n] # None
  PROVE  \/ tunnels[n] # None /\ tunnels'[n].host = tunnels[n].host
         \/ /\ \A k \in Names : tunnels[k] # None => tunnels[k].host # tunnels'[n].host
            /\ \A k \in Names \ {n} : tunnels'[k] = tunnels[k]
  <1> USE ConstantsAssumption DEF Typing, TypeOK, Tunnel
  <1> DEFINE Kept == tunnels[n] # None /\ tunnels'[n].host = tunnels[n].host
  <1>1. ASSUME NEW k \in Names,
               \/ \E state \in {"running", "stopped"} : SetTunnelDesiredState(k, state)
               \/ \E state \in {"running", "offline"} : UpdateTunnelStateByName(k, state)
               \/ \E a \in Agents \cup {None} : AssignTunnelToAgent(k, a)
        PROVE  Kept
    BY <1>1 DEF SetTunnelDesiredState, UpdateTunnelStateByName, AssignTunnelToAgent
  <1>2. ASSUME NEW s \in Streams, Handler(s) PROVE Kept
    <2>1. CASE WriteDesired(s) \/ WriteRunning(s) \/ WriteTunnelOffline(s)
      <3>1. name[s] \in Names
        BY <2>1 DEF WriteDesired, WriteRunning, WriteTunnelOffline, SessionOK
      <3>2. QED
        BY <1>1, <2>1, <3>1 DEF WriteDesired, WriteRunning, WriteTunnelOffline, TeardownContext
    <2>2. CASE ~(WriteDesired(s) \/ WriteRunning(s) \/ WriteTunnelOffline(s))
      BY <1>2, <2>2 DEF Handler, Authenticate, LookupTunnel, Claim, HostnameConflict,
         WriteConnected, SendAck, RecvError, CloseConn, Unregister, WriteAgentOffline
    <2>3. QED
      BY <2>1, <2>2
  <1>3. ASSUME NEW m \in Admins, AdminStep(m) PROVE Kept
    <2> USE DEF Doing
    <2>1. task[m] # None /\ task[m].name \in Names
      BY <1>3 DEF AdminStep, DeleteRow, UiDisconnect, DoStart, DoStop, ReportStop, DoAssign, Cancel, Task
    <2>2. CASE DeleteRow(m)
      BY <2>1, <2>2 DEF DeleteRow
    <2>3. CASE DoStart(m) \/ DoStop(m) \/ ReportStop(m)
      BY <1>1, <2>1, <2>3 DEF DoStart, DoStop, ReportStop
    <2>4. CASE DoAssign(m)
      <3>1. task[m].arg \in Agents \cup {None}
        BY <2>1, <2>4 DEF DoAssign, TaskOK
      <3>2. QED
        BY <1>1, <2>1, <2>4, <3>1 DEF DoAssign
    <2>5. QED
      BY <1>3, <2>2, <2>3, <2>4 DEF AdminStep, UiDisconnect, Cancel
  <1>4. ASSUME NEW k \in Names, NEW h \in Hosts, NEW a \in Agents \cup {None}, CreateTunnel(k, h, a)
        PROVE  \/ Kept
               \/ /\ \A j \in Names : tunnels[j] # None => tunnels[j].host # tunnels'[n].host
                  /\ \A j \in Names \ {n} : tunnels'[j] = tunnels[j]
    BY <1>4 DEF CreateTunnel, InsertTunnel
  <1>5. QED
    BY <1>2, <1>3, <1>4 DEF Next, Client, ClientGone, Open, Restart, vars, ControlPlane, CreateAgent,
       RevokeAgent, Disconnect, AdminBegin, BeginDelete, BeginUiDelete, BeginStart, BeginStop,
       BeginAssign, Begin

(* At most one tunnel has a hostname. *)
UniqueHosts ==
    \A n, k \in Names :
        tunnels[n] # None /\ tunnels[k] # None /\ tunnels[n].host = tunnels[k].host => n = k

(* A public hostname never belongs to two tunnels: the registry, which goes by
   hostname, and a public request, which looks a tunnel up by hostname, can
   mean one only. *)
THEOREM HostnamesAreUnique == Spec => []UniqueHosts
  <1>1. Init => UniqueHosts
    BY DEF Init, UniqueHosts
  <1>2. Typing /\ UniqueHosts /\ [Next]_vars => UniqueHosts'
    <2> SUFFICES ASSUME Typing, UniqueHosts, [Next]_vars, NEW n \in Names, NEW k \in Names, n # k,
                        tunnels'[n] # None, tunnels'[k] # None
                 PROVE  tunnels'[n].host # tunnels'[k].host
      BY DEF UniqueHosts
    <2>1. CASE /\ tunnels[n] # None /\ tunnels'[n].host = tunnels[n].host
               /\ tunnels[k] # None /\ tunnels'[k].host = tunnels[k].host
      BY <2>1 DEF UniqueHosts
    <2>2. CASE /\ \A j \in Names : tunnels[j] # None => tunnels[j].host # tunnels'[n].host
               /\ tunnels'[k] = tunnels[k]
      BY <2>2
    <2>3. CASE /\ \A j \in Names : tunnels[j] # None => tunnels[j].host # tunnels'[k].host
               /\ tunnels'[n] = tunnels[n]
      BY <2>3
    <2>4. QED
      BY <2>1, <2>2, <2>3, HostWrites
  <1>3. QED
    BY <1>1, <1>2, InitTyping, NextTyping, PTL DEF Spec

(* An agent shown as connected keeps a stream whose handler has still to write
   "offline", unless the process dies: through any number of restarts. *)
THEOREM AgentsStayAccounted == Spec => OnlyCrashesStrandAgents
  <1>1. Typing /\ [Next]_vars =>
          [\A a \in Agents : AgentAccounted(a) => AgentAccounted(a)' \/ Restart]_vars
    <2> SUFFICES ASSUME Typing, [Next]_vars, NEW a \in Agents, AgentAccounted(a), ~Restart,
                        agentStatus'[a] = "connected"
                 PROVE  \E s \in Streams : agent'[s] = a /\ pc'[s] \in SaysConnected
      BY DEF AgentAccounted, SaysConnected
    <2>1. CASE \E s \in Streams : agent[s] = a /\ WriteConnected(s)
      BY <2>1 DEF WriteConnected, Goto, SaysConnected, Claimed, Startup, Teardown, Typing, TypeOK
    <2>2. CASE agentStatus[a] = "connected"
      <3>1. PICK s \in Streams : agent[s] = a /\ pc[s] \in SaysConnected
        BY <2>2 DEF AgentAccounted, SaysConnected
      <3>2. ~WriteAgentOffline(s)
        BY <3>1 DEF WriteAgentOffline, TouchAgent, TeardownContext, Typing, TypeOK
      <3>3. QED
        BY <3>1, <3>2, HandlersGoOn
    <2>3. QED
      BY <2>1, <2>2, AgentWrites
  <1>2. QED
    BY <1>1, InitTyping, NextTyping, PTL DEF Spec, OnlyCrashesStrandAgents

(* Likewise a tunnel shown as running, also when its row is another one by now. *)
THEOREM TunnelsStayAccounted == Spec => OnlyCrashesStrandTunnels
  <1>1. Typing /\ [Next]_vars =>
          [\A n \in Names : TunnelAccounted(n) => TunnelAccounted(n)' \/ Restart]_vars
    <2> SUFFICES ASSUME Typing, [Next]_vars, NEW n \in Names, TunnelAccounted(n), ~Restart,
                        tunnels'[n] # None, tunnels'[n].actual = "running"
                 PROVE  \E s \in Streams : name'[s] = n /\ pc'[s] \in SaysRunning
      BY DEF TunnelAccounted, SaysRunning
    <2>1. CASE \E s \in Streams : name[s] = n /\ WriteRunning(s)
      BY <2>1 DEF WriteRunning, Goto, SaysRunning, Claimed, Startup, Teardown, Typing, TypeOK
    <2>2. CASE tunnels[n] # None /\ tunnels[n].actual = "running"
      <3>1. PICK s \in Streams : name[s] = n /\ pc[s] \in SaysRunning
        BY <2>2 DEF TunnelAccounted, SaysRunning
      <3>2. ~WriteTunnelOffline(s)
        BY <2>2, <3>1 DEF WriteTunnelOffline, UpdateTunnelStateByName, TeardownContext, Typing, TypeOK, Tunnel
      <3>3. QED
        BY <3>1, <3>2, HandlersGoOn
    <2>3. QED
      BY <2>1, <2>2, RunningWrites
  <1>2. QED
    BY <1>1, InitTyping, NextTyping, PTL DEF Spec, OnlyCrashesStrandTunnels

(* A stream gets past authentication and lookup only by what the rows say then. *)
LEMMA EarlyStreams ==
  ASSUME Typing, [Next]_vars, NEW s \in Streams, pc'[s] # "idle"
  PROVE  \/ pc'[s] = "auth"
         \/ /\ agent'[s] = agent[s] /\ name'[s] = name[s]
            /\ \/ pc'[s] = pc[s]
               \/ pc[s] = "auth" /\ pc'[s] = "lookup" /\ Authorized(s)
               \/ pc[s] = "lookup" /\ pc'[s] = "claim" /\ AssignedTo(name[s], agent[s])
               \/ pc[s] \notin {"idle", "auth", "lookup"}
  <1> USE DEF stream, Goto, Return, Typing, TypeOK
  <1> DEFINE Kept == \/ pc'[s] = "auth"
                     \/ /\ agent'[s] = agent[s] /\ name'[s] = name[s]
                        /\ \/ pc'[s] = pc[s]
                           \/ pc[s] = "auth" /\ pc'[s] = "lookup" /\ Authorized(s)
                           \/ pc[s] = "lookup" /\ pc'[s] = "claim" /\ AssignedTo(name[s], agent[s])
                           \/ pc[s] \notin {"idle", "auth", "lookup"}
  <1>1. ASSUME NEW t \in Streams, Handler(t) PROVE Kept
    <2>1. CASE Authenticate(t) \/ LookupTunnel(t)
      BY <2>1 DEF Authenticate, LookupTunnel
    <2>2. CASE Claim(t) \/ HostnameConflict(t)
      BY <2>2 DEF Claim, HostnameConflict
    <2>3. CASE WriteConnected(t) \/ WriteDesired(t) \/ WriteRunning(t) \/ SendAck(t)
      BY <2>3 DEF WriteConnected, WriteDesired, WriteRunning, SendAck
    <2>4. CASE RecvError(t) \/ CloseConn(t) \/ Unregister(t) \/ WriteAgentOffline(t)
      BY <2>4 DEF RecvError, CloseConn, Unregister, WriteAgentOffline
    <2>5. CASE WriteTunnelOffline(t)
      BY <2>5 DEF WriteTunnelOffline
    <2>6. QED
      BY <1>1, <2>1, <2>2, <2>3, <2>4, <2>5 DEF Handler
  <1>2. CASE \E t \in Streams : Client(t)
    BY <1>2 DEF Client, ClientGone, Open
  <1>3. CASE UNCHANGED stream
    BY <1>3
  <1>4. CASE ControlPlane
    BY <1>3, <1>4 DEF ControlPlane, CreateAgent, RevokeAgent, CreateTunnel, Disconnect, AdminBegin,
       BeginDelete, BeginUiDelete, BeginStart, BeginStop, BeginAssign, Begin,
       AdminStep, DeleteRow, UiDisconnect, DoStart, DoStop, ReportStop, DoAssign, Cancel
  <1>5. QED
    BY <1>1, <1>2, <1>3, <1>4 DEF Next, Restart, vars

(* Where no stream of the agent has been authenticated, none of them gets in. *)
THEOREM RevocationsSettle == Spec => RevocationSettles
  <1>1. Typing /\ [Next]_vars => [\A a \in Agents : Out(a) => Out(a)']_vars
    <2> SUFFICES ASSUME Typing, [Next]_vars, NEW a \in Agents, Out(a) PROVE Out(a)'
      OBVIOUS
    <2>1. agentStatus'[a] = "revoked"
      BY AgentWrites DEF Out, WriteConnected, WriteAgentOffline
    <2>2. \A s \in Streams : agent'[s] = a => pc'[s] \in {"idle", "auth"}
      BY EarlyStreams DEF Out, Authorized
    <2>3. QED
      BY <2>1, <2>2 DEF Out
  <1>2. QED
    BY <1>1, InitTyping, NextTyping, PTL DEF Spec, RevocationSettles

(* A tunnel that is out of an agent's hands stays so until it is assigned to it. *)
THEOREM UnassignmentsSettle == Spec => UnassignmentSettles
  <1>1. Typing /\ [Next]_vars =>
          [\A a \in Agents, n \in Names : Unassigned(a, n) => Unassigned(a, n)' \/ HasTunnel(a, n)']_vars
    <2> SUFFICES ASSUME Typing, [Next]_vars, NEW a \in Agents, NEW n \in Names,
                        Unassigned(a, n), ~HasTunnel(a, n)'
                 PROVE  Unassigned(a, n)'
      OBVIOUS
    <2>1. \A s \in Streams : agent'[s] = a /\ name'[s] = n => pc'[s] \in {"idle", "auth", "lookup"}
      BY EarlyStreams DEF Unassigned, HasTunnel, AssignedTo
    <2>2. QED
      BY <2>1 DEF Unassigned
  <1>2. QED
    BY <1>1, InitTyping, NextTyping, PTL DEF Spec, UnassignmentSettles

-----------------------------------------------------------------------------
(* The leases of HostLease.                                                *)

(* At most one stream holds a hostname: the one that is registered for it. *)
LEMMA HolderIsRegistered ==
  ASSUME Typing, RegistryInv, NEW h \in Hosts
  PROVE  Lease!Holders(h) = {s \in Streams : registry[h] = s /\ ~closed[s]}
  <1>1. ASSUME NEW s \in Streams, pc[s] \in Claimed, ~closed[s], host[s] = h
        PROVE  registry[h] = s
    BY <1>1 DEF RegistryInv, OpenIsRegistered
  <1>2. ASSUME NEW s \in Streams, registry[h] = s, ~closed[s]
        PROVE  pc[s] \in Claimed /\ host[s] = h
    BY <1>2, ConstantsAssumption DEF RegistryInv, EntryHasHandler, Holding, Claimed, Teardown
  <1>3. QED
    BY <1>1, <1>2 DEF Lease!Holders

(* Closing the connection registered at h evicts it. *)
LEMMA RemoveEvicts ==
  ASSUME Typing, RegistryInv, NEW h \in Hosts,
         closed' = [s \in Streams |-> closed[s] \/ s = registry[h]],
         host' = host, \A s \in Streams : pc'[s] \in Claimed <=> pc[s] \in Claimed
  PROVE  Lease!Evict(h) \/ UNCHANGED Lease!vars
  <1> DEFINE lease(s) == IF pc[s] \notin Claimed THEN "none" ELSE IF closed[s] THEN "lost" ELSE "held"
  <1>1. UNCHANGED [s \in Streams |-> IF pc[s] \in Claimed THEN host[s] ELSE None]
    OBVIOUS
  <1>2. \A s \in Streams : lease(s)' = IF s \in Lease!Holders(h) THEN "lost" ELSE lease(s)
    <2> SUFFICES ASSUME NEW s \in Streams
                 PROVE  lease(s)' = IF s \in Lease!Holders(h) THEN "lost" ELSE lease(s)
      OBVIOUS
    <2>1. s \in Lease!Holders(h) <=> registry[h] = s /\ ~closed[s]
      BY HolderIsRegistered
    <2>2. s \in Lease!Holders(h) => pc[s] \in Claimed
      BY DEF Lease!Holders
    <2>3. closed'[s] <=> closed[s] \/ s = registry[h]
      OBVIOUS
    <2>4. pc'[s] \in Claimed <=> pc[s] \in Claimed
      OBVIOUS
    <2> HIDE DEF Claimed
    <2>5. QED
      BY <2>1, <2>2, <2>3, <2>4
  <1>3. CASE Lease!Holders(h) = {}
    BY <1>1, <1>2, <1>3 DEF Lease!vars
  <1>4. CASE Lease!Holders(h) # {}
    BY <1>1, <1>2, <1>4 DEF Lease!Evict
  <1>5. QED
    BY <1>3, <1>4

(* The server implements the abstract specification: a step acquires, evicts or
   releases a lease, resets them all, or changes none. *)
THEOREM ServerImplementsLease == Spec => ImplementsLease
  <1>1. Init => Lease!Init
    BY DEF Init, Lease!Init, Claimed, Startup, Teardown
  <1>2. Typing /\ RegistryInv /\ [Next]_vars => [Lease!Next]_(Lease!vars)
    <2> SUFFICES ASSUME Typing, RegistryInv, [Next]_vars PROVE Lease!Next \/ UNCHANGED Lease!vars
      OBVIOUS
    <2> USE DEF Typing, TypeOK
    <2>1. CASE Quiet
      <3>1. \A s \in Streams : /\ pc'[s] \in Claimed <=> pc[s] \in Claimed
                               /\ pc[s] \in Claimed => host'[s] = host[s]
        BY <2>1 DEF Quiet
      <3>2. closed' = closed
        BY <2>1 DEF Quiet, memory
      <3>3. QED
        BY <3>1, <3>2 DEF Lease!vars
    <2>2. ASSUME NEW s \in Streams, Claim(s) PROVE Lease!Next
      <3>1. /\ pc[s] \notin Claimed /\ host[s] \in Hosts /\ registry[host[s]] = None
            /\ pc' = [pc EXCEPT ![s] = "touch"] /\ host' = host
            /\ closed' = [closed EXCEPT ![s] = FALSE]
        BY <2>2 DEF Claim, RegisterIfAbsent, Goto, SessionOK, Claimed, Startup, Teardown
      <3>2. PICK h \in Hosts : h = host[s]
        BY <3>1
      <3>3. Lease!Holders(h) = {}
        BY <3>1, <3>2, HolderIsRegistered, ConstantsAssumption
      <3>4. Lease!Acquire(s, h)
        BY <3>1, <3>2, <3>3 DEF Lease!Acquire, Claimed, Startup
      <3>5. QED
        BY <3>4 DEF Lease!Next
    <2>3. ASSUME NEW s \in Streams, CloseConn(s) PROVE Lease!Next \/ UNCHANGED Lease!vars
      <3>1. /\ pc[s] = "close" /\ host[s] \in Hosts
            /\ pc' = [pc EXCEPT ![s] = "unregister"] /\ host' = host
            /\ closed' = [closed EXCEPT ![s] = TRUE]
        BY <2>3 DEF CloseConn, Goto, SessionOK, Claimed, Teardown
      <3>2. \A t \in Streams : pc'[t] \in Claimed <=> pc[t] \in Claimed
        BY <3>1 DEF Claimed, Teardown
      <3>3. CASE closed[s]
        BY <3>1, <3>2, <3>3 DEF Lease!vars
      <3>4. CASE ~closed[s]
        <4>1. registry[host[s]] = s
          BY <3>4 DEF RegistryInv, OpenIsRegistered
        <4>2. closed' = [t \in Streams |-> closed[t] \/ t = registry[host[s]]]
          BY <3>1, <4>1
        <4>3. QED
          BY <3>1, <3>2, <4>2, RemoveEvicts DEF Lease!Next
      <3>5. QED
        BY <3>3, <3>4
    <2>4. ASSUME NEW s \in Streams, Unregister(s) PROVE Lease!Next \/ UNCHANGED Lease!vars
      <3>1. /\ pc[s] = "unregister" /\ host[s] \in Hosts
            /\ pc' = [pc EXCEPT ![s] = "agentOffline"] /\ host' = host
            /\ closed' = [t \in Streams |-> closed[t] \/ t = registry[host[s]]]
        BY <2>4 DEF Unregister, Remove, Goto, SessionOK, Claimed, Teardown
      <3>2. \A t \in Streams : pc'[t] \in Claimed <=> pc[t] \in Claimed
        BY <3>1 DEF Claimed, Teardown
      <3>3. QED
        BY <3>1, <3>2, RemoveEvicts DEF Lease!Next
    <2>5. ASSUME NEW s \in Streams, WriteTunnelOffline(s) PROVE Lease!Next
      <3>1. /\ pc[s] = "tunnelOffline" /\ UNCHANGED closed
            /\ pc' = [pc EXCEPT ![s] = "idle"] /\ host' = [host EXCEPT ![s] = None]
        BY <2>5 DEF WriteTunnelOffline, Return, Goto, memory
      <3>2. closed[s]
        BY <3>1 DEF RegistryInv, OpenIsRegistered, Holding, Startup
      <3>3. Lease!Release(s)
        BY <3>1, <3>2 DEF Lease!Release, Claimed, Startup, Teardown
      <3>4. QED
        BY <3>3 DEF Lease!Next
    <2>6. ASSUME NEW h \in Hosts, Remove(h), UNCHANGED stream
          PROVE  Lease!Next \/ UNCHANGED Lease!vars
      BY <2>6, RemoveEvicts DEF Lease!Next, Remove, stream
    <2>7. CASE Restart
      <3>1. Lease!Reset
        BY <2>7 DEF Restart, Lease!Reset, Claimed, Startup, Teardown
      <3>2. QED
        BY <3>1 DEF Lease!Next
    <2>8. QED
      BY <2>1, <2>2, <2>3, <2>4, <2>5, <2>6, <2>7, StepKinds DEF Noticed
  <1>3. QED
    BY <1>1, <1>2, RegistryAlways, PTL DEF Spec, ImplementsLease, Lease!Spec

-----------------------------------------------------------------------------
(* Liveness.  A stream whose client is gone goes through what is left of its  *)
(* handler; at each place the fairness of the handler takes it to the next    *)
(* one, unless somebody else has freed the hostname before.                   *)

After(place) ==
    CASE place = "touch" -> "desire"
      [] place = "desire" -> "report"
      [] place = "report" -> "ack"
      [] place = "ack" -> "close"
      [] place = "serve" -> "close"
      [] place = "close" -> "unregister"

(* The stream is registered at h, its client is gone, and its handler is there. *)
DeadAt(s, h, place) == registry[h] = s /\ ~up[s] /\ pc[s] = place

(* The handler of a dead stream goes on, or to its Unregister and past it. *)
LEMMA DeadHandlerStep ==
  ASSUME Typing, RegistryInv, NEW s \in Streams, NEW h \in Hosts, NEW place \in Holding,
         DeadAt(s, h, place), Handler(s)
  PROVE  IF place = "unregister" THEN registry'[h] # s
         ELSE registry'[h] = s => DeadAt(s, h, After(place))'
  <1> USE DEF DeadAt, Goto, Typing, TypeOK
  <1>1. place \in {"touch", "desire", "report", "ack", "serve", "close", "unregister"}
    BY DEF Holding, Startup
  <1>2. s # None /\ host[s] = h
    BY ConstantsAssumption DEF RegistryInv, EntryHasHandler
  <1>3. CASE place = "unregister"
    <2>1. Unregister(s)
      BY <1>3 DEF Handler, Authenticate, LookupTunnel, Claim, HostnameConflict, WriteConnected,
                  WriteDesired, WriteRunning, SendAck, RecvError, CloseConn, WriteAgentOffline,
                  WriteTunnelOffline
    <2>2. registry'[h] = None
      BY <1>2, <2>1 DEF Unregister, Remove
    <2>3. QED
      BY <1>2, <1>3, <2>2
  <1>4. CASE place # "unregister"
    <2>1. \/ WriteConnected(s) \/ WriteDesired(s) \/ WriteRunning(s) \/ SendAck(s)
          \/ RecvError(s) \/ CloseConn(s)
      BY <1>1, <1>4 DEF Handler, Authenticate, LookupTunnel, Claim, HostnameConflict, Unregister,
                        WriteAgentOffline, WriteTunnelOffline
    <2>2. up' = up /\ pc'[s] = After(place)
      BY <2>1 DEF WriteConnected, WriteDesired, WriteRunning, SendAck, RecvError, CloseConn, After
    <2>3. QED
      BY <1>4, <2>2
  <1>5. QED
    BY <1>3, <1>4

(* Nobody else moves it or brings its client back. *)
LEMMA DeadStaysPut ==
  ASSUME Typing, RegistryInv, [Next]_vars, NEW s \in Streams, NEW h \in Hosts, NEW place \in Holding,
         DeadAt(s, h, place), ~Handler(s), registry'[h] = s
  PROVE  DeadAt(s, h, place)'
  <1> USE DEF DeadAt, Typing, TypeOK
  <1>1. pc[s] # "idle" /\ s # None
    BY ConstantsAssumption DEF Holding, Startup
  <1>2. ASSUME NEW t \in Streams \ {s}, Handler(t) PROVE DeadAt(s, h, place)'
    <2>1. up'[s] = up[s] /\ pc'[s] = pc[s]
      <3> USE DEF Goto, Return
      <3>1. CASE Authenticate(t) \/ LookupTunnel(t)
        BY <3>1 DEF Authenticate, LookupTunnel
      <3>2. CASE Claim(t) \/ HostnameConflict(t)
        BY <3>2 DEF Claim, HostnameConflict
      <3>3. CASE WriteConnected(t) \/ WriteDesired(t) \/ WriteRunning(t) \/ SendAck(t)
        BY <3>3 DEF WriteConnected, WriteDesired, WriteRunning, SendAck
      <3>4. CASE RecvError(t) \/ CloseConn(t) \/ Unregister(t) \/ WriteAgentOffline(t)
        BY <3>4 DEF RecvError, CloseConn, Unregister, WriteAgentOffline
      <3>5. CASE WriteTunnelOffline(t)
        BY <3>5 DEF WriteTunnelOffline
      <3>6. QED
        BY <1>2, <3>1, <3>2, <3>3, <3>4, <3>5 DEF Handler
    <2>2. QED
      BY <2>1
  <1>3. ASSUME NEW t \in Streams, Client(t) PROVE DeadAt(s, h, place)'
    BY <1>1, <1>3 DEF Client, ClientGone, Open, Goto
  <1>4. CASE UNCHANGED stream
    BY <1>4 DEF stream
  <1>5. CASE ControlPlane
    BY <1>4, <1>5 DEF ControlPlane, CreateAgent, RevokeAgent, CreateTunnel, Disconnect, AdminBegin,
       BeginDelete, BeginUiDelete, BeginStart, BeginStop, BeginAssign, Begin,
       AdminStep, DeleteRow, UiDisconnect, DoStart, DoStop, ReportStop, DoAssign, Cancel
  <1>6. CASE Restart
    BY <1>1, <1>6 DEF Restart
  <1>7. QED
    BY <1>2, <1>3, <1>4, <1>5, <1>6 DEF Next, vars

(* The handler has something to do that it need not wait for its client for. *)
Runnable(s) == pc[s] # "idle" /\ (pc[s] = "serve" => ~up[s])

CanMove(s) == ENABLED <<Handler(s)>>_vars

(* What the guards of the handler's actions say together, and the hypothesis of
   the theorem below: ENABLED cannot be expanded in a proof. *)
HandlersNotStuck == \A s \in Streams : Runnable(s) => CanMove(s)

(* One place after the other, and the last one frees the hostname: what the
   rule for weak fairness asks of a place. *)
Onward(s, h, place) == registry[h] # s \/ (place # "unregister" /\ DeadAt(s, h, After(place)))

LEMMA DeadMovesOn ==
  ASSUME NEW s \in Streams, NEW h \in Hosts, NEW place \in Holding
  PROVE  /\ Typing /\ RegistryInv /\ [Next]_vars /\ DeadAt(s, h, place)
              => DeadAt(s, h, place)' \/ Onward(s, h, place)'
         /\ Typing /\ RegistryInv /\ DeadAt(s, h, place) /\ <<Handler(s)>>_vars
              => Onward(s, h, place)'
         /\ HandlersNotStuck /\ DeadAt(s, h, place) => CanMove(s)
  <1>1. Typing /\ RegistryInv /\ DeadAt(s, h, place) /\ Handler(s) => Onward(s, h, place)'
    BY DeadHandlerStep DEF Onward
  <1>2. Typing /\ RegistryInv /\ [Next]_vars /\ DeadAt(s, h, place) /\ ~Handler(s)
          => DeadAt(s, h, place)' \/ Onward(s, h, place)'
    BY DeadStaysPut DEF Onward
  <1>3. HandlersNotStuck /\ DeadAt(s, h, place) => CanMove(s)
    BY DEF HandlersNotStuck, Runnable, DeadAt, Holding, Startup
  <1>4. QED
    BY <1>1, <1>2, <1>3

(* The hostname of a client that is gone becomes free, whatever the other
   streams and the administrators do, if the handlers are scheduled and none is
   ever stuck. *)
THEOREM DeadStreamsRelease == FairSpec /\ []HandlersNotStuck => DeadStreamReleasesHost
  <1> SUFFICES ASSUME NEW s \in Streams, NEW h \in Hosts
               PROVE  FairSpec /\ []HandlersNotStuck
                        => ((registry[h] = s /\ ~up[s]) ~> (registry[h] # s))
    BY DEF DeadStreamReleasesHost
  <1>1. FairSpec => Spec /\ HandlerFairness(s)
    BY DEF FairSpec
  <1>2. /\ "touch" \in Holding /\ "desire" \in Holding /\ "report" \in Holding /\ "ack" \in Holding
        /\ "serve" \in Holding /\ "close" \in Holding /\ "unregister" \in Holding
    BY DEF Holding, Startup
  <1>3. /\ After("touch") = "desire" /\ After("desire") = "report" /\ After("report") = "ack"
        /\ After("ack") = "close" /\ After("serve") = "close" /\ After("close") = "unregister"
    BY DEF After
  <1> DEFINE Fair == Spec /\ HandlerFairness(s) /\ []HandlersNotStuck
             Free == registry[h] # s
             At(place) == DeadAt(s, h, place)
             Inv == Typing /\ RegistryInv
  <1>4. Spec => []Inv
    BY RegistryAlways, PTL
  <1> HIDE DEF Inv
  <1>5. Fair => (At("touch") ~> At("desire") \/ Free)
    <2>1. /\ Inv /\ [Next]_vars /\ At("touch") => At("touch")' \/ At("desire")' \/ Free'
          /\ Inv /\ At("touch") /\ <<Handler(s)>>_vars => At("desire")' \/ Free'
          /\ HandlersNotStuck /\ At("touch") => CanMove(s)
      BY <1>2, <1>3, DeadMovesOn DEF Inv, Onward
    <2>2. QED
      BY <2>1, <1>4, PTL DEF Spec, HandlerFairness, CanMove
  <1>6. Fair => (At("desire") ~> At("report") \/ Free)
    <2>1. /\ Inv /\ [Next]_vars /\ At("desire") => At("desire")' \/ At("report")' \/ Free'
          /\ Inv /\ At("desire") /\ <<Handler(s)>>_vars => At("report")' \/ Free'
          /\ HandlersNotStuck /\ At("desire") => CanMove(s)
      BY <1>2, <1>3, DeadMovesOn DEF Inv, Onward
    <2>2. QED
      BY <2>1, <1>4, PTL DEF Spec, HandlerFairness, CanMove
  <1>7. Fair => (At("report") ~> At("ack") \/ Free)
    <2>1. /\ Inv /\ [Next]_vars /\ At("report") => At("report")' \/ At("ack")' \/ Free'
          /\ Inv /\ At("report") /\ <<Handler(s)>>_vars => At("ack")' \/ Free'
          /\ HandlersNotStuck /\ At("report") => CanMove(s)
      BY <1>2, <1>3, DeadMovesOn DEF Inv, Onward
    <2>2. QED
      BY <2>1, <1>4, PTL DEF Spec, HandlerFairness, CanMove
  <1>8. Fair => (At("ack") ~> At("close") \/ Free)
    <2>1. /\ Inv /\ [Next]_vars /\ At("ack") => At("ack")' \/ At("close")' \/ Free'
          /\ Inv /\ At("ack") /\ <<Handler(s)>>_vars => At("close")' \/ Free'
          /\ HandlersNotStuck /\ At("ack") => CanMove(s)
      BY <1>2, <1>3, DeadMovesOn DEF Inv, Onward
    <2>2. QED
      BY <2>1, <1>4, PTL DEF Spec, HandlerFairness, CanMove
  <1>9. Fair => (At("serve") ~> At("close") \/ Free)
    <2>1. /\ Inv /\ [Next]_vars /\ At("serve") => At("serve")' \/ At("close")' \/ Free'
          /\ Inv /\ At("serve") /\ <<Handler(s)>>_vars => At("close")' \/ Free'
          /\ HandlersNotStuck /\ At("serve") => CanMove(s)
      BY <1>2, <1>3, DeadMovesOn DEF Inv, Onward
    <2>2. QED
      BY <2>1, <1>4, PTL DEF Spec, HandlerFairness, CanMove
  <1>10. Fair => (At("close") ~> At("unregister") \/ Free)
    <2>1. /\ Inv /\ [Next]_vars /\ At("close") => At("close")' \/ At("unregister")' \/ Free'
          /\ Inv /\ At("close") /\ <<Handler(s)>>_vars => At("unregister")' \/ Free'
          /\ HandlersNotStuck /\ At("close") => CanMove(s)
      BY <1>2, <1>3, DeadMovesOn DEF Inv, Onward
    <2>2. QED
      BY <2>1, <1>4, PTL DEF Spec, HandlerFairness, CanMove
  <1>11. Fair => (At("unregister") ~> Free)
    <2>1. /\ Inv /\ [Next]_vars /\ At("unregister") => At("unregister")' \/ Free'
          /\ Inv /\ At("unregister") /\ <<Handler(s)>>_vars => Free'
          /\ HandlersNotStuck /\ At("unregister") => CanMove(s)
      BY <1>2, <1>3, DeadMovesOn DEF Inv, Onward
    <2>2. QED
      BY <2>1, <1>4, PTL DEF Spec, HandlerFairness, CanMove
  <1>12. Inv /\ registry[h] = s /\ ~up[s]
           => \/ At("touch") \/ At("desire") \/ At("report") \/ At("ack")
              \/ At("serve") \/ At("close") \/ At("unregister")
    BY ConstantsAssumption DEF Inv, RegistryInv, EntryHasHandler, Holding, Startup, DeadAt
  <1>13. QED
    BY <1>1, <1>4, <1>5, <1>6, <1>7, <1>8, <1>9, <1>10, <1>11, <1>12, PTL
=============================================================================
